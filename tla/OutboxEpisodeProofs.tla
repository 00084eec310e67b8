------------------------- MODULE OutboxEpisodeProofs -------------------------
(***************************************************************************)
(* Theorems of Outbox about what a reader is told of an outage: nothing    *)
(* from before or within a maintenance window, no news twice, no old news, *)
(* and the end of what was told.                                           *)
(*                                                                         *)
(* They hold of instants in whole seconds.  With fractions the texts that  *)
(* SQLite compares are in another order than the instants, the windows     *)
(* begin and end late (run OutboxSeconds), and messages leave within them. *)
(***************************************************************************)
EXTENDS OutboxProofs

Told(r) == r.status \in Active \cup Success

\* The maintenance windows of alarm a's device, and the silences of a.
WindowsOf(a, as, ws) == {ws[w] : w \in {x \in DOMAIN ws : ws[x].device = as[a].device}}
SilencesOf(a, ss)    == {ss[s] : s \in {x \in DOMAIN ss : ss[x].alarm = a}}

\* NoneVanished of the windows ws and the silences ss.
Lasting(ws, ss) ==
  /\ \A w \in DOMAIN ws : ws[w].cancelled # ws[w].starts
  /\ \A s \in DOMAIN ss : ss[s].cancelled # ss[s].starts

\* An interval that a request could have asked for before t.
Sound(v, t) ==
  /\ v.starts \in Nat /\ v.ends \in Nat /\ v.cancelled \in Nat
  /\ 0 < v.starts /\ v.starts < v.ends /\ v.cancelled <= t

\* Nothing lies ahead of the clock t, and the rows are in the order of time.
Dated(rs, as, ws, ss, t) ==
  /\ \A a \in DOMAIN as :
       /\ as[a].opened <= t /\ as[a].ended <= t
       /\ as[a].ended = Never <=> as[a].status = "open"
  /\ \A i \in DOMAIN rs : as[rs[i].alarm].opened <= rs[i].created /\ rs[i].created <= t
  /\ \A i, j \in DOMAIN rs : i < j => rs[i].created <= rs[j].created
  /\ \A w \in DOMAIN ws : Sound(ws[w], t) /\ (ws[w].activated => ws[w].starts <= t)
  /\ \A s \in DOMAIN ss : Sound(ss[s], t)

\* What is queued for which reason, and in which order.
Reasons(rs, as) ==
  /\ \A i, j \in DOMAIN rs :
       i < j /\ rs[i].alarm = rs[j].alarm
       => /\ rs[j].type # "opened"
          /\ rs[j].type = "resolved" => rs[i].type \notin Resolution
  /\ \A i \in DOMAIN rs :
       LET r == rs[i]
           a == as[r.alarm]
       IN  /\ r.key[1] # "reconcile" /\ Told(r) => r.type \in {"opened", "resolved"}
           /\ \/ r.type \in {"opened", "resolved"}
              \/ r.type \in Outage /\ r.key[1] = "reconcile"
              => a.ended = Never \/ r.created <= a.ended
           /\ r.type \in Resolution => a.ended <= r.created

\* What is still to go is from after every window that was reconciled.
Cleared(rs, as, ws) ==
  \A i \in DOMAIN rs :
    LET a == as[rs[i].alarm]
    IN  rs[i].status \in Active
        => \A v \in WindowsOf(rs[i].alarm, as, ws) :
             v.activated /\ Effective(v) /\ (a.ended = Never \/ v.starts <= a.ended)
             => EffectiveEnd(v) <= rs[i].created

\* Nothing that goes, or went, was queued within an interval that it could have
\* known of.
Unhushed(rs, as, ws, ss) ==
  \A i \in DOMAIN rs :
    Told(rs[i])
    => /\ \A v \in WindowsOf(rs[i].alarm, as, ws) :
            v.starts < rs[i].created => EffectiveEnd(v) <= rs[i].created
       /\ \A v \in SilencesOf(rs[i].alarm, ss) :
            \/ v.starts < rs[i].created
            \/ v.starts = rs[i].created /\ rs[i].type \in Resolution
            => EffectiveEnd(v) <= rs[i].created

\* Row r has an interval, from before the end of its alarm, that excuses its
\* suppression.
Excused(r, as, ws, ss, t) ==
  LET a == as[r.alarm]
  IN  \E v \in WindowsOf(r.alarm, as, ws) \cup SilencesOf(r.alarm, ss) :
        /\ Effective(v) /\ v.starts <= t /\ a.opened <= EffectiveEnd(v)
        /\ a.ended = Never \/ v.starts <= a.ended \/ r.created <= a.ended

\* What is suppressed is excused, summaries apart.
Hushed(rs, as, ws, ss, t) ==
  Lasting(ws, ss) =>
  \A k \in DOMAIN rs :
    rs[k].status = "suppressed" /\ rs[k].key[1] # "reconcile" => Excused(rs[k], as, ws, ss, t)

\* The end of an interval lies between the rows r and s about an outage; if
\* they are about its end, a window began with that end.
Between(r, s, as, ws, ss) ==
  /\ {r.type, s.type} \subseteq Outage
     => \E v \in WindowsOf(r.alarm, as, ws) \cup SilencesOf(r.alarm, ss) :
          /\ Effective(v)
          /\ r.created <= EffectiveEnd(v) /\ EffectiveEnd(v) <= s.created
  /\ {r.type, s.type} \subseteq Resolution
     => \E v \in WindowsOf(r.alarm, as, ws) : v.starts = as[r.alarm].ended

\* The summary s repeats row r for the same target.
Repeats(r, s) ==
  /\ r.alarm = s.alarm /\ r.ident = s.ident
  /\ Told(r) /\ s.key[1] = "reconcile"

Apart(rs, as, ws, ss) ==
  Lasting(ws, ss) =>
  \A i, k \in DOMAIN rs : i < k /\ Repeats(rs[i], rs[k]) => Between(rs[i], rs[k], as, ws, ss)

\* Every window that began before a dispatch was claimed was reconciled.
Punctual(js, ws, t) ==
  \A j \in js : j.at <= t /\ \A w \in DOMAIN ws : ws[w].starts < j.at => ws[w].activated
-----------------------------------------------------------------------------
(***************************************************************************)
(* Intervals.                                                              *)
(***************************************************************************)
WholeSeconds == TicksPerSecond = 1

LEMMA SqlIsTheClock ==
  ASSUME WholeSeconds, NEW s \in Nat, NEW t \in Nat
  PROVE  (SqlLeq(s, t) <=> s <= t) /\ (SqlLess(s, t) <=> s < t)
<1>1. \A n \in Nat : SqlKey(n) = n
  BY DEF SqlKey, WholeSeconds
<1>2. QED
  BY <1>1 DEF SqlLeq, SqlLess

LEMMA EndIsNatural ==
  ASSUME NEW t, NEW v, Sound(v, t)
  PROVE  EffectiveEnd(v) \in Nat /\ EffectiveEnd(v) <= v.ends
BY DEF Sound, EffectiveEnd

LEMMA ForceIsBetween ==
  ASSUME WholeSeconds, NEW t \in Nat, NEW v, Sound(v, t)
  PROVE  InForce(v, t) <=> v.starts <= t /\ t < EffectiveEnd(v)
BY SqlIsTheClock DEF InForce, EffectiveEnd, Sound, Never

\* An interval stays, or is cancelled at t.
Later(v, u, t) ==
  /\ u.starts = v.starts /\ u.ends = v.ends
  /\ u.cancelled = v.cancelled \/ (v.cancelled = Never /\ u.cancelled = t)

\* An interval that is asked for at t.
Begun(u, t) ==
  /\ u.starts \in Nat /\ u.ends \in Nat /\ 0 < u.starts
  /\ t <= u.starts /\ u.starts < u.ends /\ u.cancelled = Never

LEMMA BegunIsSound ==
  ASSUME NEW t \in Nat, NEW u, Begun(u, t)
  PROVE  Sound(u, t) /\ EffectiveEnd(u) = u.ends
BY DEF Begun, Sound, EffectiveEnd, Never

LEMMA LaterIsSound ==
  ASSUME NEW t \in Nat, NEW v, NEW u, Sound(v, t), Later(v, u, t)
  PROVE  Sound(u, t)
BY DEF Later, Sound

LEMMA LaterEnds ==
  ASSUME NEW t \in Nat, NEW v, NEW u, Sound(v, t), Later(v, u, t)
  PROVE  /\ EffectiveEnd(u) <= EffectiveEnd(v)
         /\ EffectiveEnd(u) = EffectiveEnd(v) \/ EffectiveEnd(u) = t
         /\ EffectiveEnd(v) <= t => EffectiveEnd(u) = EffectiveEnd(v)
         /\ Effective(u) => Effective(v)
         /\ Effective(v) /\ v.starts <= t /\ u.cancelled # u.starts => Effective(u)
BY DEF Later, Sound, EffectiveEnd, Effective, Never
-----------------------------------------------------------------------------
(***************************************************************************)
(* What a step at t may do to the tables that the rows refer to.           *)
(***************************************************************************)
AlarmsMove(as, at, t) ==
  /\ DOMAIN as \subseteq DOMAIN at
  /\ \A a \in DOMAIN as :
       /\ at[a].device = as[a].device /\ at[a].opened = as[a].opened
       /\ \/ at[a].ended = as[a].ended /\ at[a].status = as[a].status
          \/ as[a].ended = Never /\ at[a].ended = t /\ at[a].status # "open"
  /\ \A a \in DOMAIN at \ DOMAIN as :
       at[a].opened = t /\ at[a].ended = Never /\ at[a].status = "open"

WindowsMove(ws, wt, t) ==
  /\ DOMAIN ws \subseteq DOMAIN wt
  /\ \A w \in DOMAIN ws :
       /\ wt[w].device = ws[w].device /\ Later(ws[w], wt[w], t)
       /\ ws[w].activated => wt[w].activated
       /\ wt[w].activated => ws[w].activated \/ ws[w].starts <= t
  /\ \A w \in DOMAIN wt \ DOMAIN ws : Begun(wt[w], t) /\ ~wt[w].activated

SilencesMove(ss, st, as, t) ==
  /\ DOMAIN ss \subseteq DOMAIN st
  /\ \A s \in DOMAIN ss : st[s].alarm = ss[s].alarm /\ Later(ss[s], st[s], t)
  /\ \A s \in DOMAIN st \ DOMAIN ss :
       /\ Begun(st[s], t) /\ st[s].starts = t
       /\ st[s].alarm \in DOMAIN as /\ as[st[s].alarm].status = "open"

\* The rows refer to alarms.
Refer(rs, as) == \A i \in DOMAIN rs : rs[i].alarm \in DOMAIN as

\* What the types say, as far as it matters here.
Typed(rs, as, t) ==
  /\ rs \in Seq(Message) /\ as \in Seq(Alarm) /\ t \in Nat \ {0}
  /\ Refer(rs, as)

LEMMA TypedFacts ==
  ASSUME NEW rs, NEW as, NEW t, Typed(rs, as, t)
  PROVE  /\ t \in Nat /\ t # Never
         /\ \A i \in DOMAIN rs : rs[i] \in Message /\ rs[i].created \in Nat
                                 /\ rs[i].alarm \in DOMAIN as
         /\ \A a \in DOMAIN as : as[a].opened \in Nat /\ as[a].ended \in Nat
         /\ DOMAIN rs \subseteq Nat
<1>1. rs \in Seq(Message) /\ as \in Seq(Alarm) /\ t \in Nat \ {0}
  BY DEF Typed
<1>2. \A i \in DOMAIN rs : rs[i] \in Message
  BY <1>1
<1>3. ASSUME NEW a \in DOMAIN as
      PROVE  as[a] \in Alarm
  <2>1. as \in Seq(Alarm)
    BY <1>1
  <2>2. DOMAIN as = 1 .. Len(as)
    BY <2>1, LenProperties
  <2>3. QED
    BY <2>1, <2>2, ElementOfSeq
<1>4. DOMAIN rs \subseteq Nat
  <2>1. DOMAIN rs = 1 .. Len(rs) /\ Len(rs) \in Nat
    BY <1>1
  <2>2. QED
    BY <2>1
<1>5. \A i \in DOMAIN rs : rs[i].created \in Nat
  BY <1>2 DEF Message
<1>6. \A a \in DOMAIN as : as[a].opened \in Nat /\ as[a].ended \in Nat
  BY <1>3 DEF Alarm
<1>7. QED
  BY <1>1, <1>2, <1>4, <1>5, <1>6 DEF Typed, Refer, Never

\* The windows of an alarm move one by one, ...
LEMMA WindowsOfMove ==
  ASSUME NEW as, NEW at, NEW ws, NEW wt, NEW t,
         AlarmsMove(as, at, t), WindowsMove(ws, wt, t), NEW a \in DOMAIN as
  PROVE  /\ \A v \in WindowsOf(a, as, ws) :
              \E u \in WindowsOf(a, at, wt) : Later(v, u, t)
         /\ \A u \in WindowsOf(a, at, wt) :
              \/ \E v \in WindowsOf(a, as, ws) :
                   /\ Later(v, u, t)
                   /\ u.activated => v.activated \/ v.starts <= t
              \/ Begun(u, t) /\ ~u.activated
<1>1. at[a].device = as[a].device
  BY DEF AlarmsMove
<1>2. ASSUME NEW v \in WindowsOf(a, as, ws)
      PROVE  \E u \in WindowsOf(a, at, wt) : Later(v, u, t)
  <2>1. PICK w \in DOMAIN ws : ws[w].device = as[a].device /\ v = ws[w]
    BY DEF WindowsOf
  <2>2. /\ w \in DOMAIN wt /\ wt[w].device = at[a].device /\ Later(v, wt[w], t)
    BY <1>1, <2>1 DEF WindowsMove
  <2>3. wt[w] \in WindowsOf(a, at, wt)
    BY <2>2 DEF WindowsOf
  <2>4. QED
    BY <2>2, <2>3
<1>3. ASSUME NEW u \in WindowsOf(a, at, wt)
      PROVE  \/ \E v \in WindowsOf(a, as, ws) :
                  /\ Later(v, u, t)
                  /\ u.activated => v.activated \/ v.starts <= t
             \/ Begun(u, t) /\ ~u.activated
  <2>1. PICK w \in DOMAIN wt : wt[w].device = at[a].device /\ u = wt[w]
    BY DEF WindowsOf
  <2>2. CASE w \in DOMAIN ws
    <3>1. /\ ws[w].device = as[a].device /\ Later(ws[w], u, t)
          /\ u.activated => ws[w].activated \/ ws[w].starts <= t
      BY <1>1, <2>1, <2>2 DEF WindowsMove
    <3>2. ws[w] \in WindowsOf(a, as, ws)
      BY <2>2, <3>1 DEF WindowsOf
    <3>3. QED
      BY <3>1, <3>2
  <2>3. CASE w \notin DOMAIN ws
    BY <2>1, <2>3 DEF WindowsMove
  <2>4. QED
    BY <2>2, <2>3
<1>4. QED
  BY <1>2, <1>3

\* ... and so do its silences.
LEMMA SilencesOfMove ==
  ASSUME NEW as, NEW ss, NEW st, NEW t, SilencesMove(ss, st, as, t), NEW a
  PROVE  \A v \in SilencesOf(a, ss) : \E u \in SilencesOf(a, st) : Later(v, u, t)
<1>1. ASSUME NEW v \in SilencesOf(a, ss)
      PROVE  \E u \in SilencesOf(a, st) : Later(v, u, t)
  <2>1. PICK s \in DOMAIN ss : ss[s].alarm = a /\ v = ss[s]
    BY DEF SilencesOf
  <2>2. s \in DOMAIN st /\ st[s].alarm = a /\ Later(v, st[s], t)
    BY <2>1 DEF SilencesMove
  <2>3. st[s] \in SilencesOf(a, st)
    BY <2>2 DEF SilencesOf
  <2>4. QED
    BY <2>2, <2>3
<1>2. QED
  BY <1>1

\* The intervals of an alarm are those of the tables.
LEMMA IntervalsAreSound ==
  ASSUME NEW rs, NEW as, NEW ws, NEW ss, NEW t, Dated(rs, as, ws, ss, t), NEW a
  PROVE  /\ \A v \in WindowsOf(a, as, ws) : Sound(v, t) /\ (v.activated => v.starts <= t)
         /\ \A v \in SilencesOf(a, ss) : Sound(v, t)
BY DEF Dated, WindowsOf, SilencesOf

\* What was vanished stays vanished.
LEMMA LastingBefore ==
  ASSUME NEW rs, NEW as, NEW ws, NEW wt, NEW ss, NEW st, NEW t, t \in Nat,
         Dated(rs, as, ws, ss, t), WindowsMove(ws, wt, t), SilencesMove(ss, st, as, t),
         Lasting(wt, st)
  PROVE  Lasting(ws, ss)
<1>1. \A w \in DOMAIN ws : /\ Sound(ws[w], t) /\ Later(ws[w], wt[w], t)
                           /\ wt[w].cancelled # wt[w].starts
  BY DEF Dated, WindowsMove, Lasting
<1>2. \A s \in DOMAIN ss : /\ Sound(ss[s], t) /\ Later(ss[s], st[s], t)
                           /\ st[s].cancelled # st[s].starts
  BY DEF Dated, SilencesMove, Lasting
<1>3. QED
  BY <1>1, <1>2 DEF Lasting, Later, Sound, Never
-----------------------------------------------------------------------------
(***************************************************************************)
(* The invariant when the tables move and the rows stay.                   *)
(***************************************************************************)
LEMMA DatedMoves ==
  ASSUME NEW rs, NEW as, NEW at, NEW ws, NEW wt, NEW ss, NEW st, NEW t,
         Typed(rs, as, t), Dated(rs, as, ws, ss, t),
         AlarmsMove(as, at, t), WindowsMove(ws, wt, t), SilencesMove(ss, st, as, t)
  PROVE  Dated(rs, at, wt, st, t)
<1>1. /\ t \in Nat /\ t # Never
      /\ \A i \in DOMAIN rs : rs[i].alarm \in DOMAIN as
      /\ \A a \in DOMAIN as : as[a].opened \in Nat /\ as[a].ended \in Nat
  BY TypedFacts
<1>2. ASSUME NEW a \in DOMAIN at
      PROVE  /\ at[a].opened <= t /\ at[a].ended <= t
             /\ at[a].ended = Never <=> at[a].status = "open"
  <2>1. CASE a \in DOMAIN as
    <3>1. /\ as[a].opened <= t /\ as[a].ended <= t
          /\ as[a].ended = Never <=> as[a].status = "open"
      BY <2>1 DEF Dated
    <3>2. /\ at[a].opened = as[a].opened
          /\ \/ at[a].ended = as[a].ended /\ at[a].status = as[a].status
             \/ at[a].ended = t /\ at[a].status # "open"
      BY <2>1 DEF AlarmsMove
    <3>3. CASE at[a].ended = as[a].ended /\ at[a].status = as[a].status
      BY <3>1, <3>2, <3>3
    <3>4. t <= t /\ t # Never
      BY <1>1
    <3>5. CASE at[a].ended = t /\ at[a].status # "open"
      BY <3>1, <3>2, <3>4, <3>5
    <3>6. QED
      BY <3>2, <3>3, <3>5
  <2>2. CASE a \notin DOMAIN as
    <3>1. at[a].opened = t /\ at[a].ended = Never /\ at[a].status = "open"
      BY <2>2 DEF AlarmsMove
    <3>2. Never <= t /\ t <= t
      BY <1>1 DEF Never
    <3>3. QED
      BY <3>1, <3>2
  <2>3. QED
    BY <2>1, <2>2
<1>3. ASSUME NEW w \in DOMAIN wt
      PROVE  Sound(wt[w], t) /\ (wt[w].activated => wt[w].starts <= t)
  <2>1. CASE w \in DOMAIN ws
    <3>1. Sound(ws[w], t) /\ Later(ws[w], wt[w], t)
      BY <2>1 DEF Dated, WindowsMove
    <3>2. Sound(wt[w], t) /\ wt[w].starts = ws[w].starts
      BY <1>1, <3>1, LaterIsSound DEF Later
    <3>3. wt[w].activated => ws[w].starts <= t
      BY <2>1 DEF Dated, WindowsMove
    <3>4. QED
      BY <3>2, <3>3
  <2>2. CASE w \notin DOMAIN ws
    BY <1>1, <2>2, BegunIsSound DEF WindowsMove
  <2>3. QED
    BY <2>1, <2>2
<1>4. ASSUME NEW s \in DOMAIN st
      PROVE  Sound(st[s], t)
  <2>1. CASE s \in DOMAIN ss
    BY <1>1, <2>1, LaterIsSound DEF Dated, SilencesMove
  <2>2. CASE s \notin DOMAIN ss
    BY <1>1, <2>2, BegunIsSound DEF SilencesMove
  <2>3. QED
    BY <2>1, <2>2
<1>5. \A i \in DOMAIN rs : at[rs[i].alarm].opened <= rs[i].created /\ rs[i].created <= t
  BY <1>1 DEF Dated, AlarmsMove
<1>6. \A i, j \in DOMAIN rs : i < j => rs[i].created <= rs[j].created
  BY DEF Dated
<1>7. QED
  BY <1>2, <1>3, <1>4, <1>5, <1>6 DEF Dated

\* A resolution is never about an open alarm.
Settled(rs, as) ==
  \A i \in DOMAIN rs : rs[i].type \in Resolution => as[rs[i].alarm].status # "open"

LEMMA ReasonsMove ==
  ASSUME NEW rs, NEW as, NEW at, NEW ws, NEW ss, NEW t,
         Typed(rs, as, t), Settled(rs, as), Dated(rs, as, ws, ss, t), Reasons(rs, as),
         AlarmsMove(as, at, t)
  PROVE  Reasons(rs, at)
<1>1. \A i, j \in DOMAIN rs :
        i < j /\ rs[i].alarm = rs[j].alarm
        => /\ rs[j].type # "opened"
           /\ rs[j].type = "resolved" => rs[i].type \notin Resolution
  BY DEF Reasons
<1>2. ASSUME NEW i \in DOMAIN rs
      PROVE  LET r == rs[i]
                 a == at[r.alarm]
             IN  /\ r.key[1] # "reconcile" /\ Told(r) => r.type \in {"opened", "resolved"}
                 /\ \/ r.type \in {"opened", "resolved"}
                    \/ r.type \in Outage /\ r.key[1] = "reconcile"
                    => a.ended = Never \/ r.created <= a.ended
                 /\ r.type \in Resolution => a.ended <= r.created
  <2>1. /\ rs[i].alarm \in DOMAIN as /\ rs[i].created \in Nat /\ t \in Nat
        /\ rs[i].created <= t
    BY TypedFacts DEF Dated
  <2>2. PICK b : b = as[rs[i].alarm]
    OBVIOUS
  <2>3. PICK c : c = at[rs[i].alarm]
    OBVIOUS
  <2>4. \/ c.ended = b.ended
        \/ b.ended = Never /\ c.ended = t
    BY <2>1, <2>2, <2>3 DEF AlarmsMove
  <2>5. rs[i].type \in Resolution => b.ended # Never
    BY <2>1, <2>2 DEF Settled, Dated
  <2>6. /\ rs[i].key[1] # "reconcile" /\ Told(rs[i]) => rs[i].type \in {"opened", "resolved"}
        /\ \/ rs[i].type \in {"opened", "resolved"}
           \/ rs[i].type \in Outage /\ rs[i].key[1] = "reconcile"
           => b.ended = Never \/ rs[i].created <= b.ended
        /\ rs[i].type \in Resolution => b.ended <= rs[i].created
    BY <2>2 DEF Reasons
  <2>7. /\ b.ended = Never \/ rs[i].created <= b.ended
           => c.ended = Never \/ rs[i].created <= c.ended
        /\ rs[i].type \in Resolution => c.ended <= rs[i].created
    BY <2>1, <2>4, <2>5, <2>6
  <2>8. QED
    BY <2>3, <2>6, <2>7
<1>3. QED
  BY <1>1, <1>2 DEF Reasons

\* The table of windows as it was reconciled.
SameMarks(ws, wt) == \A w \in DOMAIN ws : wt[w].activated => ws[w].activated

LEMMA ClearedMoves ==
  ASSUME NEW rs, NEW as, NEW at, NEW ws, NEW wt, NEW ss, NEW t,
         Typed(rs, as, t), Dated(rs, as, ws, ss, t), Cleared(rs, as, ws),
         AlarmsMove(as, at, t), WindowsMove(ws, wt, t), SameMarks(ws, wt)
  PROVE  Cleared(rs, at, wt)
<1>1. ASSUME NEW i \in DOMAIN rs, rs[i].status \in Active,
             NEW u \in WindowsOf(rs[i].alarm, at, wt), u.activated, Effective(u),
             at[rs[i].alarm].ended = Never \/ u.starts <= at[rs[i].alarm].ended
      PROVE  EffectiveEnd(u) <= rs[i].created
  <2>1. rs[i].alarm \in DOMAIN as /\ rs[i].created \in Nat /\ t \in Nat
    BY TypedFacts
  <2>2. PICK w \in DOMAIN wt : wt[w].device = at[rs[i].alarm].device /\ u = wt[w]
    BY DEF WindowsOf
  <2>3. w \in DOMAIN ws
    BY <1>1, <2>2 DEF WindowsMove
  <2>4. PICK v : v = ws[w]
    OBVIOUS
  <2>5. v \in WindowsOf(rs[i].alarm, as, ws)
    <3>1. wt[w].device = ws[w].device /\ at[rs[i].alarm].device = as[rs[i].alarm].device
      BY <2>1, <2>3 DEF WindowsMove, AlarmsMove
    <3>2. ws[w].device = as[rs[i].alarm].device
      BY <2>2, <3>1
    <3>3. QED
      BY <2>3, <2>4, <3>2 DEF WindowsOf
  <2>6. Later(v, u, t) /\ v.activated
    BY <1>1, <2>2, <2>3, <2>4 DEF WindowsMove, SameMarks
  <2>7. Sound(v, t) /\ v.starts <= t
    BY <2>5, <2>6, IntervalsAreSound
  <2>8. Effective(v) /\ EffectiveEnd(u) <= EffectiveEnd(v) /\ u.starts = v.starts
    BY <1>1, <2>1, <2>6, <2>7, LaterEnds DEF Later
  <2>9. as[rs[i].alarm].ended = Never \/ v.starts <= as[rs[i].alarm].ended
    BY <1>1, <2>1, <2>8 DEF AlarmsMove
  <2>10. EffectiveEnd(v) <= rs[i].created
    BY <1>1, <2>5, <2>6, <2>8, <2>9 DEF Cleared
  <2>11. EffectiveEnd(v) \in Nat /\ EffectiveEnd(u) \in Nat
    BY <2>1, <2>6, <2>7, EndIsNatural, LaterIsSound
  <2>12. QED
    BY <2>1, <2>8, <2>10, <2>11
<1>2. QED
  BY <1>1 DEF Cleared

LEMMA UnhushedMoves ==
  ASSUME NEW rs, NEW as, NEW at, NEW ws, NEW wt, NEW ss, NEW st, NEW t,
         Typed(rs, as, t), Settled(rs, as), Dated(rs, as, ws, ss, t),
         Unhushed(rs, as, ws, ss),
         AlarmsMove(as, at, t), WindowsMove(ws, wt, t), SilencesMove(ss, st, as, t)
  PROVE  Unhushed(rs, at, wt, st)
<1>1. ASSUME NEW i \in DOMAIN rs, Told(rs[i]),
             NEW v, NEW u, Sound(v, t), Later(v, u, t), EffectiveEnd(v) <= rs[i].created
      PROVE  EffectiveEnd(u) <= rs[i].created
  <2>1. t \in Nat /\ rs[i].created \in Nat
    BY TypedFacts
  <2>2. /\ EffectiveEnd(u) <= EffectiveEnd(v)
        /\ EffectiveEnd(v) \in Nat /\ EffectiveEnd(u) \in Nat
    BY <1>1, <2>1, LaterEnds, LaterIsSound, EndIsNatural
  <2>3. QED
    BY <1>1, <2>1, <2>2
<1>2. ASSUME NEW i \in DOMAIN rs, Told(rs[i]),
             NEW u \in WindowsOf(rs[i].alarm, at, wt), u.starts < rs[i].created
      PROVE  EffectiveEnd(u) <= rs[i].created
  <2>1. rs[i].alarm \in DOMAIN as /\ t \in Nat /\ rs[i].created \in Nat /\ rs[i].created <= t
    BY TypedFacts DEF Dated
  <2>2. CASE \E v \in WindowsOf(rs[i].alarm, as, ws) : Later(v, u, t)
    <3>1. PICK v \in WindowsOf(rs[i].alarm, as, ws) : Later(v, u, t)
      BY <2>2
    <3>2. Sound(v, t) /\ v.starts < rs[i].created
      BY <1>2, <3>1, IntervalsAreSound DEF Later
    <3>3. EffectiveEnd(v) <= rs[i].created
      BY <1>2, <3>2 DEF Unhushed
    <3>4. QED
      BY <1>1, <1>2, <3>1, <3>2, <3>3
  <2>3. CASE Begun(u, t)
    BY <1>2, <2>1, <2>3 DEF Begun
  <2>4. QED
    BY <2>1, <2>2, <2>3, WindowsOfMove
<1>3. ASSUME NEW i \in DOMAIN rs, Told(rs[i]), NEW u \in SilencesOf(rs[i].alarm, st),
             \/ u.starts < rs[i].created
             \/ u.starts = rs[i].created /\ rs[i].type \in Resolution
      PROVE  EffectiveEnd(u) <= rs[i].created
  <2>1. rs[i].alarm \in DOMAIN as /\ t \in Nat /\ rs[i].created \in Nat /\ rs[i].created <= t
    BY TypedFacts DEF Dated
  <2>2. PICK s \in DOMAIN st : st[s].alarm = rs[i].alarm /\ u = st[s]
    BY DEF SilencesOf
  <2>3. CASE s \in DOMAIN ss
    <3>1. PICK v : v = ss[s]
      OBVIOUS
    <3>2. v \in SilencesOf(rs[i].alarm, ss) /\ Later(v, u, t)
      BY <2>2, <2>3, <3>1 DEF SilencesMove, SilencesOf
    <3>3. /\ Sound(v, t)
          /\ \/ v.starts < rs[i].created
             \/ v.starts = rs[i].created /\ rs[i].type \in Resolution
      BY <1>3, <3>2, IntervalsAreSound DEF Later
    <3>4. EffectiveEnd(v) <= rs[i].created
      BY <1>3, <3>2, <3>3 DEF Unhushed
    <3>5. QED
      BY <1>1, <1>3, <3>2, <3>3, <3>4
  <2>4. CASE s \notin DOMAIN ss
    <3>1. u.starts = t /\ as[rs[i].alarm].status = "open"
      BY <2>2, <2>4 DEF SilencesMove
    <3>2. rs[i].type \notin Resolution
      BY <3>1 DEF Settled
    <3>3. ~(u.starts < rs[i].created)
      BY <2>1, <3>1
    <3>4. QED
      BY <1>3, <3>2, <3>3
  <2>5. QED
    BY <2>3, <2>4
<1>4. QED
  BY <1>2, <1>3 DEF Unhushed

\* An interval of an alarm that had begun keeps its meaning.
LEMMA IntervalsStay ==
  ASSUME NEW rs, NEW as, NEW at, NEW ws, NEW wt, NEW ss, NEW st, NEW t,
         t \in Nat, Dated(rs, as, ws, ss, t), Lasting(wt, st),
         AlarmsMove(as, at, t), WindowsMove(ws, wt, t), SilencesMove(ss, st, as, t),
         NEW a \in DOMAIN as,
         NEW v \in WindowsOf(a, as, ws) \cup SilencesOf(a, ss), Effective(v), v.starts <= t
  PROVE  \E u \in WindowsOf(a, at, wt) \cup SilencesOf(a, st) :
           /\ Later(v, u, t) /\ Effective(u) /\ Sound(v, t)
           /\ v \in WindowsOf(a, as, ws) => u \in WindowsOf(a, at, wt)
<1>1. \A u \in WindowsOf(a, at, wt) \cup SilencesOf(a, st) : u.cancelled # u.starts
  BY DEF Lasting, WindowsOf, SilencesOf
<1>2. CASE v \in WindowsOf(a, as, ws)
  <2>1. PICK u \in WindowsOf(a, at, wt) : Later(v, u, t)
    BY <1>2, WindowsOfMove
  <2>2. Sound(v, t)
    BY <1>2, IntervalsAreSound
  <2>3. Effective(u)
    BY <1>1, <2>1, <2>2, LaterEnds
  <2>4. QED
    BY <2>1, <2>2, <2>3
<1>3. CASE v \in SilencesOf(a, ss) /\ v \notin WindowsOf(a, as, ws)
  <2>1. PICK u \in SilencesOf(a, st) : Later(v, u, t)
    BY <1>3, SilencesOfMove
  <2>2. Sound(v, t)
    BY <1>3, IntervalsAreSound
  <2>3. Effective(u)
    BY <1>1, <2>1, <2>2, LaterEnds
  <2>4. QED
    BY <1>3, <2>1, <2>2, <2>3
<1>4. QED
  BY <1>2, <1>3

LEMMA HushedMoves ==
  ASSUME NEW rs, NEW as, NEW at, NEW ws, NEW wt, NEW ss, NEW st, NEW t,
         Typed(rs, as, t), Dated(rs, as, ws, ss, t), Hushed(rs, as, ws, ss, t),
         AlarmsMove(as, at, t), WindowsMove(ws, wt, t), SilencesMove(ss, st, as, t)
  PROVE  Hushed(rs, at, wt, st, t)
<1>1. ASSUME Lasting(wt, st), NEW k \in DOMAIN rs,
             rs[k].status = "suppressed", rs[k].key[1] # "reconcile"
      PROVE  \E u \in WindowsOf(rs[k].alarm, at, wt) \cup SilencesOf(rs[k].alarm, st) :
               /\ Effective(u) /\ u.starts <= t /\ at[rs[k].alarm].opened <= EffectiveEnd(u)
               /\ \/ at[rs[k].alarm].ended = Never
                  \/ u.starts <= at[rs[k].alarm].ended
                  \/ rs[k].created <= at[rs[k].alarm].ended
  <2>1. /\ rs[k].alarm \in DOMAIN as /\ t \in Nat
        /\ as[rs[k].alarm].opened \in Nat
    BY TypedFacts
  <2>2. PICK a \in DOMAIN as : a = rs[k].alarm
    BY <2>1
  <2>3. Lasting(ws, ss)
    BY <1>1, <2>1, LastingBefore
  <2>4. PICK v \in WindowsOf(a, as, ws) \cup SilencesOf(a, ss) :
           /\ Effective(v) /\ v.starts <= t /\ as[a].opened <= EffectiveEnd(v)
           /\ as[a].ended = Never \/ v.starts <= as[a].ended \/ rs[k].created <= as[a].ended
    BY <1>1, <2>2, <2>3 DEF Hushed, Excused
  <2>5. PICK u \in WindowsOf(a, at, wt) \cup SilencesOf(a, st) :
           Later(v, u, t) /\ Effective(u) /\ Sound(v, t)
    BY <1>1, <2>1, <2>4, IntervalsStay
  <2>6. u.starts = v.starts /\ u.starts <= t
    BY <2>4, <2>5 DEF Later
  <2>7. at[a].opened <= EffectiveEnd(u)
    <3>1. EffectiveEnd(u) = EffectiveEnd(v) \/ EffectiveEnd(u) = t
      BY <2>1, <2>5, LaterEnds
    <3>2. at[a].opened = as[a].opened /\ as[a].opened <= t
      BY DEF AlarmsMove, Dated
    <3>3. QED
      BY <2>4, <3>1, <3>2
  <2>8. at[a].ended = Never \/ u.starts <= at[a].ended \/ rs[k].created <= at[a].ended
    <3>1. at[a].ended = as[a].ended \/ at[a].ended = t
      BY DEF AlarmsMove
    <3>2. QED
      BY <2>4, <2>6, <3>1
  <2>9. QED
    BY <2>2, <2>5, <2>6, <2>7, <2>8
<1>2. QED
  BY <1>1 DEF Hushed, Excused

LEMMA ApartMoves ==
  ASSUME NEW rs, NEW as, NEW at, NEW ws, NEW wt, NEW ss, NEW st, NEW t,
         Typed(rs, as, t), Settled(rs, as), Dated(rs, as, ws, ss, t), Apart(rs, as, ws, ss),
         AlarmsMove(as, at, t), WindowsMove(ws, wt, t), SilencesMove(ss, st, as, t)
  PROVE  Apart(rs, at, wt, st)
<1>1. ASSUME Lasting(wt, st), NEW i \in DOMAIN rs, NEW k \in DOMAIN rs, i < k, Repeats(rs[i], rs[k])
      PROVE  Between(rs[i], rs[k], at, wt, st)
  <2>1. /\ rs[i].alarm \in DOMAIN as /\ t \in Nat
        /\ rs[k].created \in Nat /\ rs[k].created <= t
    BY TypedFacts DEF Dated
  <2>2. PICK a \in DOMAIN as : a = rs[i].alarm
    BY <2>1
  <2>3. Between(rs[i], rs[k], as, ws, ss)
    BY <1>1, <2>1, LastingBefore DEF Apart
  <2>4. ASSUME {rs[i].type, rs[k].type} \subseteq Outage
        PROVE  \E u \in WindowsOf(a, at, wt) \cup SilencesOf(a, st) :
                 /\ Effective(u)
                 /\ rs[i].created <= EffectiveEnd(u) /\ EffectiveEnd(u) <= rs[k].created
    <3>1. PICK v \in WindowsOf(a, as, ws) \cup SilencesOf(a, ss) :
             /\ Effective(v)
             /\ rs[i].created <= EffectiveEnd(v) /\ EffectiveEnd(v) <= rs[k].created
      BY <2>2, <2>3, <2>4 DEF Between
    <3>2. Sound(v, t)
      BY IntervalsAreSound
    <3>3. v.starts \in Nat /\ EffectiveEnd(v) \in Nat
      BY <3>2, EndIsNatural DEF Sound
    <3>4. v.starts <= t /\ EffectiveEnd(v) <= t
      BY <2>1, <3>1, <3>3 DEF Effective
    <3>5. PICK u \in WindowsOf(a, at, wt) \cup SilencesOf(a, st) :
             Later(v, u, t) /\ Effective(u)
      BY <1>1, <2>1, <3>1, <3>4, IntervalsStay
    <3>6. EffectiveEnd(u) = EffectiveEnd(v)
      BY <2>1, <3>2, <3>4, <3>5, LaterEnds
    <3>7. QED
      BY <3>1, <3>5, <3>6
  <2>5. ASSUME {rs[i].type, rs[k].type} \subseteq Resolution
        PROVE  \E u \in WindowsOf(a, at, wt) : u.starts = at[a].ended
    <3>1. PICK v \in WindowsOf(a, as, ws) : v.starts = as[a].ended
      BY <2>2, <2>3, <2>5 DEF Between
    <3>2. as[a].ended # Never
      BY <2>2, <2>5 DEF Settled, Dated
    <3>3. at[a].ended = as[a].ended
      BY <3>2 DEF AlarmsMove
    <3>4. PICK u \in WindowsOf(a, at, wt) : Later(v, u, t)
      BY WindowsOfMove
    <3>5. QED
      BY <3>1, <3>3, <3>4 DEF Later
  <2>6. QED
    BY <2>2, <2>4, <2>5 DEF Between
<1>2. QED
  BY <1>1 DEF Apart

\* All that is said here of the rows, but for what is reconciled.
Story(rs, as, ws, ss, t) ==
  /\ Dated(rs, as, ws, ss, t) /\ Reasons(rs, as)
  /\ Unhushed(rs, as, ws, ss) /\ Hushed(rs, as, ws, ss, t) /\ Apart(rs, as, ws, ss)

LEMMA StoryMoves ==
  ASSUME NEW rs, NEW as, NEW at, NEW ws, NEW wt, NEW ss, NEW st, NEW t,
         Typed(rs, as, t), Settled(rs, as), Story(rs, as, ws, ss, t),
         AlarmsMove(as, at, t), WindowsMove(ws, wt, t), SilencesMove(ss, st, as, t)
  PROVE  Story(rs, at, wt, st, t)
BY DatedMoves, ReasonsMove, UnhushedMoves, HushedMoves, ApartMoves DEF Story

\* The clock moves.
LEMMA StoryAges ==
  ASSUME NEW rs, NEW as, NEW ws, NEW ss, NEW t, NEW u \in Nat, t <= u,
         Typed(rs, as, t), Story(rs, as, ws, ss, t)
  PROVE  Story(rs, as, ws, ss, u)
<1>1. /\ t \in Nat
      /\ \A i \in DOMAIN rs : rs[i].created \in Nat
      /\ \A a \in DOMAIN as : as[a].opened \in Nat /\ as[a].ended \in Nat
  BY TypedFacts
<1>2. Dated(rs, as, ws, ss, u)
  <2>1. Dated(rs, as, ws, ss, t)
    BY DEF Story
  <2>2. ASSUME NEW v, Sound(v, t)
        PROVE  Sound(v, u) /\ (v.starts <= t => v.starts <= u)
    BY <1>1, <2>2 DEF Sound
  <2>3. ASSUME NEW n \in Nat, n <= t
        PROVE  n <= u
    BY <1>1, <2>3
  <2>4. /\ \A a \in DOMAIN as : as[a].opened <= u /\ as[a].ended <= u
        /\ \A i \in DOMAIN rs : rs[i].created <= u
    BY <1>1, <2>1, <2>3 DEF Dated
  <2>5. QED
    BY <2>1, <2>2, <2>3, <2>4 DEF Dated
<1>3. Hushed(rs, as, ws, ss, u)
  <2>1. ASSUME NEW r, Excused(r, as, ws, ss, t)
        PROVE  Excused(r, as, ws, ss, u)
    <3>1. PICK v \in WindowsOf(r.alarm, as, ws) \cup SilencesOf(r.alarm, ss) :
             /\ Effective(v) /\ v.starts <= t /\ as[r.alarm].opened <= EffectiveEnd(v)
             /\ \/ as[r.alarm].ended = Never
                \/ v.starts <= as[r.alarm].ended \/ r.created <= as[r.alarm].ended
      BY <2>1 DEF Excused
    <3>2. Sound(v, t)
      BY IntervalsAreSound DEF Story
    <3>3. v.starts <= u
      BY <1>1, <3>1, <3>2 DEF Sound
    <3>4. QED
      BY <3>1, <3>3 DEF Excused
  <2>2. Hushed(rs, as, ws, ss, t)
    BY DEF Story
  <2>3. QED
    BY <2>1, <2>2 DEF Hushed
<1>4. QED
  BY <1>2, <1>3 DEF Story
-----------------------------------------------------------------------------
(***************************************************************************)
(* The invariant when rows change or are added and the tables stay.        *)
(***************************************************************************)
\* What rs says, rt says; nothing is told again that was not to be told.
Keeps(rs, rt) ==
  /\ DOMAIN rs \subseteq DOMAIN rt
  /\ \A i \in DOMAIN rs : SameNews(rs[i], rt[i]) /\ (Told(rt[i]) => Told(rs[i]))

\* No interval of alarm a is in force at t.
Audible(a, as, ws, ss, t) ==
  \A v \in WindowsOf(a, as, ws) \cup SilencesOf(a, ss) : v.starts <= t => EffectiveEnd(v) <= t

\* A row that may be added at t to the rows rs.
Addition(r, rs, as, ws, ss, t) ==
  /\ r.created = t
  /\ Told(r) => Audible(r.alarm, as, ws, ss, t)
  /\ r.key[1] # "reconcile" /\ Told(r) => r.type \in {"opened", "resolved"}
  /\ \/ r.type \in {"opened", "resolved"}
     \/ r.type \in Outage /\ r.key[1] = "reconcile"
     => as[r.alarm].ended = Never \/ t <= as[r.alarm].ended
  /\ r.type = "opened" => \A i \in DOMAIN rs : rs[i].alarm # r.alarm
  /\ r.type = "resolved"
     => \A i \in DOMAIN rs : rs[i].alarm = r.alarm => rs[i].type \notin Resolution
  /\ r.key[1] # "reconcile" /\ r.status = "suppressed" /\ Lasting(ws, ss)
     => Excused(r, as, ws, ss, t)
  /\ Lasting(ws, ss)
     => \A i \in DOMAIN rs : Repeats(rs[i], r) => Between(rs[i], r, as, ws, ss)

\* rt is rs with rows that changed and rows that follow them.
Continues(rs, rt, as, ws, ss, t) ==
  /\ Keeps(rs, rt)
  /\ \A i \in DOMAIN rs :
       /\ rt[i].status = "suppressed" /\ rs[i].status # "suppressed"
       /\ rs[i].key[1] # "reconcile" /\ Lasting(ws, ss)
       => Excused(rs[i], as, ws, ss, t)
  /\ \A k \in DOMAIN rt \ DOMAIN rs : Addition(rt[k], rs, as, ws, ss, t)
  /\ \A i, k \in DOMAIN rt \ DOMAIN rs :
       i < k /\ rt[i].alarm = rt[k].alarm
       => rt[k].type \notin {"opened", "resolved"} /\ ~Repeats(rt[i], rt[k])

\* What follows is later.
LEMMA NewRowsFollow ==
  ASSUME NEW rs, NEW rt, NEW as, NEW t, Typed(rs, as, t), Typed(rt, as, t),
         NEW i \in DOMAIN rt, NEW k \in DOMAIN rt, i < k, k \in DOMAIN rs
  PROVE  i \in DOMAIN rs
<1>1. rs \in Seq(Message) /\ rt \in Seq(Message)
  BY DEF Typed
<1>2. DOMAIN rs = 1 .. Len(rs) /\ DOMAIN rt = 1 .. Len(rt) /\ Len(rs) \in Nat /\ Len(rt) \in Nat
  BY <1>1
<1>3. QED
  BY <1>2

LEMMA DatedContinues ==
  ASSUME NEW rs, NEW rt, NEW as, NEW ws, NEW ss, NEW t,
         Typed(rs, as, t), Typed(rt, as, t), Dated(rs, as, ws, ss, t),
         Continues(rs, rt, as, ws, ss, t)
  PROVE  Dated(rt, as, ws, ss, t)
<1>1. /\ t \in Nat
      /\ \A i \in DOMAIN rt : rt[i].alarm \in DOMAIN as
      /\ \A a \in DOMAIN as : as[a].opened <= t
  BY TypedFacts DEF Dated
<1>2. \A i \in DOMAIN rs : rt[i].created = rs[i].created /\ rt[i].alarm = rs[i].alarm
  BY DEF Continues, Keeps, SameNews
<1>3. \A i \in DOMAIN rt \ DOMAIN rs : rt[i].created = t
  BY DEF Continues, Addition
<1>4. ASSUME NEW i \in DOMAIN rt
      PROVE  as[rt[i].alarm].opened <= rt[i].created /\ rt[i].created <= t
  <2>1. CASE i \in DOMAIN rs
    BY <1>2, <2>1 DEF Dated
  <2>2. CASE i \notin DOMAIN rs
    <3>1. rt[i].created = t /\ rt[i].alarm \in DOMAIN as
      BY <1>1, <1>3, <2>2
    <3>2. as[rt[i].alarm].opened <= t
      BY <1>1, <3>1
    <3>3. \A n \in Nat : n <= n
      OBVIOUS
    <3>4. QED
      BY <1>1, <3>1, <3>2, <3>3
  <2>3. QED
    BY <2>1, <2>2
<1>5. ASSUME NEW i \in DOMAIN rt, NEW k \in DOMAIN rt, i < k
      PROVE  rt[i].created <= rt[k].created
  <2>1. CASE k \in DOMAIN rs
    <3>1. i \in DOMAIN rs
      BY <1>5, <2>1, NewRowsFollow
    <3>2. QED
      BY <1>2, <1>5, <2>1, <3>1 DEF Dated
  <2>2. CASE k \notin DOMAIN rs
    BY <1>3, <1>4, <2>2
  <2>3. QED
    BY <2>1, <2>2
<1>6. QED
  BY <1>4, <1>5 DEF Dated

LEMMA ReasonsContinue ==
  ASSUME NEW rs, NEW rt, NEW as, NEW ws, NEW ss, NEW t,
         Typed(rs, as, t), Typed(rt, as, t), Dated(rt, as, ws, ss, t), Reasons(rs, as),
         Continues(rs, rt, as, ws, ss, t)
  PROVE  Reasons(rt, as)
<1>1. ASSUME NEW i \in DOMAIN rs
      PROVE  /\ rt[i].created = rs[i].created /\ rt[i].alarm = rs[i].alarm
             /\ rt[i].type = rs[i].type /\ rt[i].key = rs[i].key
             /\ Told(rt[i]) => Told(rs[i])
  BY DEF Continues, Keeps, SameNews
<1>2. ASSUME NEW i \in DOMAIN rt, NEW k \in DOMAIN rt, i < k, rt[i].alarm = rt[k].alarm
      PROVE  /\ rt[k].type # "opened"
             /\ rt[k].type = "resolved" => rt[i].type \notin Resolution
  <2>1. CASE k \in DOMAIN rs
    <3>1. i \in DOMAIN rs
      BY <1>2, <2>1, NewRowsFollow
    <3>2. QED
      BY <1>1, <1>2, <2>1, <3>1 DEF Reasons
  <2>2. CASE k \notin DOMAIN rs /\ i \in DOMAIN rs
    <3>1. Addition(rt[k], rs, as, ws, ss, t)
      BY <2>2 DEF Continues
    <3>2. rs[i].alarm = rt[k].alarm /\ rs[i].type = rt[i].type
      BY <1>1, <1>2, <2>2
    <3>3. QED
      BY <2>2, <3>1, <3>2 DEF Addition
  <2>3. CASE k \notin DOMAIN rs /\ i \notin DOMAIN rs
    BY <1>2, <2>3 DEF Continues
  <2>4. QED
    BY <2>1, <2>2, <2>3
<1>3. ASSUME NEW i \in DOMAIN rt
      PROVE  LET r == rt[i]
                 a == as[r.alarm]
             IN  /\ r.key[1] # "reconcile" /\ Told(r) => r.type \in {"opened", "resolved"}
                 /\ \/ r.type \in {"opened", "resolved"}
                    \/ r.type \in Outage /\ r.key[1] = "reconcile"
                    => a.ended = Never \/ r.created <= a.ended
                 /\ r.type \in Resolution => a.ended <= r.created
  <2>1. CASE i \in DOMAIN rs
    BY <1>1, <2>1 DEF Reasons
  <2>2. CASE i \notin DOMAIN rs
    <3>1. Addition(rt[i], rs, as, ws, ss, t)
      BY <2>2 DEF Continues
    <3>2. rt[i].alarm \in DOMAIN as
      BY TypedFacts
    <3>3. as[rt[i].alarm].ended <= t
      BY <3>2 DEF Dated
    <3>4. QED
      BY <3>1, <3>3 DEF Addition
  <2>3. QED
    BY <2>1, <2>2
<1>4. QED
  BY <1>2, <1>3 DEF Reasons

LEMMA UnhushedContinues ==
  ASSUME NEW rs, NEW rt, NEW as, NEW ws, NEW ss, NEW t,
         Typed(rs, as, t), Typed(rt, as, t), Dated(rt, as, ws, ss, t), Unhushed(rs, as, ws, ss),
         Continues(rs, rt, as, ws, ss, t)
  PROVE  Unhushed(rt, as, ws, ss)
<1>1. ASSUME NEW i \in DOMAIN rt, Told(rt[i])
      PROVE  /\ \A v \in WindowsOf(rt[i].alarm, as, ws) :
                  v.starts < rt[i].created => EffectiveEnd(v) <= rt[i].created
             /\ \A v \in SilencesOf(rt[i].alarm, ss) :
                  \/ v.starts < rt[i].created
                  \/ v.starts = rt[i].created /\ rt[i].type \in Resolution
                  => EffectiveEnd(v) <= rt[i].created
  <2>1. CASE i \in DOMAIN rs
    <3>1. /\ rt[i].created = rs[i].created /\ rt[i].alarm = rs[i].alarm
          /\ rt[i].type = rs[i].type /\ Told(rs[i])
      BY <1>1, <2>1 DEF Continues, Keeps, SameNews
    <3>2. QED
      BY <2>1, <3>1 DEF Unhushed
  <2>2. CASE i \notin DOMAIN rs
    <3>1. rt[i].created = t /\ Audible(rt[i].alarm, as, ws, ss, t)
      BY <1>1, <2>2 DEF Continues, Addition
    <3>2. /\ t \in Nat
          /\ \A v \in WindowsOf(rt[i].alarm, as, ws) \cup SilencesOf(rt[i].alarm, ss) :
               v.starts \in Nat
      BY TypedFacts, IntervalsAreSound DEF Sound
    <3>3. ASSUME NEW v \in WindowsOf(rt[i].alarm, as, ws) \cup SilencesOf(rt[i].alarm, ss),
                 v.starts < t \/ v.starts = t
          PROVE  EffectiveEnd(v) <= t
      <4>1. \A n, m \in Nat : n < m \/ n = m => n <= m
        OBVIOUS
      <4>2. v.starts <= t
        BY <3>2, <3>3, <4>1
      <4>3. QED
        BY <3>1, <4>2 DEF Audible
    <3>4. QED
      BY <3>1, <3>3
  <2>3. QED
    BY <2>1, <2>2
<1>2. QED
  BY <1>1 DEF Unhushed

LEMMA HushedContinues ==
  ASSUME NEW rs, NEW rt, NEW as, NEW ws, NEW ss, NEW t,
         Hushed(rs, as, ws, ss, t), Continues(rs, rt, as, ws, ss, t)
  PROVE  Hushed(rt, as, ws, ss, t)
<1>1. ASSUME Lasting(ws, ss), NEW k \in DOMAIN rt,
             rt[k].status = "suppressed", rt[k].key[1] # "reconcile"
      PROVE  Excused(rt[k], as, ws, ss, t)
  <2>1. CASE k \in DOMAIN rs
    <3>1. /\ rt[k].created = rs[k].created /\ rt[k].alarm = rs[k].alarm
          /\ rt[k].key = rs[k].key
      BY <2>1 DEF Continues, Keeps, SameNews
    <3>2. Excused(rs[k], as, ws, ss, t)
      BY <1>1, <2>1, <3>1 DEF Hushed, Continues
    <3>3. QED
      BY <3>1, <3>2 DEF Excused
  <2>2. CASE k \notin DOMAIN rs
    BY <1>1, <2>2 DEF Continues, Addition
  <2>3. QED
    BY <2>1, <2>2
<1>2. QED
  BY <1>1 DEF Hushed

LEMMA ApartContinues ==
  ASSUME NEW rs, NEW rt, NEW as, NEW ws, NEW ss, NEW t,
         Typed(rs, as, t), Typed(rt, as, t), Apart(rs, as, ws, ss),
         Continues(rs, rt, as, ws, ss, t)
  PROVE  Apart(rt, as, ws, ss)
<1>1. ASSUME NEW i \in DOMAIN rs
      PROVE  /\ rt[i].created = rs[i].created /\ rt[i].alarm = rs[i].alarm
             /\ rt[i].type = rs[i].type /\ rt[i].key = rs[i].key /\ rt[i].ident = rs[i].ident
             /\ Told(rt[i]) => Told(rs[i])
  BY DEF Continues, Keeps, SameNews
<1>2. ASSUME Lasting(ws, ss), NEW i \in DOMAIN rt, NEW k \in DOMAIN rt, i < k,
             Repeats(rt[i], rt[k])
      PROVE  Between(rt[i], rt[k], as, ws, ss)
  <2>1. CASE k \in DOMAIN rs
    <3>1. i \in DOMAIN rs
      BY <1>2, <2>1, NewRowsFollow
    <3>2. Repeats(rs[i], rs[k])
      BY <1>1, <1>2, <2>1, <3>1 DEF Repeats
    <3>3. Between(rs[i], rs[k], as, ws, ss)
      BY <1>2, <2>1, <3>1, <3>2 DEF Apart
    <3>4. QED
      BY <1>1, <2>1, <3>1, <3>3 DEF Between
  <2>2. CASE k \notin DOMAIN rs /\ i \in DOMAIN rs
    <3>1. Repeats(rs[i], rt[k])
      BY <1>1, <1>2, <2>2 DEF Repeats
    <3>2. Between(rs[i], rt[k], as, ws, ss)
      BY <1>2, <2>2, <3>1 DEF Continues, Addition
    <3>3. QED
      BY <1>1, <2>2, <3>2 DEF Between
  <2>3. CASE k \notin DOMAIN rs /\ i \notin DOMAIN rs
    BY <1>2, <2>3 DEF Continues, Repeats
  <2>4. QED
    BY <2>1, <2>2, <2>3
<1>3. QED
  BY <1>2 DEF Apart

LEMMA StoryContinues ==
  ASSUME NEW rs, NEW rt, NEW as, NEW ws, NEW ss, NEW t,
         Typed(rs, as, t), Typed(rt, as, t), Story(rs, as, ws, ss, t),
         Continues(rs, rt, as, ws, ss, t)
  PROVE  Story(rt, as, ws, ss, t)
<1>1. Dated(rt, as, ws, ss, t)
  BY DatedContinues DEF Story
<1>2. QED
  BY <1>1, ReasonsContinue, UnhushedContinues, HushedContinues, ApartContinues DEF Story

LEMMA ClearedContinues ==
  ASSUME NEW rs, NEW rt, NEW as, NEW ws, NEW ss, NEW t,
         Typed(rt, as, t), Dated(rt, as, ws, ss, t), Cleared(rs, as, ws),
         \A i \in DOMAIN rs : rt[i].status \in Active => rs[i].status \in Active,
         Continues(rs, rt, as, ws, ss, t)
  PROVE  Cleared(rt, as, ws)
<1>1. ASSUME NEW i \in DOMAIN rt, rt[i].status \in Active,
             NEW v \in WindowsOf(rt[i].alarm, as, ws), v.activated, Effective(v),
             as[rt[i].alarm].ended = Never \/ v.starts <= as[rt[i].alarm].ended
      PROVE  EffectiveEnd(v) <= rt[i].created
  <2>1. CASE i \in DOMAIN rs
    <3>1. /\ rt[i].created = rs[i].created /\ rt[i].alarm = rs[i].alarm
          /\ rs[i].status \in Active
      BY <1>1, <2>1 DEF Continues, Keeps, SameNews
    <3>2. QED
      BY <1>1, <2>1, <3>1 DEF Cleared
  <2>2. CASE i \notin DOMAIN rs
    <3>1. rt[i].created = t /\ Audible(rt[i].alarm, as, ws, ss, t)
      BY <1>1, <2>2 DEF Continues, Addition, Told
    <3>2. v.starts <= t
      BY <1>1, IntervalsAreSound
    <3>3. QED
      BY <3>1, <3>2 DEF Audible
  <2>3. QED
    BY <2>1, <2>2
<1>2. QED
  BY <1>1 DEF Cleared

\* INSERT ... ON CONFLICT DO NOTHING.
LEMMA InsertSays ==
  ASSUME NEW rs \in Seq(Message), NEW r, NEW rt, rt = Insert(rs, r)
  PROVE  /\ DOMAIN rs \subseteq DOMAIN rt /\ \A i \in DOMAIN rs : rt[i] = rs[i]
         /\ \A k \in DOMAIN rt \ DOMAIN rs : k = Len(rs) + 1 /\ rt[k] = r
         /\ Len(rs) \in Nat
         /\ Known(rs, r) \/ \E k \in DOMAIN rt : rt[k] = r
<1>1. DOMAIN rs = 1 .. Len(rs) /\ Len(rs) \in Nat
  OBVIOUS
<1>2. CASE Known(rs, r)
  BY <1>1, <1>2 DEF Insert
<1>3. CASE ~Known(rs, r)
  <2>1. rt = Append(rs, r)
    BY <1>3 DEF Insert
  <2>2. Len(rs) + 1 \in DOMAIN rt /\ rt[Len(rs) + 1] = r
    BY <1>1, <2>1
  <2>3. QED
    BY <1>1, <2>1, <2>2
<1>4. QED
  BY <1>2, <1>3

LEMMA InsertContinues ==
  ASSUME NEW rs \in Seq(Message), NEW r \in Message, NEW as, NEW ws, NEW ss, NEW t,
         Addition(r, rs, as, ws, ss, t)
  PROVE  Continues(rs, Insert(rs, r), as, ws, ss, t)
<1>1. PICK rt : rt = Insert(rs, r)
  OBVIOUS
<1>2. /\ DOMAIN rs \subseteq DOMAIN rt /\ \A i \in DOMAIN rs : rt[i] = rs[i]
      /\ \A k \in DOMAIN rt \ DOMAIN rs : k = Len(rs) + 1 /\ rt[k] = r
      /\ Len(rs) \in Nat
  BY <1>1, InsertSays
<1>3. Keeps(rs, rt)
  BY <1>2 DEF Keeps, SameNews
<1>4. \A k \in DOMAIN rt \ DOMAIN rs : Addition(rt[k], rs, as, ws, ss, t)
  BY <1>2
<1>5. \A i, k \in DOMAIN rt \ DOMAIN rs : ~(i < k)
  BY <1>2
<1>6. Continues(rs, rt, as, ws, ss, t)
  BY <1>2, <1>3, <1>4, <1>5 DEF Continues
<1>7. QED
  BY <1>1, <1>6
-----------------------------------------------------------------------------
(***************************************************************************)
(* The state of the specification.                                         *)
(***************************************************************************)
LEMMA RowsAreTyped ==
  ASSUME NEW rs, NEW as, NEW t, RowsOK(rs, as), as \in Seq(Alarm), t \in 1 .. MaxTime
  PROVE  Typed(rs, as, t) /\ Settled(rs, as)
<1>1. t \in Nat \ {0}
  BY OutboxAssumption DEF OutboxAssumption
<1>2. \A i \in DOMAIN rs : /\ rs[i].alarm \in DOMAIN as
                           /\ rs[i].type \in Resolution => as[rs[i].alarm].status # "open"
  BY DEF RowsOK, RowOK
<1>3. rs \in Seq(Message)
  BY DEF RowsOK
<1>4. QED
  BY <1>1, <1>2, <1>3 DEF Typed, Refer, Settled

\* What was not to be told stays untold, and what was over stays over.
LEMMA LedgerKeeps ==
  ASSUME IInv, Queue', Ledger
  PROVE  /\ Keeps(rows, rows')
         /\ \A i \in DOMAIN rows : rows'[i].status \in Active => rows[i].status \in Active
<1>1. ASSUME NEW i \in DOMAIN rows
      PROVE  /\ i \in DOMAIN rows' /\ SameNews(rows[i], rows'[i])
             /\ Told(rows'[i]) => Told(rows[i])
             /\ rows'[i].status \in Active => rows[i].status \in Active
  <2>1. i \in DOMAIN rows' /\ LedgerRow(rows[i], rows'[i])
    BY DEF Ledger
  <2>2. rows[i] \in Message
    BY DEF IInv, Queue, RowsOK
  <2>3. rows[i].status \in Active \cup Success \cup {"disabled", "failed", "suppressed", "discarded"}
    BY <2>2 DEF Message
  <2>4. CASE rows'[i] = rows[i]
    BY <2>1, <2>4 DEF LedgerRow
  <2>5. CASE rows'[i] # rows[i]
    <3>1. /\ rows[i].status \notin Success \cup {"failed", "discarded", "disabled"}
          /\ rows[i].status = "suppressed" => rows'[i].status \in {"suppressed", "discarded"}
          /\ SameNews(rows[i], rows'[i])
      BY <2>1, <2>5 DEF LedgerRow
    <3>2. QED
      BY <2>1, <2>3, <3>1 DEF Told, Active, Success
  <2>6. QED
    BY <2>4, <2>5
<1>2. QED
  BY <1>1 DEF Keeps

\* Tables that stay.
LEMMA TablesStay ==
  ASSUME NEW as, NEW ws, NEW ss, NEW t
  PROVE  AlarmsMove(as, as, t) /\ WindowsMove(ws, ws, t) /\ SilencesMove(ss, ss, as, t)
BY DEF AlarmsMove, WindowsMove, SilencesMove, Later

\* A step of the clock reading now: the tables move, then the rows.
LEMMA StoryStep ==
  ASSUME IInv, Rest', Queue', Ledger, now' = now,
         Story(rows, alarms, windows, silences, now), Cleared(rows, alarms, windows),
         AlarmsMove(alarms, alarms', now), WindowsMove(windows, windows', now),
         SilencesMove(silences, silences', alarms, now), SameMarks(windows, windows'),
         Continues(rows, rows', alarms', windows', silences', now)
  PROVE  /\ Story(rows', alarms', windows', silences', now')
         /\ Cleared(rows', alarms', windows')
<1>1. Typed(rows, alarms, now) /\ Settled(rows, alarms)
  BY RowsAreTyped DEF IInv, Rest, Queue
<1>2. Typed(rows', alarms', now)
  <2>1. RowsOK(rows', alarms') /\ alarms' \in Seq(Alarm) /\ now \in 1 .. MaxTime
    BY DEF IInv, Rest, Queue
  <2>2. QED
    BY <2>1, RowsAreTyped
<1>3. Typed(rows, alarms', now)
  BY <1>1, <1>2 DEF Typed, Refer, AlarmsMove
<1>4. Story(rows, alarms', windows', silences', now)
  BY <1>1, StoryMoves
<1>5. Story(rows', alarms', windows', silences', now)
  BY <1>2, <1>3, <1>4, StoryContinues
<1>6. Cleared(rows, alarms', windows')
  BY <1>1, ClearedMoves DEF Story
<1>7. \A i \in DOMAIN rows : rows'[i].status \in Active => rows[i].status \in Active
  BY LedgerKeeps
<1>8. Cleared(rows', alarms', windows')
  BY <1>2, <1>5, <1>6, <1>7, ClearedContinues DEF Story
<1>9. QED
  BY <1>5, <1>8

\* Rows that are no more, none of them newly suppressed without an excuse.
LEMMA NoAddition ==
  ASSUME IInv, Queue', Ledger, DOMAIN rows' \subseteq DOMAIN rows, NEW as, NEW ws, NEW ss, NEW t,
         \A i \in DOMAIN rows :
           /\ rows'[i].status = "suppressed" /\ rows[i].status # "suppressed"
           /\ rows[i].key[1] # "reconcile" /\ Lasting(ws, ss)
           => Excused(rows[i], as, ws, ss, t)
  PROVE  Continues(rows, rows', as, ws, ss, t)
<1>1. Keeps(rows, rows')
  BY LedgerKeeps
<1>2. DOMAIN rows' \ DOMAIN rows = {}
  OBVIOUS
<1>3. QED
  BY <1>1, <1>2 DEF Continues

\* Dispatches that go on, or end.
LEMMA PunctualMoves ==
  ASSUME NEW js, NEW jt, NEW ws, NEW wt, NEW t \in Nat, Punctual(js, ws, t),
         \A j \in js : j.at \in Nat,
         \A w \in DOMAIN ws : ws[w].starts \in Nat,
         WindowsMove(ws, wt, t), \A k \in jt : \E j \in js : j.at = k.at
  PROVE  Punctual(jt, wt, t)
<1>1. ASSUME NEW k \in jt
      PROVE  k.at <= t /\ \A w \in DOMAIN wt : wt[w].starts < k.at => wt[w].activated
  <2>1. PICK j \in js : j.at = k.at
    OBVIOUS
  <2>2. j.at \in Nat /\ j.at <= t /\ \A w \in DOMAIN ws : ws[w].starts < j.at => ws[w].activated
    BY DEF Punctual
  <2>3. ASSUME NEW w \in DOMAIN wt, wt[w].starts < k.at
        PROVE  wt[w].activated
    <3>1. CASE w \in DOMAIN ws
      BY <2>1, <2>2, <2>3, <3>1 DEF WindowsMove, Later
    <3>2. CASE w \notin DOMAIN ws
      <4>1. Begun(wt[w], t)
        BY <3>2 DEF WindowsMove
      <4>2. QED
        BY <2>1, <2>2, <2>3, <4>1 DEF Begun
    <3>3. QED
      BY <3>1, <3>2
  <2>4. QED
    BY <2>1, <2>2, <2>3
<1>2. QED
  BY <1>1 DEF Punctual

\* Suppression is what an interval in force makes.
LEMMA SuppressedIs ==
  ASSUME WholeSeconds, NEW rs, NEW as, NEW a, NEW d, d = as[a].device, now \in Nat,
         Dated(rs, as, windows, silences, now)
  PROVE  /\ SuppressedFor(d, a, now)
            => \E v \in WindowsOf(a, as, windows) \cup SilencesOf(a, silences) :
                 /\ Effective(v) /\ v.starts <= now /\ now <= EffectiveEnd(v)
         /\ ~SuppressedFor(d, a, now) => Audible(a, as, windows, silences, now)
<1>1. ASSUME NEW v \in WindowsOf(a, as, windows) \cup SilencesOf(a, silences)
      PROVE  /\ v.starts \in Nat /\ EffectiveEnd(v) \in Nat
             /\ InForce(v, now) <=> v.starts <= now /\ now < EffectiveEnd(v)
  <2>1. Sound(v, now)
    BY IntervalsAreSound
  <2>2. QED
    BY <2>1, EndIsNatural, ForceIsBetween DEF Sound
<1>2. ASSUME SuppressedFor(d, a, now)
      PROVE  \E v \in WindowsOf(a, as, windows) \cup SilencesOf(a, silences) : InForce(v, now)
  BY <1>2 DEF SuppressedFor, WindowsOf, SilencesOf
<1>3. ASSUME NEW v \in WindowsOf(a, as, windows) \cup SilencesOf(a, silences), InForce(v, now)
      PROVE  Effective(v) /\ v.starts <= now /\ now <= EffectiveEnd(v)
  <2>1. v.starts \in Nat /\ EffectiveEnd(v) \in Nat /\ v.starts <= now /\ now < EffectiveEnd(v)
    BY <1>1, <1>3
  <2>2. QED
    BY <2>1 DEF Effective
<1>4. ASSUME ~SuppressedFor(d, a, now)
      PROVE  Audible(a, as, windows, silences, now)
  <2>1. ASSUME NEW v \in WindowsOf(a, as, windows) \cup SilencesOf(a, silences), v.starts <= now
        PROVE  EffectiveEnd(v) <= now
    <3>1. ~InForce(v, now)
      BY <1>4 DEF SuppressedFor, WindowsOf, SilencesOf
    <3>2. /\ v.starts \in Nat /\ EffectiveEnd(v) \in Nat
          /\ ~(v.starts <= now /\ now < EffectiveEnd(v))
      BY <1>1, <3>1
    <3>3. QED
      BY <2>1, <3>2
  <2>2. QED
    BY <2>1 DEF Audible
<1>5. QED
  BY <1>2, <1>3, <1>4

\* What enqueue says.
LEMMA RowSays ==
  ASSUME NEW a, NEW p, NEW type, NEW key, NEW target, NEW suppressed, NEW r,
         r = Row(a, p, type, key, target, suppressed)
  PROVE  /\ r.alarm = a /\ r.type = type /\ r.key = key /\ r.ident = Clamp(target, p)
         /\ r.created = now
         /\ Told(r) => ~suppressed
         /\ r.status = "suppressed" => suppressed /\ ~r.settled
BY DEF Row, Told, Active, Success
-----------------------------------------------------------------------------
(***************************************************************************)
(* The inductive invariant, action by action.                              *)
(***************************************************************************)
EInv ==
  /\ Story(rows, alarms, windows, silences, now)
  /\ Cleared(rows, alarms, windows)
  /\ Punctual(work, windows, now)

LEMMA StepTold ==
  ASSUME IInv, EInv, Good, now' = now,
         AlarmsMove(alarms, alarms', now), WindowsMove(windows, windows', now),
         SilencesMove(silences, silences', alarms, now), SameMarks(windows, windows'),
         Continues(rows, rows', alarms', windows', silences', now),
         \A k \in work' : \E j \in work : j.at = k.at
  PROVE  EInv'
<1>1. /\ Story(rows', alarms', windows', silences', now')
      /\ Cleared(rows', alarms', windows')
  BY StoryStep DEF EInv, Good, IInv
<1>2. Punctual(work', windows', now)
  <2>1. now \in Nat /\ \A j \in work : j.at \in Nat
    BY NowIsNat DEF IInv, Rest, Job
  <2>2. \A w \in DOMAIN windows : windows[w].starts \in Nat
    BY DEF EInv, Story, Dated, Sound
  <2>3. Punctual(work, windows, now)
    BY DEF EInv
  <2>4. QED
    BY <2>1, <2>2, <2>3, PunctualMoves
<1>3. QED
  BY <1>1, <1>2 DEF EInv

\* A step that neither suppresses nor adds a message, nor moves a table.
LEMMA RowsTold ==
  ASSUME IInv, EInv, Good, UNCHANGED <<now, alarms, windows, silences>>,
         DOMAIN rows' \subseteq DOMAIN rows,
         \A i \in DOMAIN rows : rows'[i].status = "suppressed" => rows[i].status = "suppressed",
         \A k \in work' : \E j \in work : j.at = k.at
  PROVE  EInv'
<1>1. Continues(rows, rows', alarms', windows', silences', now)
  BY NoAddition DEF Good, IInv
<1>2. QED
  BY <1>1, StepTold, TablesStay DEF SameMarks

\* A step that leaves the messages alone.
LEMMA TablesTold ==
  ASSUME IInv, EInv, Good, UNCHANGED <<now, rows, work>>,
         AlarmsMove(alarms, alarms', now), WindowsMove(windows, windows', now),
         SilencesMove(silences, silences', alarms, now), SameMarks(windows, windows')
  PROVE  EInv'
<1>1. Continues(rows, rows', alarms', windows', silences', now)
  BY NoAddition DEF Good, IInv
<1>2. QED
  BY <1>1, StepTold

LEMMA UpdateDeviceMoves ==
  ASSUME IInv, EInv, NEW d \in Devices, NEW ip, NEW act, UpdateDevice(d, ip, act)
  PROVE  AlarmsMove(alarms, alarms', now)
<1>1. /\ UNCHANGED <<now, process, windows, silences, rows>>
      /\ alarms' = [a \in DOMAIN alarms |->
                       IF alarms[a].device = d /\ alarms[a].status = "open"
                       THEN [alarms[a] EXCEPT !.status = "closed", !.ended = now]
                       ELSE alarms[a]]
  BY DEF UpdateDevice
<1>2. Dated(rows, alarms, windows, silences, now) /\ alarms \in Seq(Alarm)
  BY DEF EInv, Story, IInv, Rest
<1>3. ASSUME NEW a \in DOMAIN alarms
      PROVE  /\ alarms'[a].device = alarms[a].device /\ alarms'[a].opened = alarms[a].opened
             /\ \/ alarms'[a].ended = alarms[a].ended /\ alarms'[a].status = alarms[a].status
                \/ alarms[a].ended = Never /\ alarms'[a].ended = now /\ alarms'[a].status # "open"
  <2>1. PICK v \in Alarm : v = alarms[a]
    BY <1>2
  <2>2. CASE v.device = d /\ v.status = "open"
    <3>1. v.ended = Never
      BY <1>2, <2>1, <2>2 DEF Dated
    <3>2. alarms'[a] = [v EXCEPT !.status = "closed", !.ended = now]
      BY <1>1, <2>1, <2>2
    <3>3. QED
      BY <2>1, <3>1, <3>2 DEF Alarm
  <2>3. CASE ~(v.device = d /\ v.status = "open")
    BY <1>1, <2>1, <2>3
  <2>4. QED
    BY <2>2, <2>3
<1>4. AlarmsMove(alarms, alarms', now)
  <2>1. DOMAIN alarms' = DOMAIN alarms
    BY <1>1
  <2>2. QED
    BY <1>3, <2>1 DEF AlarmsMove
<1>5. QED
  BY <1>4

LEMMA UpdateDeviceTold ==
  ASSUME IInv, EInv, Good, NEW d \in Devices, NEW ip, NEW act, UpdateDevice(d, ip, act)
  PROVE  EInv'
<1>1. UNCHANGED <<now, work, windows, silences, rows>>
  BY DEF UpdateDevice, process
<1>2. QED
  BY <1>1, UpdateDeviceMoves, TablesStay, TablesTold DEF SameMarks

LEMMA CreateMaintenanceMoves ==
  ASSUME IInv, NEW d, NEW starts \in 1 .. MaxTime, NEW ends \in 1 .. MaxTime,
         CreateMaintenance(d, starts, ends)
  PROVE  WindowsMove(windows, windows', now) /\ SameMarks(windows, windows')
<1>1. PICK u : u = [device |-> d, starts |-> starts, ends |-> ends, cancelled |-> Never,
                    activated |-> FALSE, ident |-> config.delivery]
  OBVIOUS
<1>2. /\ UNCHANGED <<now, process, feed, silences, rows>>
      /\ windows' = Append(windows, u)
      /\ now <= starts /\ starts < ends
  BY <1>1 DEF CreateMaintenance
<1>3. Begun(u, now) /\ ~u.activated
  <2>1. starts \in Nat /\ ends \in Nat /\ 0 < starts
    BY OutboxAssumption DEF OutboxAssumption
  <2>2. u.starts = starts /\ u.ends = ends /\ u.cancelled = Never /\ ~u.activated
    BY <1>1
  <2>3. QED
    BY <1>2, <2>1, <2>2 DEF Begun
<1>4. /\ DOMAIN windows \subseteq DOMAIN windows'
      /\ \A w \in DOMAIN windows : windows'[w] = windows[w]
      /\ \A w \in DOMAIN windows' \ DOMAIN windows : windows'[w] = u
  <2>1. windows \in Seq(Window)
    BY DEF IInv, Rest
  <2>2. QED
    BY <1>2, <2>1
<1>5. WindowsMove(windows, windows', now) /\ SameMarks(windows, windows')
  BY <1>3, <1>4 DEF WindowsMove, SameMarks, Later
<1>6. QED
  BY <1>5

LEMMA CreateMaintenanceTold ==
  ASSUME IInv, EInv, Good, NEW d, NEW starts \in 1 .. MaxTime, NEW ends \in 1 .. MaxTime,
         CreateMaintenance(d, starts, ends)
  PROVE  EInv'
<1>1. UNCHANGED <<now, work, alarms, silences, rows>>
  BY DEF CreateMaintenance, process, feed
<1>2. QED
  BY <1>1, CreateMaintenanceMoves, TablesStay, TablesTold

LEMMA CancelMaintenanceMoves ==
  ASSUME IInv, NEW w \in DOMAIN windows, CancelMaintenance(w)
  PROVE  WindowsMove(windows, windows', now) /\ SameMarks(windows, windows')
<1>1. /\ UNCHANGED <<now, process, feed, silences, rows>>
      /\ windows' = [windows EXCEPT ![w].cancelled = now]
      /\ windows[w].cancelled = Never
  BY DEF CancelMaintenance
<1>2. windows \in Seq(Window)
  BY DEF IInv, Rest
<1>3. PICK v \in Window : v = windows[w]
  BY <1>2
<1>4. PICK u : u = [v EXCEPT !.cancelled = now]
  OBVIOUS
<1>5. /\ u.device = v.device /\ u.starts = v.starts /\ u.ends = v.ends
      /\ u.activated = v.activated /\ u.cancelled = now
  BY <1>4 DEF Window
<1>6. /\ DOMAIN windows' = DOMAIN windows /\ windows'[w] = u
      /\ \A x \in DOMAIN windows \ {w} : windows'[x] = windows[x]
  BY <1>1, <1>3, <1>4
<1>7. WindowsMove(windows, windows', now) /\ SameMarks(windows, windows')
  BY <1>1, <1>3, <1>5, <1>6 DEF WindowsMove, SameMarks, Later
<1>8. QED
  BY <1>7

LEMMA CancelMaintenanceTold ==
  ASSUME IInv, EInv, Good, NEW w \in DOMAIN windows, CancelMaintenance(w)
  PROVE  EInv'
<1>1. UNCHANGED <<now, work, alarms, silences, rows>>
  BY DEF CancelMaintenance, process, feed
<1>2. QED
  BY <1>1, CancelMaintenanceMoves, TablesStay, TablesTold

LEMMA CancelSilenceMoves ==
  ASSUME IInv, NEW s \in DOMAIN silences, CancelSilence(s)
  PROVE  SilencesMove(silences, silences', alarms, now)
<1>1. /\ UNCHANGED <<now, process, feed, windows, rows>>
      /\ silences' = [silences EXCEPT ![s].cancelled = now]
      /\ silences[s].cancelled = Never
  BY DEF CancelSilence
<1>2. silences \in Seq(Silence)
  BY DEF IInv, Rest
<1>3. PICK v \in Silence : v = silences[s]
  BY <1>2
<1>4. PICK u : u = [v EXCEPT !.cancelled = now]
  OBVIOUS
<1>5. u.alarm = v.alarm /\ u.starts = v.starts /\ u.ends = v.ends /\ u.cancelled = now
  BY <1>4 DEF Silence
<1>6. /\ DOMAIN silences' = DOMAIN silences /\ silences'[s] = u
      /\ \A x \in DOMAIN silences \ {s} : silences'[x] = silences[x]
  BY <1>1, <1>3, <1>4
<1>7. SilencesMove(silences, silences', alarms, now)
  BY <1>1, <1>3, <1>5, <1>6 DEF SilencesMove, Later
<1>8. QED
  BY <1>7

LEMMA CancelSilenceTold ==
  ASSUME IInv, EInv, Good, NEW s \in DOMAIN silences, CancelSilence(s)
  PROVE  EInv'
<1>1. UNCHANGED <<now, work, alarms, windows, rows>>
  BY DEF CancelSilence, process, feed
<1>2. QED
  BY <1>1, CancelSilenceMoves, TablesStay, TablesTold DEF SameMarks

LEMMA SilenceAlarmMoves ==
  ASSUME IInv, NEW a \in DOMAIN alarms, NEW ends \in 1 .. MaxTime, SilenceAlarm(a, ends)
  PROVE  /\ SilencesMove(silences, silences', alarms, now)
         /\ \E u \in SilencesOf(a, silences') :
              u.starts = now /\ EffectiveEnd(u) = ends /\ Effective(u)
<1>1. now \in Nat \ {0} /\ ends \in Nat
  BY OutboxAssumption DEF OutboxAssumption, IInv, Rest
<1>2. PICK u : u = [alarm |-> a, starts |-> now, ends |-> ends, cancelled |-> Never]
  OBVIOUS
<1>3. u.alarm = a /\ u.starts = now /\ u.ends = ends /\ u.cancelled = Never
  BY <1>2
<1>4. /\ silences' = Append(silences, u)
      /\ alarms[a].status = "open" /\ now < ends
  BY <1>2 DEF SilenceAlarm
<1>5. /\ DOMAIN silences \subseteq DOMAIN silences'
      /\ \A s \in DOMAIN silences : silences'[s] = silences[s]
      /\ \A s \in DOMAIN silences' \ DOMAIN silences : silences'[s] = u
      /\ Len(silences) + 1 \in DOMAIN silences' /\ silences'[Len(silences) + 1] = u
  <2>1. silences \in Seq(Silence)
    BY DEF IInv, Rest
  <2>2. QED
    BY <1>4, <2>1
<1>6. Begun(u, now) /\ EffectiveEnd(u) = ends /\ Effective(u)
  <2>1. Begun(u, now)
    BY <1>1, <1>3, <1>4 DEF Begun
  <2>2. QED
    BY <1>1, <1>3, <1>4, <2>1, BegunIsSound DEF Effective
<1>7. SilencesMove(silences, silences', alarms, now)
  BY <1>3, <1>4, <1>5, <1>6 DEF SilencesMove, Later
<1>8. u \in SilencesOf(a, silences')
  BY <1>3, <1>5 DEF SilencesOf
<1>9. QED
  BY <1>3, <1>6, <1>7, <1>8

\* The row of a silence is excused by the silence.
LEMMA SilenceAlarmTold ==
  ASSUME IInv, EInv, Good, NEW a \in DOMAIN alarms, NEW ends \in 1 .. MaxTime,
         SilenceAlarm(a, ends)
  PROVE  EInv'
<1>1. Rest /\ now \in Nat \ {0} /\ rows \in Seq(Message) /\ ends \in Nat
  <2>1. MaxTime \in Nat /\ now \in 1 .. MaxTime /\ ends \in 1 .. MaxTime
    BY OutboxAssumption DEF OutboxAssumption, IInv, Rest
  <2>2. now \in Nat \ {0} /\ ends \in Nat
    BY <2>1
  <2>3. QED
    BY <2>2 DEF IInv, Queue, RowsOK
<1>4. /\ UNCHANGED <<now, process, feed, windows>>
      /\ alarms[a].status = "open" /\ now < ends
  BY DEF SilenceAlarm
<1>5. alarms' = alarms
  BY <1>4 DEF feed
<1>7. PICK u \in SilencesOf(a, silences') :
        u.starts = now /\ EffectiveEnd(u) = ends /\ Effective(u)
  BY SilenceAlarmMoves
<1>8. SilencesMove(silences, silences', alarms, now)
  BY SilenceAlarmMoves
<1>9. PICK r : r = Row(a, alarms[a].probe, "current_status", <<"silence", Len(silences) + 1>>,
                       config.delivery, TRUE)
  OBVIOUS
<1>10. rows' = Insert(rows, r)
  BY <1>9 DEF SilenceAlarm
<1>11. /\ r.alarm = a /\ r.type = "current_status" /\ r.key = <<"silence", Len(silences) + 1>>
       /\ r.created = now /\ ~Told(r)
  <2>1. PICK hushed \in BOOLEAN : hushed
    OBVIOUS
  <2>2. r = Row(a, alarms[a].probe, "current_status", <<"silence", Len(silences) + 1>>,
                config.delivery, hushed)
    BY <1>9, <2>1
  <2>3. /\ r.alarm = a /\ r.type = "current_status"
        /\ r.key = <<"silence", Len(silences) + 1>> /\ r.created = now
    BY <2>2, RowSays
  <2>4. Told(r) => ~hushed
    BY <2>2, RowSays
  <2>5. ~Told(r)
    BY <2>1, <2>4
  <2>6. QED
    BY <2>3, <2>5
<1>12. r \in Message
  <2>1. "current_status" \in Types /\ "current_status" \notin Resolution
    BY DEF Types, Outage, Resolution
  <2>2. <<"silence", Len(silences) + 1>> \in Keys
    <3>1. Len(silences) + 1 \in Nat
      BY <1>1 DEF Rest
    <3>2. QED
      BY <3>1 DEF Keys
  <2>3. alarms \in Seq(Alarm) /\ config.delivery \in Identities
    BY <1>1 DEF Rest
  <2>4. PICK key \in Keys : key = <<"silence", Len(silences) + 1>>
    BY <2>2
  <2>5. PICK pr : pr = alarms[a].probe
    OBVIOUS
  <2>6. Row(a, pr, "current_status", key, config.delivery, TRUE) \in Message
    BY <1>1, <2>1, <2>3, <2>5, EnqueueNew
  <2>7. QED
    BY <1>9, <2>4, <2>5, <2>6
<1>13. Excused(r, alarms, windows, silences', now)
  <2>2. alarms[a].ended = Never /\ alarms[a].opened <= now /\ alarms[a].opened \in Nat
    <3>1. alarms[a] \in Alarm
      BY <1>1 DEF Rest
    <3>2. QED
      BY <1>4, <3>1 DEF EInv, Story, Dated, Alarm
  <2>3. u.starts <= now /\ alarms[a].opened <= EffectiveEnd(u)
    BY <1>1, <1>4, <1>7, <2>2
  <2>4. QED
    BY <1>7, <1>11, <2>2, <2>3 DEF Excused
<1>14. r.key[1] = "silence"
  BY <1>11
<1>15. Addition(r, rows, alarms, windows, silences', now)
  BY <1>11, <1>13, <1>14 DEF Addition, Repeats
<1>16. Continues(rows, rows', alarms', windows', silences', now)
  <2>1. Continues(rows, Insert(rows, r), alarms, windows, silences', now)
    BY <1>1, <1>12, <1>15, InsertContinues
  <2>2. QED
    BY <1>4, <1>5, <1>10, <2>1
<1>17. QED
  BY <1>4, <1>5, <1>8, <1>16, StepTold, TablesStay DEF process, SameMarks

\* A new alarm: no row refers to it.
LEMMA OpenedTold ==
  ASSUME WholeSeconds, IInv, EInv, Good, NEW d \in Devices, NEW v \in Alarm,
         v.device = d, v.status = "open", v.opened = now, v.ended = Never,
         v.probe = config.probe,
         alarms' = Append(alarms, v),
         rows' = Insert(rows, Row(Len(alarms) + 1, config.probe, "opened", <<"opened", 0>>,
                                  config.delivery, SuppressedFor(d, Len(alarms) + 1, now))),
         UNCHANGED <<now, work, windows, silences>>
  PROVE  EInv'
<1>1. /\ now \in Nat /\ rows \in Seq(Message) /\ alarms \in Seq(Alarm)
      /\ config.delivery \in Identities /\ Rest'
      /\ \A i \in DOMAIN rows : rows[i].alarm \in DOMAIN alarms
  BY NowIsNat DEF IInv, Rest, Queue, RowsOK, RowOK, Good
<1>2. PICK a : a = Len(alarms) + 1
  OBVIOUS
<1>3. PICK as \in Seq(Alarm) : as = alarms'
  BY <1>1 DEF Rest
<1>4. /\ DOMAIN alarms \subseteq DOMAIN as /\ a \in DOMAIN as /\ as[a] = v
      /\ a \notin DOMAIN alarms
      /\ \A b \in DOMAIN alarms : as[b] = alarms[b]
      /\ \A b \in DOMAIN as \ DOMAIN alarms : as[b] = v
  BY <1>1, <1>2, <1>3
<1>5. AlarmsMove(alarms, as, now)
  BY <1>4 DEF AlarmsMove
<1>6. Dated(rows, as, windows, silences, now)
  <2>1. Typed(rows, alarms, now) /\ Dated(rows, alarms, windows, silences, now)
    BY RowsAreTyped DEF IInv, Rest, Queue, EInv, Story
  <2>2. QED
    BY <1>5, <2>1, DatedMoves, TablesStay
<1>7. PICK hushed \in BOOLEAN : hushed <=> SuppressedFor(d, a, now)
  OBVIOUS
<1>8. PICK r : r = Row(a, config.probe, "opened", <<"opened", 0>>, config.delivery,
                       SuppressedFor(d, a, now))
  OBVIOUS
<1>9. /\ r.alarm = a /\ r.type = "opened" /\ r.key = <<"opened", 0>> /\ r.created = now
      /\ Told(r) => ~SuppressedFor(d, a, now)
      /\ r.status = "suppressed" => SuppressedFor(d, a, now)
  BY <1>8, RowSays
<1>10. r \in Message
  <2>1. "opened" \in Types /\ "opened" \notin Resolution
    BY DEF Types, Outage, Resolution
  <2>2. PICK key \in Keys : key = <<"opened", 0>>
    BY DEF Keys
  <2>3. PICK pr : pr = config.probe
    OBVIOUS
  <2>4. PICK hs : hs = SuppressedFor(d, a, now)
    OBVIOUS
  <2>5. pr = as[a].probe /\ as[a].status = "open"
    BY <1>4, <2>3
  <2>6. Row(a, pr, "opened", key, config.delivery, hs) \in Message
    BY <1>1, <1>4, <2>1, <2>5, EnqueueNew
  <2>7. QED
    BY <1>8, <2>2, <2>3, <2>4, <2>6, Zenon
<1>11. d = as[a].device
  BY <1>4
<1>12. /\ SuppressedFor(d, a, now)
             => \E x \in WindowsOf(a, as, windows) \cup SilencesOf(a, silences) :
                  /\ Effective(x) /\ x.starts <= now /\ now <= EffectiveEnd(x)
       /\ ~SuppressedFor(d, a, now) => Audible(a, as, windows, silences, now)
  BY <1>1, <1>6, <1>11, SuppressedIs
<1>13. r.status = "suppressed" => Excused(r, as, windows, silences, now)
  BY <1>4, <1>9, <1>12 DEF Excused
<1>14. r.key[1] = "opened" /\ as[r.alarm].ended = Never
  BY <1>4, <1>9
<1>15. Addition(r, rows, as, windows, silences, now)
  <2>1. \A i \in DOMAIN rows : rows[i].alarm # r.alarm
    BY <1>1, <1>4, <1>9
  <2>2. Told(r) => Audible(r.alarm, as, windows, silences, now)
    BY <1>9, <1>12
  <2>3. QED
    BY <1>9, <1>13, <1>14, <2>1, <2>2 DEF Addition, Repeats
<1>16. Continues(rows, rows', alarms', windows', silences', now)
  <2>1. Continues(rows, Insert(rows, r), as, windows, silences, now)
    BY <1>1, <1>10, <1>15, InsertContinues
  <2>2. QED
    BY <1>2, <1>3, <1>8, <2>1
<1>17. QED
  BY <1>3, <1>5, <1>16, StepTold, TablesStay DEF SameMarks

\* The end of an alarm: no row tells of it yet.
LEMMA ResolvedTold ==
  ASSUME WholeSeconds, IInv, EInv, Good, NEW a \in DOMAIN alarms, alarms[a].status = "open",
         alarms[a].probe = config.probe,
         alarms' = [alarms EXCEPT ![a].status = "resolved", ![a].ended = now],
         rows' = Insert(rows, Row(a, config.probe, "resolved", <<"resolved", 0>>,
                                  config.delivery, Suppressed(a))),
         UNCHANGED <<now, work, windows, silences>>
  PROVE  EInv'
<1>1. /\ now \in Nat /\ rows \in Seq(Message) /\ alarms \in Seq(Alarm)
      /\ config.delivery \in Identities /\ Rest'
      /\ Settled(rows, alarms) /\ Typed(rows, alarms, now)
  BY NowIsNat, RowsAreTyped DEF IInv, Rest, Queue, RowsOK, Good
<1>2. PICK v \in Alarm : v = alarms[a]
  BY <1>1
<1>3. PICK u : u = [v EXCEPT !.status = "resolved", !.ended = now]
  OBVIOUS
<1>4. /\ u.device = v.device /\ u.probe = v.probe /\ u.opened = v.opened
      /\ u.status = "resolved" /\ u.ended = now /\ v.opened \in Nat
  BY <1>3 DEF Alarm
<1>5. PICK as \in Seq(Alarm) : as = alarms'
  BY <1>1 DEF Rest
<1>6. /\ DOMAIN as = DOMAIN alarms /\ as[a] = u
      /\ \A b \in DOMAIN alarms \ {a} : as[b] = alarms[b]
  BY <1>1, <1>2, <1>3, <1>5
<1>7. v.ended = Never /\ v.opened <= now /\ Dated(rows, alarms, windows, silences, now)
  BY <1>2 DEF EInv, Story, Dated
<1>8. AlarmsMove(alarms, as, now)
  BY <1>2, <1>4, <1>6, <1>7 DEF AlarmsMove
<1>9. Dated(rows, as, windows, silences, now)
  BY <1>1, <1>7, <1>8, DatedMoves, TablesStay
<1>10. Suppressed(a) <=> SuppressedFor(v.device, a, now)
  BY <1>2 DEF Suppressed
<1>11. PICK r : r = Row(a, config.probe, "resolved", <<"resolved", 0>>, config.delivery,
                        Suppressed(a))
  OBVIOUS
<1>12. /\ r.alarm = a /\ r.type = "resolved" /\ r.key = <<"resolved", 0>> /\ r.created = now
       /\ Told(r) => ~Suppressed(a)
       /\ r.status = "suppressed" => Suppressed(a)
  BY <1>11, RowSays
<1>13. r \in Message
  <2>1. "resolved" \in Types /\ "resolved" \notin Outage
    BY DEF Types, Outage, Resolution
  <2>2. PICK key \in Keys : key = <<"resolved", 0>>
    BY DEF Keys
  <2>3. PICK pr : pr = config.probe
    OBVIOUS
  <2>4. PICK hs : hs = Suppressed(a)
    OBVIOUS
  <2>5. a \in DOMAIN as /\ pr = as[a].probe /\ as[a].status # "open"
    BY <1>2, <1>4, <1>6, <2>3
  <2>6. Row(a, pr, "resolved", key, config.delivery, hs) \in Message
    BY <1>1, <2>1, <2>5, EnqueueNew
  <2>7. QED
    BY <1>11, <2>2, <2>3, <2>4, <2>6, Zenon
<1>14. v.device = as[a].device
  BY <1>4, <1>6
<1>15. /\ SuppressedFor(v.device, a, now)
             => \E x \in WindowsOf(a, as, windows) \cup SilencesOf(a, silences) :
                  /\ Effective(x) /\ x.starts <= now /\ now <= EffectiveEnd(x)
       /\ ~SuppressedFor(v.device, a, now) => Audible(a, as, windows, silences, now)
  BY <1>1, <1>9, <1>14, SuppressedIs
<1>16. r.status = "suppressed" => Excused(r, as, windows, silences, now)
  <2>1. ASSUME r.status = "suppressed"
        PROVE  Excused(r, as, windows, silences, now)
    <3>1. PICK x \in WindowsOf(a, as, windows) \cup SilencesOf(a, silences) :
             /\ Effective(x) /\ x.starts <= now /\ now <= EffectiveEnd(x)
      BY <1>10, <1>12, <1>15, <2>1
    <3>2. EffectiveEnd(x) \in Nat
      BY <1>9, IntervalsAreSound, EndIsNatural
    <3>3. as[a].opened <= EffectiveEnd(x) /\ x.starts <= as[a].ended
      BY <1>1, <1>4, <1>6, <1>7, <3>1, <3>2
    <3>4. QED
      BY <1>12, <3>1, <3>3 DEF Excused
  <2>2. QED
    BY <2>1
<1>17. Addition(r, rows, as, windows, silences, now)
  <2>1. \A i \in DOMAIN rows : rows[i].alarm = r.alarm => rows[i].type \notin Resolution
    BY <1>1, <1>12 DEF Settled
  <2>2. Told(r) => Audible(r.alarm, as, windows, silences, now)
    BY <1>10, <1>12, <1>15
  <2>3. as[r.alarm].ended = now /\ now <= now
    BY <1>1, <1>4, <1>6, <1>12
  <2>4. r.key[1] = "resolved"
    BY <1>12
  <2>5. QED
    BY <1>12, <1>16, <2>1, <2>2, <2>3, <2>4 DEF Addition, Repeats
<1>18. Continues(rows, rows', alarms', windows', silences', now)
  <2>1. Continues(rows, Insert(rows, r), as, windows, silences, now)
    BY <1>1, <1>13, <1>17, InsertContinues
  <2>2. QED
    BY <1>5, <1>11, <2>1
<1>19. QED
  BY <1>5, <1>8, <1>18, StepTold, TablesStay DEF SameMarks

LEMMA MeasureTold ==
  ASSUME WholeSeconds, IInv, EInv, Good, NEW d \in Devices, NEW outcome \in Outcomes,
         Measure(d, outcome)
  PROVE  EInv'
<1>1. UNCHANGED <<now, process, windows, silences>> /\ Rest /\ alarms \in Seq(Alarm)
  BY DEF Measure, IInv, Rest
<1>2. CASE UNCHANGED <<alarms, rows>>
  BY <1>1, <1>2, TablesStay, TablesTold DEF process, SameMarks
<1>3. CASE \E a \in DOMAIN alarms :
             /\ alarms[a].status = "open" /\ alarms[a].probe = config.probe
             /\ alarms' = [alarms EXCEPT ![a].status = "resolved", ![a].ended = now]
             /\ rows' = Insert(rows, Row(a, config.probe, "resolved", <<"resolved", 0>>,
                                         config.delivery, Suppressed(a)))
  BY <1>1, <1>3, ResolvedTold DEF process
<1>4. CASE /\ alarms' = Append(alarms, [device |-> d, ip |-> device[d].ip,
                                        probe |-> config.probe, status |-> "open",
                                        opened |-> now, ended |-> Never])
           /\ LET a == Len(alarms) + 1
              IN  rows' = Insert(rows, Row(a, config.probe, "opened", <<"opened", 0>>,
                                           config.delivery, SuppressedFor(d, a, now)))
  <2>1. PICK v : v = [device |-> d, ip |-> device[d].ip, probe |-> config.probe,
                      status |-> "open", opened |-> now, ended |-> Never]
    OBVIOUS
  <2>2. v \in Alarm
    <3>1. /\ device[d].ip \in Addresses /\ config.probe \in Probes \cup {Simulator}
          /\ now \in Nat /\ Never \in Nat
      BY <1>1, NowIsNat DEF Rest, Never
    <3>2. QED
      BY <2>1, <3>1 DEF Alarm
  <2>3. /\ v.device = d /\ v.status = "open" /\ v.opened = now /\ v.ended = Never
        /\ v.probe = config.probe
    BY <2>1
  <2>4. alarms' = Append(alarms, v)
    BY <1>4, <2>1
  <2>5. QED
    BY <1>1, <1>4, <2>2, <2>3, <2>4, OpenedTold DEF process
<1>5. QED
  BY <1>2, <1>3, <1>4 DEF Measure

\* Recovery suppresses nothing.
LEMMA RecoverTold ==
  ASSUME IInv, EInv, Good, NEW limit, rows' = RecoveredRows(limit),
         UNCHANGED <<now, work, alarms, windows, silences>>
  PROVE  EInv'
<1>1. DOMAIN rows' = DOMAIN rows /\ \A i \in DOMAIN rows : rows[i] \in Message
  <2>1. DOMAIN rows' = DOMAIN rows
    BY DEF RecoveredRows
  <2>2. rows \in Seq(Message)
    BY DEF IInv, Queue, RowsOK
  <2>3. QED
    BY <2>1, <2>2
<1>2. ASSUME NEW i \in DOMAIN rows, rows'[i].status = "suppressed"
      PROVE  rows[i].status = "suppressed"
  <2>1. PICK r \in Message : r = rows[i]
    BY <1>1
  <2>2. PICK next : next = now + Backoff(r.attempts)
    OBVIOUS
  <2>3. \/ rows'[i] = r
        \/ rows'[i] = [r EXCEPT !.status = "failed", !.next = Never]
        \/ rows'[i] = [r EXCEPT !.status = "retry", !.next = next]
    BY <2>1, <2>2 DEF RecoveredRows
  <2>4. QED
    BY <1>2, <2>1, <2>3 DEF Message
<1>3. QED
  BY <1>1, <1>2, RowsTold

\* The row of a dispatch changes; it is not suppressed.
LEMMA DispatchTold ==
  ASSUME IInv, EInv, Good, NEW i \in DOMAIN rows, NEW r, rows' = [rows EXCEPT ![i] = r],
         r.status # "suppressed",
         UNCHANGED <<now, alarms, windows, silences>>,
         \A k \in work' : \E j \in work : j.at = k.at
  PROVE  EInv'
<1>1. /\ DOMAIN rows' = DOMAIN rows
      /\ \A k \in DOMAIN rows : rows'[k] = IF k = i THEN r ELSE rows[k]
  BY DEF IInv, Queue, RowsOK
<1>2. QED
  BY <1>1, RowsTold

LEMMA LeaveTold ==
  ASSUME IInv, EInv, Good, NEW j \in work, NEW status, NEW next, Leave(j, status, next),
         status # "suppressed", UNCHANGED <<now, feed, windows, silences>>
  PROVE  EInv'
<1>1. PICK q \in Message : q = rows[j.row]
  BY JobFacts
<1>2. PICK r : r = [q EXCEPT !.status = status, !.next = next]
  OBVIOUS
<1>3. r.status = status
  BY <1>2 DEF Message
<1>4. j.row \in DOMAIN rows /\ rows' = [rows EXCEPT ![j.row] = r] /\ work' = work \ {j}
  BY <1>1, <1>2, JobFacts DEF Leave
<1>5. QED
  BY <1>3, <1>4, DispatchTold DEF feed

LEMMA StartTold ==
  ASSUME IInv, EInv, Good, NEW j \in work, StartSending(j),
         UNCHANGED <<now, feed, windows, silences>>
  PROVE  EInv'
<1>1. PICK q \in Message : q = rows[j.row]
  BY JobFacts
<1>2. PICK n : n = q.attempts + 1
  OBVIOUS
<1>3. PICK r : r = [q EXCEPT !.attempts = n]
  OBVIOUS
<1>4. r.status = "sending"
  BY <1>1, <1>3, JobFacts DEF Message
<1>5. j.row \in DOMAIN rows /\ rows' = [rows EXCEPT ![j.row] = r]
  BY <1>1, <1>2, <1>3, JobFacts DEF StartSending
<1>6. \A k \in work' : \E l \in work : l.at = k.at
  <2>1. j \in Job
    BY JobFacts
  <2>2. PICK k : k = [j EXCEPT !.phase = "sending"]
    OBVIOUS
  <2>3. k.at = j.at
    BY <2>1, <2>2 DEF Job
  <2>4. work' = (work \ {j}) \cup {k}
    BY <2>2 DEF StartSending
  <2>5. QED
    BY <2>3, <2>4
<1>7. QED
  BY <1>4, <1>5, <1>6, DispatchTold DEF feed

\* The last look suppresses a message only in an interval, a summary apart.
LEMMA HushTold ==
  ASSUME WholeSeconds, IInv, EInv, Good, NEW j \in work,
         Suppressed(rows[j.row].alarm) \/ Outdated(j.row),
         rows' = [rows EXCEPT ![j.row].status = "suppressed", ![j.row].next = Never,
                              ![j.row].settled = FALSE],
         work' = work \ {j}, UNCHANGED <<now, feed, windows, silences>>
  PROVE  EInv'
<1>1. PICK i \in DOMAIN rows : i = j.row
  BY JobFacts
<1>2. PICK q \in Message : q = rows[i]
  BY <1>1, JobFacts
<1>3. PICK a : a = q.alarm
  OBVIOUS
<1>4. /\ alarms \in Seq(Alarm) /\ rows \in Seq(Message) /\ now \in Nat
      /\ a \in DOMAIN alarms /\ q.status = "sending"
  BY <1>1, <1>2, <1>3, NowIsNat, JobFacts DEF IInv, Rest, Queue, RowsOK, RowOK
<1>5. DOMAIN rows' = DOMAIN rows /\ \A k \in DOMAIN rows : k # i => rows'[k] = rows[k]
  BY <1>1, <1>4
<1>6. ASSUME q.key[1] # "reconcile"
      PROVE  Excused(q, alarms, windows, silences, now)
  <2>1. /\ Dated(rows, alarms, windows, silences, now) /\ Reasons(rows, alarms)
    BY DEF EInv, Story
  <2>2. Told(q)
    BY <1>4 DEF Told, Active
  <2>3. q.type \in {"opened", "resolved"}
    BY <1>2, <1>6, <2>1, <2>2 DEF Reasons
  <2>4. alarms[a].ended = Never \/ q.created <= alarms[a].ended
    BY <1>2, <1>3, <2>1, <2>3 DEF Reasons
  <2>5. Suppressed(a)
    BY <1>1, <1>2, <1>3, <2>3 DEF Outdated
  <2>6. PICK x \in WindowsOf(a, alarms, windows) \cup SilencesOf(a, silences) :
          Effective(x) /\ x.starts <= now /\ now <= EffectiveEnd(x)
    BY <1>4, <2>1, <2>5, SuppressedIs DEF Suppressed
  <2>7. alarms[a].opened <= EffectiveEnd(x)
    <3>1. alarms[a].opened <= q.created /\ q.created <= now
      BY <1>2, <1>3, <2>1 DEF Dated
    <3>2. q.created \in Nat /\ alarms[a] \in Alarm
      BY <1>4 DEF Message
    <3>3. EffectiveEnd(x) \in Nat /\ alarms[a].opened \in Nat
      BY <2>1, <3>2, IntervalsAreSound, EndIsNatural DEF Alarm
    <3>4. QED
      BY <1>4, <2>6, <3>1, <3>2, <3>3
  <2>8. QED
    BY <1>3, <2>4, <2>6, <2>7 DEF Excused
<1>7. UNCHANGED <<alarms, windows, silences>>
  BY DEF feed
<1>8. Continues(rows, rows', alarms, windows, silences, now)
  <2>1. \A k \in DOMAIN rows :
          /\ rows'[k].status = "suppressed" /\ rows[k].status # "suppressed"
          /\ rows[k].key[1] # "reconcile" /\ Lasting(windows, silences)
          => Excused(rows[k], alarms, windows, silences, now)
    BY <1>2, <1>5, <1>6
  <2>2. QED
    BY <1>5, <2>1, NoAddition DEF Good, IInv
<1>9. QED
  BY <1>7, <1>8, StepTold, TablesStay DEF SameMarks

LEMMA PreflightTold ==
  ASSUME WholeSeconds, IInv, EInv, Good, NEW j \in work, Preflight(j)
  PROVE  EInv'
<1>1. UNCHANGED <<now, feed, windows, silences>>
  BY DEF Preflight
<1>2. CASE Leave(j, "discarded", Never) \/ Leave(j, "failed", Never)
  BY <1>1, <1>2, LeaveTold
<1>3. CASE /\ Suppressed(rows[j.row].alarm) \/ Outdated(j.row)
           /\ rows' = [rows EXCEPT ![j.row].status = "suppressed", ![j.row].next = Never,
                                   ![j.row].settled = FALSE]
           /\ work' = work \ {j}
  BY <1>1, <1>3, HushTold
<1>4. CASE StartSending(j)
  BY <1>1, <1>4, StartTold
<1>5. QED
  BY <1>2, <1>3, <1>4 DEF Preflight, Blocked

LEMMA AcceptTold ==
  ASSUME IInv, EInv, Good, NEW j \in work, Accept(j)
  PROVE  EInv'
<1>1. UNCHANGED <<now, feed, windows, silences, rows>>
  BY DEF Accept
<1>2. \A k \in work' : \E l \in work : l.at = k.at
  <2>1. j \in Job
    BY JobFacts
  <2>2. PICK k : k = [j EXCEPT !.phase = "accepted"]
    OBVIOUS
  <2>3. k.at = j.at
    BY <2>1, <2>2 DEF Job
  <2>4. work' = (work \ {j}) \cup {k}
    BY <2>2 DEF Accept
  <2>5. QED
    BY <2>3, <2>4
<1>3. QED
  BY <1>1, <1>2, RowsTold DEF feed

LEMMA CompleteTold ==
  ASSUME IInv, EInv, Good, NEW j \in work, CompleteOk(j) \/ CompleteError(j)
  PROVE  EInv'
<1>1. UNCHANGED <<now, feed, windows, silences>>
  BY DEF CompleteOk, CompleteError
<1>2. \E status \in {"accepted", "mock_sent", "failed", "retry"}, next \in {Never, now + Backoff(rows[j.row].attempts)} :
        Leave(j, status, next)
  BY DEF CompleteOk, CompleteError
<1>3. QED
  BY <1>1, <1>2, LeaveTold

\* The process and its bookkeeping.
LEMMA QuietTold ==
  ASSUME IInv, EInv, Good, UNCHANGED <<now, feed, windows, silences, rows>>,
         work' \subseteq work
  PROVE  EInv'
BY RowsTold DEF feed

\* The clock.
LEMMA TickTold ==
  ASSUME IInv, EInv, Tick
  PROVE  EInv'
<1>1. /\ now \in Nat /\ now' = now + 1
      /\ UNCHANGED <<work, alarms, windows, silences, rows>>
  BY NowIsNat DEF Tick, process, feed, IInv
<1>2. Typed(rows, alarms, now)
  BY RowsAreTyped DEF IInv, Rest, Queue
<1>3. PICK u \in Nat : u = now + 1 /\ now <= u
  BY <1>1
<1>4. Story(rows, alarms, windows, silences, u)
  BY <1>2, <1>3, StoryAges DEF EInv
<1>5. Punctual(work, windows, u)
  <2>1. \A j \in work : j.at \in Nat
    BY DEF IInv, Rest, Job
  <2>2. \A n \in Nat : n <= now => n <= u
    BY <1>1, <1>3
  <2>3. QED
    BY <2>1, <2>2 DEF EInv, Punctual
<1>6. Cleared(rows, alarms, windows)
  BY DEF EInv
<1>7. Story(rows', alarms', windows', silences', now')
  BY <1>1, <1>3, <1>4
<1>8. Cleared(rows', alarms', windows')
  BY <1>1, <1>6
<1>9. Punctual(work', windows', now')
  BY <1>1, <1>3, <1>5
<1>10. QED
  BY <1>7, <1>8, <1>9 DEF EInv
-----------------------------------------------------------------------------
(***************************************************************************)
(* The claim: what reconciliation queues.                                  *)
(***************************************************************************)
\* What has a length is a sequence, whatever of.
LEMMA Split ==
  ASSUME NEW n \in Nat, NEW m \in Nat, NEW f, NEW g,
         f = [i \in 1 .. n |-> f[i]], g = [k \in 1 .. m |-> g[k]], NEW rt, rt = f \o g
  PROVE  /\ \A i \in 1 .. n : rt[i] = f[i]
         /\ \A k \in DOMAIN rt \ 1 .. n : k \in Nat /\ k - n \in 1 .. m /\ rt[k] = g[k - n]
         /\ \A k \in 1 .. m : n + k \in DOMAIN rt \ 1 .. n /\ rt[n + k] = g[k]
<1>1. PICK T : T = {f[i] : i \in 1 .. n} \cup {g[k] : k \in 1 .. m}
  OBVIOUS
<1>2. /\ f \in Seq(T) /\ Len(f) = n
      /\ g \in Seq(T) /\ Len(g) = m
  <2>1. f \in [1 .. n -> T] /\ g \in [1 .. m -> T]
    BY <1>1
  <2>2. QED
    BY <2>1
<1>3. /\ rt \in Seq(T) /\ Len(rt) = n + m
      /\ \A i \in 1 .. n + m : rt[i] = IF i <= n THEN f[i] ELSE g[i - n]
  <2>1. /\ f \o g \in Seq(T) /\ Len(f \o g) = Len(f) + Len(g)
        /\ \A i \in 1 .. Len(f) + Len(g) :
             (f \o g)[i] = IF i <= Len(f) THEN f[i] ELSE g[i - Len(f)]
    BY <1>2, ConcatProperties
  <2>2. QED
    BY <1>2, <2>1
<1>4. DOMAIN rt = 1 .. n + m
  BY <1>3
<1>5. ASSUME NEW i \in 1 .. n
      PROVE  rt[i] = f[i]
  BY <1>3
<1>6. ASSUME NEW k \in DOMAIN rt, k \notin 1 .. n
      PROVE  k \in Nat /\ k - n \in 1 .. m /\ rt[k] = g[k - n]
  <2>1. k \in 1 .. n + m /\ ~(k <= n)
    BY <1>4, <1>6
  <2>2. QED
    BY <1>3, <2>1
<1>7. ASSUME NEW k \in 1 .. m
      PROVE  n + k \in DOMAIN rt \ 1 .. n /\ rt[n + k] = g[k]
  <2>1. n + k \in 1 .. n + m /\ ~(n + k <= n) /\ (n + k) - n = k
    OBVIOUS
  <2>2. QED
    BY <1>3, <1>4, <2>1
<1>8. QED
  BY <1>5, <1>6, <1>7

\* What turns is told no more.
LEMMA GrowsKeeps ==
  ASSUME NEW rs, NEW rt, NEW as, Grows(rs, rt, as)
  PROVE  Keeps(rs, rt)
<1>1. ASSUME NEW i \in DOMAIN rs
      PROVE  SameNews(rs[i], rt[i]) /\ (Told(rt[i]) => Told(rs[i]))
  <2>1. Turns(rs[i], rt[i])
    BY DEF Grows
  <2>2. QED
    BY <2>1 DEF Turns, Told, Active, Success
<1>2. QED
  BY <1>1 DEF Grows, Keeps

\* A capture excuses what it suppresses.
LEMMA CaptureExcuses ==
  ASSUME WholeSeconds, now \in Nat, alarms \in Seq(Alarm),
         NEW rs, Dated(rs, alarms, windows, silences, now),
         NEW c \in Captures, NEW r, r.alarm = c[2]
  PROVE  Excused(r, alarms, windows, silences, now)
<1>1. c \in DueWindows \X DOMAIN alarms
  BY DEF Captures
<1>2. PICK w \in DueWindows, a \in DOMAIN alarms : c[1] = w /\ c[2] = a
  BY <1>1
<1>3. w \in DOMAIN windows /\ SqlLeq(windows[w].starts, now)
  BY DEF DueWindows
<1>4. /\ Effective(windows[w]) /\ alarms[a].device = windows[w].device
      /\ SqlLess(alarms[a].opened, EffectiveEnd(windows[w]))
      /\ alarms[a].ended = Never \/ SqlLeq(windows[w].starts, alarms[a].ended)
  BY <1>2 DEF Captures
<1>5. /\ windows[w].starts \in Nat /\ EffectiveEnd(windows[w]) \in Nat
      /\ alarms[a].opened \in Nat /\ alarms[a].ended \in Nat
  <2>1. Sound(windows[w], now)
    BY <1>3 DEF Dated
  <2>2. alarms[a] \in Alarm
    OBVIOUS
  <2>3. QED
    BY <2>1, <2>2, EndIsNatural DEF Sound, Alarm
<1>6. /\ windows[w].starts <= now
      /\ alarms[a].opened <= EffectiveEnd(windows[w])
      /\ alarms[a].ended = Never \/ windows[w].starts <= alarms[a].ended
  <2>1. windows[w].starts <= now
    BY <1>3, <1>5, SqlIsTheClock
  <2>2. alarms[a].opened < EffectiveEnd(windows[w])
    BY <1>4, <1>5, SqlIsTheClock
  <2>3. alarms[a].ended = Never \/ windows[w].starts <= alarms[a].ended
    BY <1>4, <1>5, SqlIsTheClock
  <2>4. QED
    BY <1>5, <2>1, <2>2, <2>3
<1>7. windows[w] \in WindowsOf(a, alarms, windows)
  BY <1>3, <1>4 DEF WindowsOf
<1>8. QED
  BY <1>2, <1>4, <1>6, <1>7 DEF Excused

\* capture_maintenance, row by row.
LEMMA CapturedSays ==
  ASSUME TypeOK, NEW S, S \subseteq Captures, NEW captured \in Listings(S),
         NEW rs, rs = CapturedRows(captured)
  PROVE  /\ \A i \in DOMAIN rows :
              rs[i] = IF Captured(rows[i]) THEN [rows[i] EXCEPT !.status = "suppressed"]
                                           ELSE rows[i]
         /\ \A k \in DOMAIN rs \ DOMAIN rows : \E c \in Captures : rs[k] = CaptureRow(c)
<1> DEFINE f == [i \in DOMAIN rows |-> IF Captured(rows[i])
                                       THEN [rows[i] EXCEPT !.status = "suppressed"]
                                       ELSE rows[i]]
           g == [k \in DOMAIN captured |-> CaptureRow(captured[k])]
<1>1. PICK n \in Nat : DOMAIN rows = 1 .. n
  <2>1. rows \in Seq(Message)
    BY DEF TypeOK
  <2>2. QED
    BY <2>1
<1>2. PICK m \in Nat : DOMAIN captured = 1 .. m /\ \A k \in 1 .. m : captured[k] \in S
  BY CapturesAreFinite, FS_Subset, ListingLength
<1>3. f = [i \in 1 .. n |-> f[i]] /\ g = [k \in 1 .. m |-> g[k]]
  BY <1>1, <1>2
<1>4. rs = f \o g
  BY DEF CapturedRows
<1>5. /\ \A i \in DOMAIN rows : f[i] = IF Captured(rows[i])
                                       THEN [rows[i] EXCEPT !.status = "suppressed"]
                                       ELSE rows[i]
      /\ \A k \in 1 .. m : g[k] = CaptureRow(captured[k])
  BY <1>2
<1> HIDE DEF f, g
<1>6. /\ \A i \in 1 .. n : rs[i] = f[i]
      /\ \A k \in DOMAIN rs \ 1 .. n : k - n \in 1 .. m /\ rs[k] = g[k - n]
  BY <1>3, <1>4, Split
<1>7. \A k \in DOMAIN rs \ DOMAIN rows : \E c \in Captures : rs[k] = CaptureRow(c)
  BY <1>1, <1>2, <1>5, <1>6
<1>8. QED
  BY <1>1, <1>5, <1>6, <1>7

LEMMA CaptureSays ==
  ASSUME NEW c, NEW r, r = CaptureRow(c)
  PROVE  /\ r.alarm = c[2] /\ r.type = "current_status" /\ r.key = <<"maintenance", c[1]>>
         /\ r.created = now /\ ~Told(r)
BY DEF CaptureRow, Row, Told, Active, Success

LEMMA CaptureContinues ==
  ASSUME WholeSeconds, TypeOK, now \in Nat,
         Story(rows, alarms, windows, silences, now),
         NEW S, S \subseteq Captures, NEW captured \in Listings(S),
         NEW rs, rs = CapturedRows(captured), Grows(rows, rs, alarms)
  PROVE  Continues(rows, rs, alarms, windows, silences, now)
<1>1. /\ Keeps(rows, rs)
      /\ alarms \in Seq(Alarm) /\ Dated(rows, alarms, windows, silences, now)
  BY GrowsKeeps DEF TypeOK, Story
<1>2. ASSUME NEW i \in DOMAIN rows, rs[i].status = "suppressed", rows[i].status # "suppressed"
      PROVE  Excused(rows[i], alarms, windows, silences, now)
  <2>1. Captured(rows[i])
    <3>1. CASE ~Captured(rows[i])
      <4>1. rs[i] = rows[i]
        BY <3>1, CapturedSays
      <4>2. QED
        BY <1>2, <4>1
    <3>2. QED
      BY <3>1
  <2>2. PICK c \in Captures : rows[i].alarm = c[2]
    BY <2>1 DEF Captured
  <2>3. QED
    BY <1>1, <2>2, CaptureExcuses
<1>3. ASSUME NEW k \in DOMAIN rs, k \notin DOMAIN rows
      PROVE  /\ Addition(rs[k], rows, alarms, windows, silences, now)
             /\ rs[k].type = "current_status" /\ rs[k].key[1] # "reconcile"
  <2>1. PICK c \in Captures : rs[k] = CaptureRow(c)
    BY <1>3, CapturedSays
  <2>2. PICK r : r = rs[k]
    OBVIOUS
  <2>3. /\ r.alarm = c[2] /\ r.type = "current_status" /\ r.key = <<"maintenance", c[1]>>
        /\ r.created = now /\ ~Told(r)
    BY <2>1, <2>2, CaptureSays
  <2>4. r.key[1] = "maintenance"
    BY <2>3
  <2>5. Excused(r, alarms, windows, silences, now)
    BY <1>1, <2>3, CaptureExcuses
  <2>6. /\ r.type \notin {"opened", "resolved"} /\ r.key[1] # "reconcile"
        /\ \A i \in DOMAIN rows : ~Repeats(rows[i], r)
    BY <2>3, <2>4 DEF Repeats
  <2>7. Addition(r, rows, alarms, windows, silences, now)
    BY <2>3, <2>5, <2>6 DEF Addition
  <2>8. QED
    BY <2>2, <2>3, <2>6, <2>7
<1>4. QED
  BY <1>1, <1>2, <1>3 DEF Continues, Repeats

\* intervals_for: the ends of what touched the alarm's life.
Touches(v, a, as, t) ==
  /\ v.starts <= t /\ Effective(v) /\ as[a].opened <= EffectiveEnd(v)
  /\ as[a].ended = Never \/ v.starts <= as[a].ended

LEMMA EndsForIs ==
  ASSUME WholeSeconds, now \in Nat, alarms \in Seq(Alarm),
         NEW rs, Dated(rs, alarms, windows, silences, now), NEW a \in DOMAIN alarms
  PROVE  EndsFor(a) = {EffectiveEnd(v) : v \in
           {u \in WindowsOf(a, alarms, windows) \cup SilencesOf(a, silences) :
              Touches(u, a, alarms, now)}}
<1>1. PICK b \in Alarm : b = alarms[a]
  OBVIOUS
<1>2. b.opened \in Nat /\ b.ended \in Nat
  BY DEF Alarm
<1>3. ASSUME NEW v, Sound(v, now)
      PROVE  /\ /\ SqlLeq(v.starts, now)
                /\ Effective(v)
                /\ b.opened <= EffectiveEnd(v)
                /\ b.ended = Never \/ v.starts <= b.ended
                <=> Touches(v, a, alarms, now)
             /\ Touches(v, a, alarms, now) => SqlLeq(b.opened, v.ends)
  <2>1. /\ v.starts \in Nat /\ v.ends \in Nat
        /\ EffectiveEnd(v) \in Nat /\ EffectiveEnd(v) <= v.ends
    BY <1>3, EndIsNatural DEF Sound
  <2>2. SqlLeq(v.starts, now) <=> v.starts <= now
    BY <2>1, SqlIsTheClock
  <2>3. b.opened <= EffectiveEnd(v) => b.opened <= v.ends
    BY <1>2, <2>1
  <2>4. SqlLeq(b.opened, v.ends) <=> b.opened <= v.ends
    BY <1>2, <2>1, SqlIsTheClock
  <2>5. QED
    BY <1>1, <2>2, <2>3, <2>4 DEF Touches
<1>4. /\ \A w \in DOMAIN windows : Sound(windows[w], now)
      /\ \A s \in DOMAIN silences : Sound(silences[s], now)
  BY DEF Dated
<1> DEFINE touches(i) == /\ SqlLeq(i.starts, now)
                         /\ Effective(i)
                         /\ alarms[a].opened <= EffectiveEnd(i)
                         /\ alarms[a].ended = Never \/ i.starts <= alarms[a].ended
           own == {w \in DOMAIN windows : /\ windows[w].device = alarms[a].device
                                          /\ SqlLeq(alarms[a].opened, windows[w].ends)
                                          /\ touches(windows[w])}
           hush == {s \in DOMAIN silences : silences[s].alarm = a /\ touches(silences[s])}
<1>5. own = {w \in DOMAIN windows : /\ windows[w].device = alarms[a].device
                                    /\ Touches(windows[w], a, alarms, now)}
  BY <1>1, <1>3, <1>4
<1>6. hush = {s \in DOMAIN silences : /\ silences[s].alarm = a
                                      /\ Touches(silences[s], a, alarms, now)}
  BY <1>1, <1>3, <1>4
<1>7. EndsFor(a) = {EffectiveEnd(windows[w]) : w \in own}
                     \cup {EffectiveEnd(silences[s]) : s \in hush}
  BY DEF EndsFor
<1> HIDE DEF own, hush
<1>8. {EffectiveEnd(windows[w]) : w \in own} =
        {EffectiveEnd(v) : v \in {u \in WindowsOf(a, alarms, windows) :
                                    Touches(u, a, alarms, now)}}
  BY <1>5 DEF WindowsOf
<1>9. {EffectiveEnd(silences[s]) : s \in hush} =
        {EffectiveEnd(v) : v \in {u \in SilencesOf(a, silences) :
                                    Touches(u, a, alarms, now)}}
  BY <1>6 DEF SilencesOf
<1>10. QED
  BY <1>7, <1>8, <1>9

\* The boundary of an alarm that is not suppressed any more.
LEMMA BoundaryIs ==
  ASSUME WholeSeconds, now \in Nat, alarms \in Seq(Alarm),
         NEW rs, Dated(rs, alarms, windows, silences, now), NEW a \in DOMAIN alarms,
         Audible(a, alarms, windows, silences, now)
  PROVE  \/ /\ \A v \in WindowsOf(a, alarms, windows) \cup SilencesOf(a, silences) :
                 ~Touches(v, a, alarms, now)
            /\ Boundary(rs, a) = rs[Latest(Compatible(rs, a))].created
         \/ \E v \in WindowsOf(a, alarms, windows) \cup SilencesOf(a, silences) :
              /\ Touches(v, a, alarms, now)
              /\ Boundary(rs, a) = EffectiveEnd(v) /\ EffectiveEnd(v) <= now
<1>1. EndsFor(a) = {EffectiveEnd(v) : v \in
           {u \in WindowsOf(a, alarms, windows) \cup SilencesOf(a, silences) :
              Touches(u, a, alarms, now)}}
  BY EndsForIs
<1>2. CASE EndsFor(a) = {}
  <2>1. Boundary(rs, a) = rs[Latest(Compatible(rs, a))].created
    BY <1>2 DEF Boundary
  <2>2. QED
    BY <1>1, <1>2, <2>1
<1>3. CASE EndsFor(a) # {}
  <2>1. ASSUME NEW v \in WindowsOf(a, alarms, windows) \cup SilencesOf(a, silences),
               Touches(v, a, alarms, now)
        PROVE  EffectiveEnd(v) \in 1 .. now
    <3>1. Sound(v, now) /\ v.starts <= now /\ Effective(v)
      BY <2>1, IntervalsAreSound DEF Touches
    <3>2. EffectiveEnd(v) <= now
      BY <3>1 DEF Audible
    <3>3. EffectiveEnd(v) \in Nat /\ v.starts \in Nat /\ 0 < v.starts
      BY <3>1, EndIsNatural DEF Sound
    <3>4. QED
      BY <3>1, <3>2, <3>3 DEF Effective
  <2>2. EndsFor(a) \subseteq 1 .. now
    BY <1>1, <2>1
  <2>3. Latest(EndsFor(a)) \in EndsFor(a)
    BY <1>3, <2>2, LatestIs
  <2>4. Boundary(rs, a) \in EndsFor(a)
    BY <1>3, <2>3 DEF Boundary
  <2>5. PICK v \in WindowsOf(a, alarms, windows) \cup SilencesOf(a, silences) :
          Touches(v, a, alarms, now) /\ Boundary(rs, a) = EffectiveEnd(v)
    BY <1>1, <2>4
  <2>6. EffectiveEnd(v) <= now
    BY <2>1, <2>5
  <2>7. QED
    BY <2>5, <2>6
<1>4. QED
  BY <1>2, <1>3

\* What summarising says.
LEMMA SummarySays ==
  ASSUME NEW rs, NEW a, NEW r, r = SummaryRow(rs, a)
  PROVE  /\ r.alarm = a /\ r.created = now
         /\ r.key[1] = "reconcile" /\ r.key[2] = Latest(Compatible(rs, a))
         /\ r.type = IF alarms[a].status = "open" THEN "current_status" ELSE "resolved_summary"
         /\ r.ident = Identity(alarms[a].probe) /\ r.status # "suppressed"
BY DEF SummaryRow, Row, Identity

\* A summary has the end of an interval between it and what was told before.
LEMMA SummaryIsApart ==
  ASSUME WholeSeconds, now \in Nat \ {0}, alarms \in Seq(Alarm),
         NEW rs, RowsOK(rs, alarms), Story(rs, alarms, windows, silences, now),
         Lasting(windows, silences),
         NEW a \in Summarised(rs), Audible(a, alarms, windows, silences, now),
         NEW r, r = SummaryRow(rs, a), NEW i \in DOMAIN rs, Repeats(rs[i], r)
  PROVE  Between(rs[i], r, alarms, windows, silences)
<1>1. /\ a \in DOMAIN alarms /\ Compatible(rs, a) # {} /\ ~Replacement(rs, a)
  BY DEF Summarised, Reconcilable, NothingToTell
<1>2. /\ r.alarm = a /\ r.created = now /\ r.ident = Identity(alarms[a].probe)
      /\ r.type = IF alarms[a].status = "open" THEN "current_status" ELSE "resolved_summary"
  BY SummarySays
<1>3. /\ rs[i].alarm = a /\ rs[i].ident = Identity(alarms[a].probe)
      /\ rs[i].status \in Active \cup Success /\ Told(rs[i])
  BY <1>2 DEF Repeats, Told
<1>4. /\ Dated(rs, alarms, windows, silences, now) /\ Reasons(rs, alarms)
      /\ Unhushed(rs, alarms, windows, silences) /\ Hushed(rs, alarms, windows, silences, now)
      /\ Apart(rs, alarms, windows, silences)
  BY DEF Story
<1>5. Typed(rs, alarms, now)
  BY DEF Typed, Refer, RowsOK, RowOK
<1>6. /\ \A k \in DOMAIN rs : rs[k].created \in Nat /\ rs[k] \in Message
      /\ alarms[a].opened \in Nat /\ alarms[a].ended \in Nat
      /\ DOMAIN rs \subseteq Nat
  BY <1>1, <1>5, TypedFacts
<1>7. ASSUME NEW v \in WindowsOf(a, alarms, windows) \cup SilencesOf(a, silences)
      PROVE  v.starts \in Nat /\ EffectiveEnd(v) \in Nat
  BY <1>4, IntervalsAreSound, EndIsNatural DEF Sound
<1>8. PICK k : k = Latest(Compatible(rs, a))
  OBVIOUS
<1>9. k \in Compatible(rs, a)
  <2>1. rs \in Seq(Message)
    BY <1>5 DEF Typed
  <2>2. DOMAIN rs = 1 .. Len(rs) /\ Len(rs) \in Nat
    BY <2>1
  <2>3. Compatible(rs, a) \subseteq 1 .. Len(rs)
    BY <2>2 DEF Compatible, Unsettled
  <2>4. QED
    BY <1>1, <1>8, <2>2, <2>3, LatestIs
<1>10. /\ k \in DOMAIN rs /\ rs[k].alarm = a /\ rs[k].status = "suppressed"
       /\ rs[k].ident = rs[i].ident
  BY <1>3, <1>9 DEF Compatible, Unsettled
<1>11. ASSUME rs[i].type \in IF alarms[a].status = "open" THEN Outage ELSE Resolution
       PROVE  \/ \E v \in WindowsOf(a, alarms, windows) \cup SilencesOf(a, silences) :
                   /\ Touches(v, a, alarms, now) /\ EffectiveEnd(v) <= now
                   /\ rs[i].created < EffectiveEnd(v)
              \/ /\ \A v \in WindowsOf(a, alarms, windows) \cup SilencesOf(a, silences) :
                      ~Touches(v, a, alarms, now)
                 /\ rs[i].created < rs[k].created /\ i < k
  <2>1. ~SqlLeq(Boundary(rs, a), rs[i].created)
    BY <1>1, <1>3, <1>11 DEF Replacement
  <2>2. CASE /\ \A v \in WindowsOf(a, alarms, windows) \cup SilencesOf(a, silences) :
                  ~Touches(v, a, alarms, now)
             /\ Boundary(rs, a) = rs[k].created
    <3>1. rs[i].created < rs[k].created
      BY <1>6, <1>10, <2>1, <2>2, SqlIsTheClock
    <3>2. i \in Nat /\ k \in Nat /\ rs[i].created \in Nat /\ rs[k].created \in Nat
      BY <1>6, <1>10
    <3>3. k < i => rs[k].created <= rs[i].created
      BY <1>4, <1>10 DEF Dated
    <3>4. i < k
      BY <3>1, <3>2, <3>3
    <3>5. QED
      BY <2>2, <3>1, <3>4
  <2>3. CASE \E v \in WindowsOf(a, alarms, windows) \cup SilencesOf(a, silences) :
               /\ Touches(v, a, alarms, now)
               /\ Boundary(rs, a) = EffectiveEnd(v) /\ EffectiveEnd(v) <= now
    <3>1. PICK v \in WindowsOf(a, alarms, windows) \cup SilencesOf(a, silences) :
               /\ Touches(v, a, alarms, now)
               /\ Boundary(rs, a) = EffectiveEnd(v) /\ EffectiveEnd(v) <= now
      BY <2>3
    <3>2. rs[i].created \in Nat /\ EffectiveEnd(v) \in Nat
      BY <1>6, <1>7
    <3>3. rs[i].created < EffectiveEnd(v)
      BY <2>1, <3>1, <3>2, SqlIsTheClock
    <3>4. QED
      BY <3>1, <3>3
  <2>4. QED
    BY <1>1, <1>4, <1>8, <2>2, <2>3, BoundaryIs
<1>12. CASE alarms[a].status = "open" /\ rs[i].type \in Outage
  <2>1. alarms[a].ended = Never /\ r.type \notin Resolution
    BY <1>1, <1>2, <1>4, <1>12 DEF Dated, Resolution
  <2>2. \E v \in WindowsOf(a, alarms, windows) \cup SilencesOf(a, silences) :
          /\ Effective(v)
          /\ rs[i].created <= EffectiveEnd(v) /\ EffectiveEnd(v) <= now
    <3>1. CASE \E v \in WindowsOf(a, alarms, windows) \cup SilencesOf(a, silences) :
                 /\ Touches(v, a, alarms, now) /\ EffectiveEnd(v) <= now
                 /\ rs[i].created < EffectiveEnd(v)
      <4>1. PICK v \in WindowsOf(a, alarms, windows) \cup SilencesOf(a, silences) :
                 /\ Touches(v, a, alarms, now) /\ EffectiveEnd(v) <= now
                 /\ rs[i].created < EffectiveEnd(v)
        BY <3>1
      <4>2. rs[i].created \in Nat /\ EffectiveEnd(v) \in Nat
        BY <1>6, <1>7
      <4>3. rs[i].created <= EffectiveEnd(v)
        BY <4>1, <4>2
      <4>4. QED
        BY <4>1, <4>3 DEF Touches
    <3>2. CASE /\ \A v \in WindowsOf(a, alarms, windows) \cup SilencesOf(a, silences) :
                    ~Touches(v, a, alarms, now)
               /\ rs[i].created < rs[k].created /\ i < k
      <4>1. rs[k].key[1] = "reconcile"
        BY <1>4, <1>10, <2>1, <3>2 DEF Hushed, Excused, Touches
      <4>2. Repeats(rs[i], rs[k])
        BY <1>3, <1>10, <4>1 DEF Repeats
      <4>3. Between(rs[i], rs[k], alarms, windows, silences)
        BY <1>4, <1>10, <3>2, <4>2 DEF Apart
      <4>4. rs[k].type \in Outage
        <5>1. RowOK(rs[k], alarms) /\ rs[k] \in Message
          BY <1>6, <1>10 DEF RowsOK
        <5>2. rs[k].type \notin Resolution
          BY <1>10, <1>12, <5>1 DEF RowOK
        <5>3. QED
          BY <5>1, <5>2 DEF Message
      <4>5. PICK v \in WindowsOf(a, alarms, windows) \cup SilencesOf(a, silences) :
              /\ Effective(v)
              /\ rs[i].created <= EffectiveEnd(v) /\ EffectiveEnd(v) <= rs[k].created
        BY <1>3, <1>12, <4>3, <4>4 DEF Between
      <4>6. EffectiveEnd(v) <= now
        <5>1. rs[k].created <= now /\ rs[k].created \in Nat /\ EffectiveEnd(v) \in Nat
          BY <1>4, <1>6, <1>7, <1>10 DEF Dated
        <5>2. QED
          BY <4>5, <5>1
      <4>7. QED
        BY <4>5, <4>6
    <3>3. QED
      BY <1>11, <1>12, <3>1, <3>2
  <2>3. QED
    BY <1>2, <1>3, <2>1, <2>2 DEF Between
<1>13. CASE alarms[a].status # "open" /\ rs[i].type \in Resolution
  <2>1. /\ alarms[a].ended # Never /\ r.type \notin Outage
        /\ alarms[a].ended <= rs[i].created
    BY <1>1, <1>2, <1>3, <1>4, <1>13 DEF Dated, Reasons, Outage
  <2>2. \E v \in WindowsOf(a, alarms, windows) : v.starts = alarms[a].ended
    <3>1. CASE \E v \in WindowsOf(a, alarms, windows) \cup SilencesOf(a, silences) :
                 /\ Touches(v, a, alarms, now) /\ EffectiveEnd(v) <= now
                 /\ rs[i].created < EffectiveEnd(v)
      <4>1. PICK v \in WindowsOf(a, alarms, windows) \cup SilencesOf(a, silences) :
                 Touches(v, a, alarms, now) /\ rs[i].created < EffectiveEnd(v)
        BY <3>1
      <4>2. v.starts <= alarms[a].ended
        BY <2>1, <4>1 DEF Touches
      <4>3. rs[i].created \in Nat /\ EffectiveEnd(v) \in Nat /\ v.starts \in Nat
        BY <1>6, <1>7
      <4>4. \/ v.starts < rs[i].created
            \/ v.starts = rs[i].created /\ v.starts = alarms[a].ended
        BY <1>6, <2>1, <4>2, <4>3
      <4>5. ~(EffectiveEnd(v) <= rs[i].created)
        BY <4>1, <4>3
      <4>6. CASE v \in SilencesOf(a, silences)
        BY <1>3, <1>4, <1>13, <4>4, <4>5, <4>6 DEF Unhushed
      <4>7. CASE v \in WindowsOf(a, alarms, windows)
        BY <1>3, <1>4, <4>4, <4>5, <4>7 DEF Unhushed
      <4>8. QED
        BY <4>6, <4>7
    <3>2. CASE /\ \A v \in WindowsOf(a, alarms, windows) \cup SilencesOf(a, silences) :
                    ~Touches(v, a, alarms, now)
               /\ rs[i].created < rs[k].created /\ i < k
      <4>1. ~(rs[k].created <= alarms[a].ended)
        <5>1. rs[i].created \in Nat /\ rs[k].created \in Nat
          BY <1>6, <1>10
        <5>2. QED
          BY <1>6, <2>1, <3>2, <5>1
      <4>2. rs[k].key[1] = "reconcile"
        <5>1. SUFFICES ASSUME rs[k].key[1] # "reconcile"
              PROVE  FALSE
          OBVIOUS
        <5>2. Excused(rs[k], alarms, windows, silences, now)
          BY <1>4, <1>10, <5>1 DEF Hushed
        <5>3. PICK v \in WindowsOf(a, alarms, windows) \cup SilencesOf(a, silences) :
                /\ Effective(v) /\ v.starts <= now
                /\ alarms[a].opened <= EffectiveEnd(v)
                /\ v.starts <= alarms[a].ended
          BY <1>10, <2>1, <4>1, <5>2 DEF Excused
        <5>4. QED
          BY <3>2, <5>3 DEF Touches
      <4>3. Repeats(rs[i], rs[k])
        BY <1>3, <1>10, <4>2 DEF Repeats
      <4>4. Between(rs[i], rs[k], alarms, windows, silences)
        BY <1>4, <1>10, <3>2, <4>3 DEF Apart
      <4>5. rs[k].type \in Resolution
        <5>1. rs[k].type \notin Outage
          BY <1>4, <1>10, <2>1, <4>1, <4>2 DEF Reasons
        <5>2. rs[k] \in Message
          BY <1>6, <1>10
        <5>3. QED
          BY <5>1, <5>2 DEF Message
      <4>6. QED
        BY <1>3, <1>13, <4>4, <4>5 DEF Between
    <3>3. QED
      BY <1>11, <1>13, <3>1, <3>2
  <2>3. QED
    BY <1>2, <1>3, <2>1, <2>2 DEF Between
<1>14. CASE rs[i].type \notin IF alarms[a].status = "open" THEN Outage ELSE Resolution
  <2>1. CASE alarms[a].status = "open"
    BY <1>2, <1>14, <2>1 DEF Between, Resolution
  <2>2. CASE alarms[a].status # "open"
    BY <1>2, <1>14, <2>2 DEF Between, Outage
  <2>3. QED
    BY <2>1, <2>2
<1>15. QED
  BY <1>12, <1>13, <1>14

LEMMA SummaryIsAddition ==
  ASSUME WholeSeconds, now \in Nat \ {0}, alarms \in Seq(Alarm),
         NEW rs, RowsOK(rs, alarms), Story(rs, alarms, windows, silences, now),
         NEW a \in Summarised(rs), NEW r, r = SummaryRow(rs, a)
  PROVE  Addition(r, rs, alarms, windows, silences, now)
<1>1. a \in DOMAIN alarms /\ ~Suppressed(a)
  BY DEF Summarised, Reconcilable
<1>2. Dated(rs, alarms, windows, silences, now)
  BY DEF Story
<1>3. Audible(a, alarms, windows, silences, now)
  <2>1. PICK d : d = alarms[a].device
    OBVIOUS
  <2>2. ~SuppressedFor(d, a, now)
    BY <1>1, <2>1 DEF Suppressed
  <2>3. QED
    BY <1>2, <2>1, <2>2, SuppressedIs
<1>4. /\ r.alarm = a /\ r.key[1] = "reconcile" /\ r.created = now
      /\ r.type = IF alarms[a].status = "open" THEN "current_status" ELSE "resolved_summary"
  BY SummarySays
<1>5. r.type \notin {"opened", "resolved"}
  BY <1>4
<1>6. r.type \in Outage => alarms[a].ended = Never
  BY <1>1, <1>2, <1>4 DEF Dated, Outage
<1>7. ASSUME Lasting(windows, silences), NEW i \in DOMAIN rs, Repeats(rs[i], r)
      PROVE  Between(rs[i], r, alarms, windows, silences)
  BY <1>3, <1>7, SummaryIsApart
<1>8. QED
  BY <1>3, <1>4, <1>5, <1>6, <1>7 DEF Addition

\* A listing lists nothing twice.
LEMMA ListingIsInjective ==
  ASSUME NEW S, IsFiniteSet(S), NEW list \in Listings(S),
         NEW i \in DOMAIN list, NEW k \in DOMAIN list, i # k
  PROVE  list[i] # list[k]
<1>1. PICK n \in Nat : n = Cardinality(S)
  BY FS_CardinalityType
<1>2. list \in [1 .. n -> S] /\ \A x \in S : \E j \in DOMAIN list : list[j] = x
  BY <1>1 DEF Listings
<1>3. list \in Surjection(1 .. n, S)
  BY <1>2 DEF Surjection
<1>4. IsFiniteSet(1 .. n) /\ Cardinality(1 .. n) = n
  BY FS_Interval
<1>5. list \in Injection(1 .. n, S)
  BY <1>1, <1>3, <1>4, FS_SurjSameCardinalityImpliesInj
<1>6. QED
  BY <1>5 DEF Injection, IsInjective

\* reconcile, row by row.
LEMMA ReconciledSays ==
  ASSUME TypeOK, NEW rs \in Seq(Message), NEW S, S \subseteq Summarised(rs),
         NEW told \in Listings(S), NEW new, new = ReconciledRows(rs, told)
  PROVE  /\ \A i \in DOMAIN rs : new[i].status = "suppressed" => rs[i].status = "suppressed"
         /\ \A k \in DOMAIN new \ DOMAIN rs : \E a \in Summarised(rs) : new[k] = SummaryRow(rs, a)
         /\ \A i, k \in DOMAIN new \ DOMAIN rs : i < k => new[i].alarm # new[k].alarm
         /\ \A a \in S : \E k \in DOMAIN new \ DOMAIN rs : new[k] = SummaryRow(rs, a)
         /\ \A i \in DOMAIN rs :
              /\ new[i].status = "suppressed" /\ new[i].settled /\ ~rs[i].settled
              => /\ i \in Compatible(rs, rs[i].alarm)
                 /\ NothingToTell(rs, rs[i].alarm) \/ rs[i].alarm \in Summarised(rs)
         /\ \A a \in Summarised(rs) : \A i \in Compatible(rs, a) : new[i].settled
<1> DEFINE settled(a) == NothingToTell(rs, a) \/ a \in Summarised(rs)
           f == [i \in DOMAIN rs |->
                   LET a == rs[i].alarm
                   IN  IF i \notin Unsettled(rs, a) \/ Suppressed(a) THEN rs[i]
                       ELSE IF i \notin Compatible(rs, a)
                            THEN [rs[i] EXCEPT !.status = "discarded", !.settled = TRUE]
                            ELSE [rs[i] EXCEPT !.settled = settled(a)]]
           g == [k \in DOMAIN told |-> SummaryRow(rs, told[k])]
<1>1. PICK n \in Nat : DOMAIN rs = 1 .. n
  OBVIOUS
<1>2. IsFiniteSet(S)
  BY SummariesAreFinite, FS_Subset
<1>3. PICK m \in Nat : DOMAIN told = 1 .. m /\ \A k \in 1 .. m : told[k] \in S
  BY <1>2, ListingLength
<1>4. ASSUME NEW i \in DOMAIN rs, f[i].status = "suppressed"
      PROVE  rs[i].status = "suppressed"
  <2>1. CASE i \in Unsettled(rs, rs[i].alarm)
    BY <2>1 DEF Unsettled
  <2>2. CASE i \notin Unsettled(rs, rs[i].alarm)
    <3>1. f[i] = rs[i]
      BY <2>2
    <3>2. QED
      BY <1>4, <3>1
  <2>3. QED
    BY <2>1, <2>2
<1>5. \A k \in 1 .. m : g[k] = SummaryRow(rs, told[k]) /\ g[k].alarm = told[k]
  BY <1>3, SummarySays
<1>13. \A a \in S : \E k \in 1 .. m : told[k] = a
  BY <1>3 DEF Listings
<1>14. ASSUME NEW i \in DOMAIN rs, f[i].status = "suppressed", f[i].settled, ~rs[i].settled
       PROVE  /\ i \in Compatible(rs, rs[i].alarm)
              /\ settled(rs[i].alarm)
  <2>1. PICK r \in Message : r = rs[i]
    OBVIOUS
  <2>2. PICK b \in BOOLEAN : b <=> settled(r.alarm)
    OBVIOUS
  <2>3. \/ f[i] = r
        \/ f[i] = [r EXCEPT !.status = "discarded", !.settled = TRUE]
        \/ i \in Compatible(rs, r.alarm) /\ f[i] = [r EXCEPT !.settled = settled(r.alarm)]
    BY <2>1
  <2>4. \/ f[i] = r
        \/ f[i] = [r EXCEPT !.status = "discarded", !.settled = TRUE]
        \/ i \in Compatible(rs, r.alarm) /\ f[i] = [r EXCEPT !.settled = b]
    BY <2>2, <2>3, Zenon
  <2> HIDE DEF f, settled
  <2>5. f[i] # r
    BY <1>14, <2>1
  <2>6. f[i] # [r EXCEPT !.status = "discarded", !.settled = TRUE]
    BY <1>14 DEF Message
  <2>7. i \in Compatible(rs, r.alarm) /\ f[i] = [r EXCEPT !.settled = b]
    BY <2>4, <2>5, <2>6
  <2>8. b
    BY <1>14, <2>7 DEF Message
  <2>9. QED
    BY <2>1, <2>2, <2>7, <2>8
<1>15. ASSUME NEW a \in Summarised(rs), NEW i \in Compatible(rs, a)
       PROVE  i \in DOMAIN rs /\ f[i].settled
  <2>1. /\ i \in DOMAIN rs /\ rs[i].alarm = a /\ i \in Unsettled(rs, a) /\ ~Suppressed(a)
    BY DEF Compatible, Unsettled, Summarised, Reconcilable
  <2>2. PICK r \in Message : r = rs[i]
    BY <2>1
  <2>3. f[i] = [r EXCEPT !.settled = settled(a)]
    BY <2>1, <2>2
  <2>4. PICK b \in BOOLEAN : b /\ b = settled(a)
    OBVIOUS
  <2> HIDE DEF f, settled
  <2>5. f[i] = [r EXCEPT !.settled = b]
    BY <2>3, <2>4
  <2>6. f[i].settled
    BY <2>4, <2>5 DEF Message
  <2>7. QED
    BY <2>1, <2>6
<1>6. new = f \o g
  BY Zenon DEF ReconciledRows
<1>7. f = [i \in 1 .. n |-> f[i]] /\ g = [k \in 1 .. m |-> g[k]]
  <2>1. f = [i \in DOMAIN rs |-> f[i]] /\ g = [k \in DOMAIN told |-> g[k]]
    BY Zenon
  <2> HIDE DEF f, g
  <2>2. QED
    BY <1>1, <1>3, <2>1
<1> HIDE DEF f, g
<1>8. /\ \A i \in 1 .. n : new[i] = f[i]
      /\ \A k \in DOMAIN new \ 1 .. n : k \in Nat /\ k - n \in 1 .. m /\ new[k] = g[k - n]
      /\ \A k \in 1 .. m : n + k \in DOMAIN new \ 1 .. n /\ new[n + k] = g[k]
  BY <1>6, <1>7, Split
<1>9. \A i \in DOMAIN rs : new[i].status = "suppressed" => rs[i].status = "suppressed"
  BY <1>1, <1>4, <1>8
<1>10. \A k \in DOMAIN new \ DOMAIN rs : \E a \in Summarised(rs) : new[k] = SummaryRow(rs, a)
  BY <1>1, <1>3, <1>5, <1>8
<1>11. ASSUME NEW i \in DOMAIN new \ DOMAIN rs, NEW k \in DOMAIN new \ DOMAIN rs, i < k
       PROVE  new[i].alarm # new[k].alarm
  <2>1. /\ i \in Nat /\ i - n \in 1 .. m /\ new[i] = g[i - n]
        /\ k \in Nat /\ k - n \in 1 .. m /\ new[k] = g[k - n]
    BY <1>1, <1>8
  <2>2. i - n # k - n
    BY <1>11, <2>1
  <2>3. told[i - n] # told[k - n]
    BY <1>2, <1>3, <2>1, <2>2, ListingIsInjective
  <2>4. QED
    BY <1>5, <2>1, <2>3
<1>12. \A a \in S : \E k \in DOMAIN new \ DOMAIN rs : new[k] = SummaryRow(rs, a)
  BY <1>1, <1>5, <1>8, <1>13
<1>16. ASSUME NEW i \in DOMAIN rs, new[i].status = "suppressed", new[i].settled, ~rs[i].settled
       PROVE  /\ i \in Compatible(rs, rs[i].alarm)
              /\ NothingToTell(rs, rs[i].alarm) \/ rs[i].alarm \in Summarised(rs)
  BY <1>1, <1>8, <1>14, <1>16
<1>17. \A a \in Summarised(rs) : \A i \in Compatible(rs, a) : new[i].settled
  BY <1>1, <1>8, <1>15
<1>18. QED
  BY <1>9, <1>10, <1>11, <1>12, <1>16, <1>17

LEMMA ReconcileContinues ==
  ASSUME WholeSeconds, TypeOK, now \in Nat \ {0},
         NEW rs, RowsOK(rs, alarms), Story(rs, alarms, windows, silences, now),
         NEW S, S \subseteq Summarised(rs), NEW told \in Listings(S),
         NEW new, new = ReconciledRows(rs, told), Grows(rs, new, alarms)
  PROVE  Continues(rs, new, alarms, windows, silences, now)
<1>1. Keeps(rs, new) /\ alarms \in Seq(Alarm) /\ rs \in Seq(Message)
  BY GrowsKeeps DEF TypeOK, RowsOK
<1>2. /\ \A i \in DOMAIN rs : new[i].status = "suppressed" => rs[i].status = "suppressed"
      /\ \A k \in DOMAIN new \ DOMAIN rs : \E a \in Summarised(rs) : new[k] = SummaryRow(rs, a)
      /\ \A i, k \in DOMAIN new \ DOMAIN rs : i < k => new[i].alarm # new[k].alarm
  BY <1>1, ReconciledSays
<1>3. ASSUME NEW k \in DOMAIN new \ DOMAIN rs
      PROVE  Addition(new[k], rs, alarms, windows, silences, now)
  <2>1. PICK a \in Summarised(rs) : new[k] = SummaryRow(rs, a)
    BY <1>2
  <2>2. QED
    BY <1>1, <2>1, SummaryIsAddition
<1>4. QED
  BY <1>1, <1>2, <1>3 DEF Continues

\* Marking what is sent suppresses nothing.
LEMMA PickContinues ==
  ASSUME NEW rs, NEW rt, NEW picked, picked = Lowest(Ready(rs)), Picks(rs, rt, picked),
         NEW as, NEW ws, NEW ss, NEW t
  PROVE  Continues(rs, rt, as, ws, ss, t)
<1>1. ASSUME NEW i \in DOMAIN rs
      PROVE  /\ SameNews(rs[i], rt[i]) /\ (Told(rt[i]) => Told(rs[i]))
             /\ rt[i].status = "suppressed" => rs[i].status = "suppressed"
  <2>1. CASE i \in picked
    <3>1. rs[i].status \in {"pending", "retry"} /\ rt[i].status = "sending"
      BY <2>1 DEF Picks, Lowest, Ready
    <3>2. QED
      BY <3>1 DEF Picks, Told, Active
  <2>2. CASE i \notin picked
    BY <2>2 DEF Picks
  <2>3. QED
    BY <2>1, <2>2
<1>2. DOMAIN rt = DOMAIN rs
  BY DEF Picks
<1>3. QED
  BY <1>1, <1>2 DEF Continues, Keeps

\* The claim marks the windows that began.
LEMMA MarksMove ==
  ASSUME WholeSeconds, now \in Nat, NEW rs, Dated(rs, alarms, windows, silences, now),
         windows \in Seq(Window),
         NEW wt, wt = [w \in DOMAIN windows |->
                         IF w \in DueWindows THEN [windows[w] EXCEPT !.activated = TRUE]
                                             ELSE windows[w]]
  PROVE  /\ WindowsMove(windows, wt, now)
         /\ DOMAIN wt = DOMAIN windows
         /\ \A w \in DOMAIN windows :
              /\ wt[w].device = windows[w].device /\ wt[w].starts = windows[w].starts
              /\ EffectiveEnd(wt[w]) = EffectiveEnd(windows[w])
              /\ wt[w].activated => windows[w].activated \/ w \in DueWindows
              /\ windows[w].starts <= now => wt[w].activated
<1>1. ASSUME NEW w \in DOMAIN windows
      PROVE  /\ wt[w].device = windows[w].device /\ wt[w].starts = windows[w].starts
             /\ wt[w].ends = windows[w].ends /\ wt[w].cancelled = windows[w].cancelled
             /\ wt[w].activated <=> windows[w].activated \/ w \in DueWindows
  <2>1. PICK v \in Window : v = windows[w]
    OBVIOUS
  <2>2. CASE w \in DueWindows
    <3>1. PICK u : u = [v EXCEPT !.activated = TRUE]
      OBVIOUS
    <3>2. /\ u.device = v.device /\ u.starts = v.starts /\ u.ends = v.ends
          /\ u.cancelled = v.cancelled /\ u.activated
      BY <3>1 DEF Window
    <3>3. wt[w] = u
      BY <2>1, <2>2, <3>1
    <3>4. QED
      BY <2>1, <2>2, <3>2, <3>3
  <2>3. CASE w \notin DueWindows
    BY <2>3
  <2>4. QED
    BY <2>2, <2>3
<1>2. ASSUME NEW w \in DOMAIN windows
      PROVE  /\ w \in DueWindows => windows[w].starts <= now
             /\ windows[w].starts <= now => windows[w].activated \/ w \in DueWindows
  <2>1. windows[w].starts \in Nat
    BY DEF Dated, Sound
  <2>2. SqlLeq(windows[w].starts, now) <=> windows[w].starts <= now
    BY <2>1, SqlIsTheClock
  <2>3. QED
    BY <2>2 DEF DueWindows
<1>3. DOMAIN wt = DOMAIN windows
  OBVIOUS
<1>4. WindowsMove(windows, wt, now)
  BY <1>1, <1>2, <1>3 DEF WindowsMove, Later
<1>5. \A w \in DOMAIN windows : EffectiveEnd(wt[w]) = EffectiveEnd(windows[w])
  BY <1>1 DEF EffectiveEnd
<1>6. QED
  BY <1>1, <1>2, <1>3, <1>4, <1>5

\* What is left of the queue is from after the windows that were due.
LEMMA CaptureClears ==
  ASSUME WholeSeconds, IInv, Story(rows, alarms, windows, silences, now),
         NoneSending(rows), NEW i \in DOMAIN rows, rows[i].status \in Active,
         ~Captured(rows[i]),
         NEW w \in DueWindows, windows[w].device = alarms[rows[i].alarm].device,
         Effective(windows[w]),
         alarms[rows[i].alarm].ended = Never \/ windows[w].starts <= alarms[rows[i].alarm].ended
  PROVE  EffectiveEnd(windows[w]) <= rows[i].created
<1>1. PICK a : a = rows[i].alarm
  OBVIOUS
<1>2. /\ Typed(rows, alarms, now) /\ Dated(rows, alarms, windows, silences, now)
  BY RowsAreTyped DEF IInv, Rest, Queue, Story
<1>3. /\ a \in DOMAIN alarms /\ rows[i].created \in Nat
      /\ alarms[a].opened \in Nat /\ alarms[a].ended \in Nat
      /\ alarms[a].opened <= rows[i].created
  BY <1>1, <1>2, TypedFacts DEF Dated
<1>4. w \in DOMAIN windows /\ windows[w].starts \in Nat /\ EffectiveEnd(windows[w]) \in Nat
  BY <1>2, EndIsNatural DEF DueWindows, Dated, Sound
<1>5. CASE alarms[a].opened < EffectiveEnd(windows[w])
  <2>1. PICK c : c = <<w, a>>
    OBVIOUS
  <2>2. c[1] = w /\ c[2] = a /\ c \in DueWindows \X DOMAIN alarms
    BY <1>3, <2>1
  <2>3. SqlLess(alarms[a].opened, EffectiveEnd(windows[w]))
    BY <1>3, <1>4, <1>5, SqlIsTheClock
  <2>4. alarms[a].ended = Never \/ SqlLeq(windows[w].starts, alarms[a].ended)
    BY <1>1, <1>3, <1>4, SqlIsTheClock
  <2>5. c \in Captures
    BY <1>1, <2>2, <2>3, <2>4 DEF Captures
  <2>6. rows[i].status \in {"pending", "retry"}
    BY DEF NoneSending, Active
  <2>7. ~SqlLess(rows[i].created, EffectiveEnd(windows[w]))
    BY <1>1, <2>2, <2>5, <2>6 DEF Captured
  <2>8. QED
    BY <1>3, <1>4, <2>7, SqlIsTheClock
<1>6. CASE ~(alarms[a].opened < EffectiveEnd(windows[w]))
  BY <1>3, <1>4, <1>6
<1>7. QED
  BY <1>5, <1>6

\* The rows that a claim goes through: captured, reconciled, picked.
ClaimGoes(captured, told, rs, new, picked) ==
  /\ captured \in Listings({c \in Captures : ~Known(rows, CaptureRow(c))})
  /\ rs = CapturedRows(captured)
  /\ told \in Listings({a \in Summarised(rs) : ~Known(rs, SummaryRow(rs, a))})
  /\ new = ReconciledRows(rs, told)
  /\ picked = Lowest(Ready(new))
  /\ rows' = [i \in DOMAIN new |->
                IF i \in picked THEN [new[i] EXCEPT !.status = "sending"] ELSE new[i]]
  /\ work' = {[row |-> i, phase |-> "claimed", at |-> now] : i \in picked}

LEMMA ClaimIs ==
  ASSUME Claim
  PROVE  \E captured, told, rs, new, picked : ClaimGoes(captured, told, rs, new, picked)
<1>1. PICK captured \in Listings({c \in Captures : ~Known(rows, CaptureRow(c))}) :
        LET rs == CapturedRows(captured)
        IN \E told \in Listings({a \in Summarised(rs) : ~Known(rs, SummaryRow(rs, a))}) :
             LET new    == ReconciledRows(rs, told)
                 picked == Lowest(Ready(new))
             IN  /\ rows' = [i \in DOMAIN new |->
                               IF i \in picked THEN [new[i] EXCEPT !.status = "sending"]
                                               ELSE new[i]]
                 /\ work' = {[row |-> i, phase |-> "claimed", at |-> now] : i \in picked}
  BY Zenon DEF Claim
<1>2. PICK rs : rs = CapturedRows(captured)
  OBVIOUS
<1>3. PICK told \in Listings({a \in Summarised(rs) : ~Known(rs, SummaryRow(rs, a))}) :
        LET new    == ReconciledRows(rs, told)
            picked == Lowest(Ready(new))
        IN  /\ rows' = [i \in DOMAIN new |->
                          IF i \in picked THEN [new[i] EXCEPT !.status = "sending"]
                                          ELSE new[i]]
            /\ work' = {[row |-> i, phase |-> "claimed", at |-> now] : i \in picked}
  BY <1>1, <1>2, Zenon
<1>4. PICK new : new = ReconciledRows(rs, told)
  OBVIOUS
<1>5. PICK picked : picked = Lowest(Ready(new))
  OBVIOUS
<1>6. /\ rows' = [i \in DOMAIN new |->
                    IF i \in picked THEN [new[i] EXCEPT !.status = "sending"] ELSE new[i]]
      /\ work' = {[row |-> i, phase |-> "claimed", at |-> now] : i \in picked}
  BY <1>3, <1>4, <1>5, Zenon
<1>7. ClaimGoes(captured, told, rs, new, picked)
  BY <1>2, <1>4, <1>5, <1>6, Zenon DEF ClaimGoes
<1>8. QED
  BY <1>7

LEMMA ClaimGrows ==
  ASSUME IInv, NEW captured, NEW told, NEW rs, NEW new, NEW picked,
         ClaimGoes(captured, told, rs, new, picked)
  PROVE  /\ Grows(rows, rs, alarms) /\ RowsOK(rs, alarms) /\ rs \in Seq(Message)
         /\ Grows(rs, new, alarms) /\ RowsOK(new, alarms) /\ new \in Seq(Message)
         /\ Picks(new, rows', picked)
<1>1. TypeOK /\ RowsOK(rows, alarms)
  BY Types1 DEF IInv, Queue
<1>2. PICK S : S = {c \in Captures : ~Known(rows, CaptureRow(c))}
  OBVIOUS
<1>3. Grows(rows, rs, alarms)
  BY <1>1, <1>2, CaptureRowsGrow DEF ClaimGoes
<1>4. RowsOK(rs, alarms) /\ rs \in Seq(Message)
  BY <1>1, <1>3, GrowsKeepsRows, EvolvesByNothing DEF Grows
<1>5. PICK T : T = {a \in Summarised(rs) : ~Known(rs, SummaryRow(rs, a))}
  OBVIOUS
<1>6. Grows(rs, new, alarms)
  BY <1>1, <1>4, <1>5, ReconciledRowsGrow DEF ClaimGoes
<1>7. RowsOK(new, alarms) /\ new \in Seq(Message)
  BY <1>4, <1>6, GrowsKeepsRows, EvolvesByNothing DEF Grows
<1>8. Picks(new, rows', picked)
  BY <1>7, PicksRows DEF ClaimGoes
<1>9. QED
  BY <1>3, <1>4, <1>6, <1>7, <1>8

LEMMA ClaimTold ==
  ASSUME WholeSeconds, IInv, EInv, Good, Claim
  PROVE  EInv'
<1>1. phase = "recovered" /\ UNCHANGED <<now, feed, silences, guard>>
  BY DEF Claim
<1>2. PICK captured, told, rs, new, picked : ClaimGoes(captured, told, rs, new, picked)
  BY ClaimIs
<1>3. rs = CapturedRows(captured)
  BY <1>2 DEF ClaimGoes
<1>5. new = ReconciledRows(rs, told)
  BY <1>2 DEF ClaimGoes
<1>6. picked = Lowest(Ready(new))
  BY <1>2 DEF ClaimGoes
<1>7. work' = {[row |-> i, phase |-> "claimed", at |-> now] : i \in picked}
  BY <1>2 DEF ClaimGoes
<1>8. /\ Rest /\ TypeOK /\ RowsOK(rows, alarms) /\ NoneSending(rows)
      /\ Story(rows, alarms, windows, silences, now) /\ Cleared(rows, alarms, windows)
      /\ alarms \in Seq(Alarm) /\ windows \in Seq(Window) /\ now \in 1 .. MaxTime
  BY <1>1, Types1 DEF IInv, Queue, Recovered, EInv, Rest
<1>9. now \in Nat \ {0} /\ now \in Nat
  BY <1>8, NowIsNat
<1>10. PICK S : S = {c \in Captures : ~Known(rows, CaptureRow(c))}
  OBVIOUS
<1>11. S \subseteq Captures /\ captured \in Listings(S)
  BY <1>2, <1>10 DEF ClaimGoes
<1>12. Grows(rows, rs, alarms)
  BY <1>2, ClaimGrows
<1>13. RowsOK(rs, alarms) /\ rs \in Seq(Message)
  BY <1>2, ClaimGrows
<1>14. Continues(rows, rs, alarms, windows, silences, now)
  BY <1>3, <1>8, <1>9, <1>11, <1>12, CaptureContinues
<1>15. Typed(rows, alarms, now) /\ Typed(rs, alarms, now)
  BY <1>8, <1>13, RowsAreTyped
<1>16. Story(rs, alarms, windows, silences, now)
  BY <1>8, <1>14, <1>15, StoryContinues
<1>17. PICK T : T = {a \in Summarised(rs) : ~Known(rs, SummaryRow(rs, a))}
  OBVIOUS
<1>18. T \subseteq Summarised(rs) /\ told \in Listings(T)
  BY <1>2, <1>17 DEF ClaimGoes
<1>19. Grows(rs, new, alarms)
  BY <1>2, ClaimGrows
<1>20. RowsOK(new, alarms) /\ new \in Seq(Message)
  BY <1>2, ClaimGrows
<1>21. Continues(rs, new, alarms, windows, silences, now)
  BY <1>5, <1>8, <1>9, <1>13, <1>16, <1>18, <1>19, ReconcileContinues
<1>22. Typed(new, alarms, now)
  BY <1>8, <1>20, RowsAreTyped
<1>23. Story(new, alarms, windows, silences, now)
  BY <1>15, <1>16, <1>21, <1>22, StoryContinues
<1>24. PICK rt : rt = rows'
  OBVIOUS
<1>25. Picks(new, rt, picked)
  BY <1>2, <1>24, ClaimGrows
<1>26. Continues(new, rt, alarms, windows, silences, now)
  BY <1>6, <1>25, PickContinues
<1>27. RowsOK(rt, alarms)
  BY <1>1, <1>24 DEF feed, Good, IInv, Queue
<1>28. Typed(rt, alarms, now) /\ Settled(rt, alarms)
  BY <1>8, <1>27, RowsAreTyped
<1>29. Story(rt, alarms, windows, silences, now)
  BY <1>22, <1>23, <1>26, <1>28, StoryContinues
<1>30. PICK wt : wt = windows'
  OBVIOUS
<1>31. /\ WindowsMove(windows, wt, now)
       /\ DOMAIN wt = DOMAIN windows
       /\ \A w \in DOMAIN windows :
            /\ wt[w].device = windows[w].device /\ wt[w].starts = windows[w].starts
            /\ EffectiveEnd(wt[w]) = EffectiveEnd(windows[w])
            /\ wt[w].activated => windows[w].activated \/ w \in DueWindows
            /\ windows[w].starts <= now => wt[w].activated
  <2>1. wt = [w \in DOMAIN windows |->
                IF w \in DueWindows THEN [windows[w] EXCEPT !.activated = TRUE]
                                    ELSE windows[w]]
    BY <1>30 DEF Claim
  <2>2. Dated(rows, alarms, windows, silences, now)
    BY <1>8 DEF Story
  <2>3. QED
    BY <1>8, <1>9, <2>1, <2>2, MarksMove
<1>32. Story(rt, alarms, wt, silences, now)
  BY <1>28, <1>29, <1>31, StoryMoves, TablesStay
<1>33. ASSUME NEW i \in DOMAIN rt, rt[i].status \in Active,
              NEW v \in WindowsOf(rt[i].alarm, alarms, wt), v.activated, Effective(v),
              alarms[rt[i].alarm].ended = Never \/ v.starts <= alarms[rt[i].alarm].ended
       PROVE  EffectiveEnd(v) <= rt[i].created
  <2>1. PICK w \in DOMAIN windows : wt[w].device = alarms[rt[i].alarm].device /\ v = wt[w]
    BY <1>31 DEF WindowsOf
  <2>2. /\ windows[w].device = alarms[rt[i].alarm].device
        /\ v.starts = windows[w].starts /\ EffectiveEnd(v) = EffectiveEnd(windows[w])
        /\ windows[w].activated \/ w \in DueWindows
        /\ Effective(windows[w])
    BY <1>31, <1>33, <2>1 DEF Effective
  <2>3. windows[w] \in WindowsOf(rt[i].alarm, alarms, windows)
    BY <2>2 DEF WindowsOf
  <2>4. i \in DOMAIN new /\ SameNews(new[i], rt[i]) /\ Told(rt[i]) /\ Told(new[i])
    BY <1>25, <1>26, <1>33 DEF Picks, Told, Continues, Keeps
  <2>5. CASE i \in DOMAIN rows
    <3>1. /\ i \in DOMAIN rs /\ Turns(rows[i], rs[i]) /\ Turns(rs[i], new[i])
          /\ SameNews(rows[i], new[i])
      BY <1>12, <1>19, <2>5 DEF Grows, Turns, SameNews
    <3>2. rt[i].alarm = rows[i].alarm /\ rt[i].created = rows[i].created
      BY <2>4, <3>1 DEF SameNews
    <3>3. new[i].status \in Active
      <4>1. CASE i \in picked
        BY <1>6, <4>1 DEF Lowest, Ready, Active
      <4>2. CASE i \notin picked
        BY <1>25, <1>33, <2>4, <4>2 DEF Picks
      <4>3. QED
        BY <4>1, <4>2
    <3>4. rs[i] = rows[i] /\ rows[i].status \in Active
      BY <3>1, <3>3 DEF Turns, Active
    <3>5. ~Captured(rows[i])
      <4>1. ASSUME Captured(rows[i])
            PROVE  FALSE
        <5>1. PICK r \in Message : r = rows[i]
          BY <1>8, <2>5 DEF RowsOK
        <5>2. rs[i] = [r EXCEPT !.status = "suppressed"]
          BY <1>3, <1>8, <1>11, <2>5, <4>1, <5>1, CapturedSays
        <5>3. rs[i].status = "suppressed"
          BY <5>2 DEF Message
        <5>4. QED
          BY <3>4, <5>3 DEF Active
      <4>2. QED
        BY <4>1
    <3>6. CASE windows[w].activated
      BY <1>8, <1>33, <2>2, <2>3, <2>5, <3>2, <3>4, <3>6 DEF Cleared
    <3>7. CASE w \in DueWindows
      <4>1. EffectiveEnd(windows[w]) <= rows[i].created
        BY <1>8, <1>33, <2>2, <2>5, <3>2, <3>4, <3>5, <3>7, CaptureClears
      <4>2. QED
        BY <2>2, <3>2, <4>1
    <3>8. QED
      BY <2>2, <3>6, <3>7
  <2>6. CASE i \notin DOMAIN rows
    <3>1. rt[i].created = now /\ Audible(rt[i].alarm, alarms, windows, silences, now)
      <4>1. CASE i \in DOMAIN rs
        <5>1. Addition(rs[i], rows, alarms, windows, silences, now)
          BY <1>14, <2>6, <4>1 DEF Continues
        <5>2. SameNews(rs[i], new[i]) /\ Told(rs[i])
          BY <1>21, <2>4, <4>1 DEF Continues, Keeps
        <5>3. QED
          BY <2>4, <5>1, <5>2 DEF Addition, SameNews
      <4>2. CASE i \notin DOMAIN rs
        <5>1. Addition(new[i], rs, alarms, windows, silences, now)
          BY <1>21, <2>4, <4>2 DEF Continues
        <5>2. QED
          BY <2>4, <5>1 DEF Addition, SameNews
      <4>3. QED
        BY <4>1, <4>2
    <3>2. v.starts <= now
      <4>1. Dated(rt, alarms, wt, silences, now)
        BY <1>32 DEF Story
      <4>2. QED
        BY <1>33, <4>1, IntervalsAreSound
    <3>3. QED
      BY <2>2, <2>3, <3>1, <3>2 DEF Audible
  <2>7. QED
    BY <2>5, <2>6
<1>34. Cleared(rt, alarms, wt)
  BY <1>33 DEF Cleared
<1>35. Punctual(work', wt, now)
  <2>1. \A j \in work' : j.at = now
    BY <1>7
  <2>2. now <= now
    BY <1>9
  <2>3. ASSUME NEW w \in DOMAIN wt, wt[w].starts < now
        PROVE  wt[w].activated
    <3>1. windows[w].starts \in Nat
      BY <1>8, <1>31 DEF Story, Dated, Sound
    <3>2. windows[w].starts <= now
      BY <1>9, <1>31, <2>3, <3>1
    <3>3. QED
      BY <1>31, <3>2
  <2>4. QED
    BY <2>1, <2>2, <2>3 DEF Punctual
<1>36. now' = now /\ alarms' = alarms /\ silences' = silences
  BY <1>1 DEF feed
<1>37. QED
  BY <1>24, <1>30, <1>32, <1>34, <1>35, <1>36 DEF EInv
-----------------------------------------------------------------------------
(***************************************************************************)
(* Every step, and every behaviour.                                        *)
(***************************************************************************)
LEMMA InitTold == Init => EInv
<1> SUFFICES ASSUME Init PROVE EInv
  OBVIOUS
<1>1. /\ alarms = <<>> /\ windows = <<>> /\ silences = <<>> /\ rows = <<>> /\ work = {}
  BY DEF Init
<1>2. DOMAIN rows = {} /\ DOMAIN alarms = {} /\ DOMAIN windows = {} /\ DOMAIN silences = {}
  BY <1>1
<1>3. Dated(rows, alarms, windows, silences, now)
  BY <1>2 DEF Dated
<1>4. Reasons(rows, alarms) /\ Cleared(rows, alarms, windows)
  BY <1>2 DEF Reasons, Cleared
<1>5. /\ Unhushed(rows, alarms, windows, silences)
      /\ Hushed(rows, alarms, windows, silences, now)
      /\ Apart(rows, alarms, windows, silences)
  BY <1>2 DEF Unhushed, Hushed, Apart
<1>6. Punctual(work, windows, now)
  BY <1>1 DEF Punctual
<1>7. QED
  BY <1>3, <1>4, <1>5, <1>6 DEF EInv, Story

LEMMA NextTold ==
  ASSUME WholeSeconds, IInv, EInv, Good, Next
  PROVE  EInv'
<1>1. ASSUME NEW d \in Devices, NEW outcome \in Outcomes, Measure(d, outcome)
      PROVE  EInv'
  BY <1>1, MeasureTold
<1>2. ASSUME NEW d \in Devices, NEW ip \in Addresses, NEW act \in BOOLEAN,
             UpdateDevice(d, ip, act)
      PROVE  EInv'
  BY <1>2, UpdateDeviceTold
<1>3. ASSUME NEW d \in Devices, NEW starts \in 1 .. MaxTime, NEW ends \in 1 .. MaxTime,
             CreateMaintenance(d, starts, ends)
      PROVE  EInv'
  BY <1>3, CreateMaintenanceTold
<1>4. ASSUME NEW w \in DOMAIN windows, CancelMaintenance(w)
      PROVE  EInv'
  BY <1>4, CancelMaintenanceTold
<1>5. ASSUME NEW a \in DOMAIN alarms, NEW ends \in 1 .. MaxTime, SilenceAlarm(a, ends)
      PROVE  EInv'
  BY <1>5, SilenceAlarmTold
<1>6. ASSUME NEW s \in DOMAIN silences, CancelSilence(s)
      PROVE  EInv'
  BY <1>6, CancelSilenceTold
<1>7. CASE TickRecover
  <2>1. UNCHANGED <<now, work, alarms, windows, silences>> /\ rows' = RecoveredRows(config.limit)
    BY <1>7 DEF TickRecover, feed
  <2>2. QED
    BY <2>1, RecoverTold
<1>8. CASE Claim
  BY <1>8, ClaimTold
<1>9. CASE ClaimFails \/ StopBegin \/ StopEnd \/ Restore
  <2>1. UNCHANGED <<now, feed, windows, silences, rows, work>>
    BY <1>9 DEF ClaimFails, StopBegin, StopEnd, Restore, process
  <2>2. QED
    BY <2>1, QuietTold
<1>10. ASSUME NEW j \in work, Dispatch(j)
       PROVE  EInv'
  BY <1>10, PreflightTold, AcceptTold, CompleteTold DEF Dispatch
<1>11. ASSUME NEW j \in work, LoseResult(j)
       PROVE  EInv'
  <2>1. UNCHANGED <<now, feed, windows, silences, rows>> /\ work' \subseteq work
    BY <1>11 DEF LoseResult
  <2>2. QED
    BY <2>1, QuietTold
<1>12. ASSUME NEW p \in Probes, NEW ident \in Deliveries, NEW limit \in Limits,
              Boot(p, ident, limit)
       PROVE  EInv'
  <2>1. UNCHANGED <<now, work, feed, windows, silences>>
    BY <1>12 DEF Boot
  <2>2. CASE guard
    <3>1. rows' = rows
      BY <1>12, <2>2 DEF Boot
    <3>2. QED
      BY <2>1, <3>1, QuietTold
  <2>3. CASE ~guard
    <3>1. rows' = RecoveredRows(limit)
      BY <1>12, <2>3 DEF Boot
    <3>2. QED
      BY <2>1, <3>1, RecoverTold DEF feed
  <2>4. QED
    BY <2>2, <2>3
<1>13. CASE Crash
  <2>1. UNCHANGED <<now, feed, windows, silences, rows>> /\ work' \subseteq work
    BY <1>13 DEF Crash
  <2>2. QED
    BY <2>1, QuietTold
<1>14. CASE Tick
  BY <1>14, TickTold
<1>15. QED
  BY <1>1, <1>2, <1>3, <1>4, <1>5, <1>6, <1>7, <1>8, <1>9, <1>10, <1>11, <1>12, <1>13, <1>14
     DEF Next

LEMMA EpisodeInvariance ==
  ASSUME WholeSeconds
  PROVE  Spec => [](IInv /\ EInv)
<1>1. Init => IInv /\ EInv
  BY InitIInv, InitTold
<1>2. (IInv /\ EInv) /\ [Next]_vars => (IInv /\ EInv)'
  <2> SUFFICES ASSUME IInv, EInv, [Next]_vars PROVE IInv' /\ EInv'
    OBVIOUS
  <2>1. Good
    BY StepGood
  <2>2. IInv'
    BY <2>1 DEF Good
  <2>3. ASSUME Next
        PROVE  EInv'
    BY <2>1, <2>3, NextTold
  <2>4. ASSUME UNCHANGED vars
        PROVE  EInv'
    <3>1. UNCHANGED <<now, feed, windows, silences, rows, work>>
      BY <2>4 DEF vars, process
    <3>2. work' \subseteq work
      BY <3>1
    <3>3. QED
      BY <2>1, <3>1, <3>2, QuietTold
  <2>5. QED
    BY <2>2, <2>3, <2>4
<1>3. QED
  BY <1>1, <1>2, PTL DEF Spec
-----------------------------------------------------------------------------
(***************************************************************************)
(* One message per episode.                                                *)
(***************************************************************************)
LEMMA LaterNewsIsSummary ==
  ASSUME IInv, EInv, NoneVanished,
         NEW i \in DOMAIN rows, NEW j \in DOMAIN rows, i < j,
         rows[j].alarm = rows[i].alarm, rows[i].ident = rows[j].ident,
         Told(rows[i]), Told(rows[j]),
         \/ {rows[i].type, rows[j].type} \subseteq Outage
         \/ {rows[i].type, rows[j].type} \subseteq Resolution
  PROVE  Between(rows[i], rows[j], alarms, windows, silences)
<1>1. Reasons(rows, alarms) /\ Apart(rows, alarms, windows, silences)
  BY DEF EInv, Story
<1>2. rows[j].type \notin {"opened", "resolved"}
  <2>1. /\ rows[j].type # "opened"
        /\ rows[j].type = "resolved" => rows[i].type \notin Resolution
    BY <1>1 DEF Reasons
  <2>2. "resolved" \notin Outage
    BY DEF Outage
  <2>3. QED
    BY <2>1, <2>2
<1>3. rows[j].key[1] = "reconcile"
  BY <1>1, <1>2 DEF Reasons
<1>4. Repeats(rows[i], rows[j])
  BY <1>3 DEF Repeats
<1>5. Lasting(windows, silences)
  BY DEF NoneVanished, Lasting
<1>6. QED
  BY <1>1, <1>4, <1>5 DEF Apart

LEMMA EpisodesApart == IInv /\ EInv => OneMessagePerEpisode
<1> SUFFICES ASSUME IInv, EInv PROVE OneMessagePerEpisode
  OBVIOUS
<1>1. ASSUME NEW i \in DOMAIN rows, NEW j \in DOMAIN rows, NoneVanished,
             i < j, rows[j].alarm = rows[i].alarm, rows[i].ident = rows[j].ident,
             {rows[i].status, rows[j].status} \subseteq Active \cup Success
      PROVE  /\ {rows[i].type, rows[j].type} \subseteq Outage
                => \/ \E w \in DOMAIN windows :
                        /\ windows[w].device = alarms[rows[i].alarm].device
                        /\ Effective(windows[w])
                        /\ rows[i].created <= EffectiveEnd(windows[w])
                        /\ EffectiveEnd(windows[w]) <= rows[j].created
                   \/ \E s \in DOMAIN silences :
                        /\ silences[s].alarm = rows[i].alarm
                        /\ Effective(silences[s])
                        /\ rows[i].created <= EffectiveEnd(silences[s])
                        /\ EffectiveEnd(silences[s]) <= rows[j].created
             /\ {rows[i].type, rows[j].type} \subseteq Resolution
                => \E w \in DOMAIN windows : windows[w].starts = alarms[rows[i].alarm].ended
  <2>1. Told(rows[i]) /\ Told(rows[j])
    BY <1>1 DEF Told
  <2>2. CASE {rows[i].type, rows[j].type} \subseteq Outage
    <3>1. Between(rows[i], rows[j], alarms, windows, silences)
      BY <1>1, <2>1, <2>2, LaterNewsIsSummary
    <3>2. PICK v \in WindowsOf(rows[i].alarm, alarms, windows)
                     \cup SilencesOf(rows[i].alarm, silences) :
            /\ Effective(v)
            /\ rows[i].created <= EffectiveEnd(v) /\ EffectiveEnd(v) <= rows[j].created
      BY <2>2, <3>1 DEF Between
    <3>3. rows[i].type \notin Resolution
      BY <2>2 DEF Outage, Resolution
    <3>4. CASE v \in WindowsOf(rows[i].alarm, alarms, windows)
      BY <3>2, <3>3, <3>4 DEF WindowsOf
    <3>5. CASE v \in SilencesOf(rows[i].alarm, silences)
      BY <3>2, <3>3, <3>5 DEF SilencesOf
    <3>6. QED
      BY <3>4, <3>5
  <2>3. CASE {rows[i].type, rows[j].type} \subseteq Resolution
    <3>1. Between(rows[i], rows[j], alarms, windows, silences)
      BY <1>1, <2>1, <2>3, LaterNewsIsSummary
    <3>2. PICK v \in WindowsOf(rows[i].alarm, alarms, windows) :
            v.starts = alarms[rows[i].alarm].ended
      BY <2>3, <3>1 DEF Between
    <3>3. rows[i].type \notin Outage
      BY <2>3 DEF Outage, Resolution
    <3>4. QED
      BY <3>2, <3>3 DEF WindowsOf
  <2>4. QED
    BY <2>2, <2>3
<1>2. QED
  BY <1>1 DEF OneMessagePerEpisode

\* In whole seconds, two messages about the same outage that were neither
\* suppressed nor discarded have the end of a suppression between them, and
\* the end of an outage is told once, but at the begin of a window -- whatever
\* is captured, reconciled, retried or recovered in between
\* (notifications.py, operations.py).
THEOREM EpisodesAreToldOnce ==
  ASSUME WholeSeconds
  PROVE  Spec => []OneMessagePerEpisode
<1>1. IInv /\ EInv => OneMessagePerEpisode
  BY EpisodesApart
<1>2. QED
  BY <1>1, EpisodeInvariance, PTL
-----------------------------------------------------------------------------
(***************************************************************************)
(* Messages and maintenance.                                               *)
(***************************************************************************)
\* What leaves was claimed before, and passed the last check in this step.
LEMMA LeavingWasClaimed ==
  ASSUME IInv, Next, NEW j \in Leaving
  PROVE  /\ \E k \in work : k.row = j.row /\ k.at = j.at
         /\ ~Blocked(j.row)
<1>1. j \in work' /\ j.phase = "sending" /\ j \notin work
  BY DEF Leaving
<1>2. ASSUME work' \subseteq work
      PROVE  FALSE
  BY <1>1, <1>2
<1>3. ASSUME NEW k \in work, NEW ph, k \in Job,
             work' = (work \ {k}) \cup {[k EXCEPT !.phase = ph]}
      PROVE  k.row = j.row /\ k.at = j.at /\ ph = "sending"
  <2>1. PICK l : l = [k EXCEPT !.phase = ph]
    OBVIOUS
  <2>2. l.row = k.row /\ l.at = k.at /\ l.phase = ph
    BY <1>3, <2>1 DEF Job
  <2>3. j = l
    BY <1>1, <1>3, <2>1
  <2>4. QED
    BY <1>1, <2>2, <2>3
<1>4. ASSUME NEW k \in work, Dispatch(k)
      PROVE  k.row = j.row /\ k.at = j.at /\ ~Blocked(j.row)
  <2>1. k \in Job
    BY JobFacts
  <2>2. \/ work' \subseteq work
        \/ work' = (work \ {k}) \cup {[k EXCEPT !.phase = "accepted"]}
        \/ /\ work' = (work \ {k}) \cup {[k EXCEPT !.phase = "sending"]}
           /\ ~Blocked(k.row)
    BY <1>4 DEF Dispatch, Preflight, Accept, CompleteOk, CompleteError, Leave, StartSending
  <2>3. CASE work' = (work \ {k}) \cup {[k EXCEPT !.phase = "accepted"]}
    BY <1>3, <2>1, <2>3
  <2>4. CASE work' = (work \ {k}) \cup {[k EXCEPT !.phase = "sending"]} /\ ~Blocked(k.row)
    <3>1. k.row = j.row /\ k.at = j.at
      BY <1>3, <2>1, <2>4
    <3>2. QED
      BY <2>4, <3>1
  <2>5. QED
    BY <1>2, <2>2, <2>3, <2>4
<1>5. CASE Claim
  <2>1. \E S : work' = {[row |-> i, phase |-> "claimed", at |-> now] : i \in S}
    BY <1>5, Zenon DEF Claim
  <2>2. PICK S : work' = {[row |-> i, phase |-> "claimed", at |-> now] : i \in S}
    BY <2>1
  <2>3. j.phase = "claimed"
    BY <1>1, <2>2
  <2>4. QED
    BY <1>1, <2>3
<1>6. CASE \E k \in work : Dispatch(k)
  <2>1. PICK k \in work : Dispatch(k)
    BY <1>6
  <2>2. k.row = j.row /\ k.at = j.at /\ ~Blocked(j.row)
    BY <1>4, <2>1
  <2>3. QED
    BY <2>2
<1>7. CASE ~Claim /\ ~(\E k \in work : Dispatch(k))
  <2>1. work' \subseteq work
    BY <1>7 DEF Next, Measure, UpdateDevice, CreateMaintenance, CancelMaintenance,
                SilenceAlarm, CancelSilence, TickRecover, ClaimFails, LoseResult, Boot,
                StopBegin, StopEnd, Crash, Restore, Tick, process
  <2>2. QED
    BY <1>2, <2>1
<1>8. QED
  BY <1>5, <1>6, <1>7

\* What leaves is from after the windows that had begun when it was claimed, ...
LEMMA LeavingIsClear ==
  ASSUME IInv, EInv, Next, NEW j \in Leaving
  PROVE  NewsIsFrom(j, MaintenanceOf(rows[j.row].alarm))
<1>1. PICK k \in work : k.row = j.row /\ k.at = j.at
  BY LeavingWasClaimed
<1>2. j.row \in DOMAIN rows /\ rows[j.row].status \in Active
  BY <1>1, JobFacts DEF Active
<1>3. PICK a : a = rows[j.row].alarm
  OBVIOUS
<1>4. PICK S : S = WindowsOf(a, alarms, windows)
  OBVIOUS
<1>5. ASSUME NEW v \in S, Effective(v), v.starts < j.at,
             alarms[a].ended = Never \/ v.starts <= alarms[a].ended
      PROVE  EffectiveEnd(v) <= rows[j.row].created
  <2>1. v.activated
    BY <1>1, <1>4, <1>5 DEF WindowsOf, EInv, Punctual
  <2>2. QED
    BY <1>2, <1>3, <1>4, <1>5, <2>1 DEF EInv, Cleared
<1>6. NewsIsFrom(j, S)
  BY <1>3, <1>5 DEF NewsIsFrom
<1>7. QED
  BY <1>3, <1>4, <1>6 DEF WindowsOf, MaintenanceOf

\* ... and neither a window nor a silence lasts as it leaves, whenever it began.
LEMMA LeavingIsAudible ==
  ASSUME WholeSeconds, IInv, EInv, Next, NEW j \in Leaving,
         NEW v \in MaintenanceOf(rows[j.row].alarm) \cup HushOf(rows[j.row].alarm)
  PROVE  ~(v.starts <= now /\ now < EffectiveEnd(v))
<1>1. PICK a : a = rows[j.row].alarm
  OBVIOUS
<1>2. ~SuppressedFor(alarms[a].device, a, now)
  BY <1>1, LeavingWasClaimed DEF Blocked, Suppressed
<1>3. now \in Nat
  BY NowIsNat DEF IInv
<1>4. ~InForce(v, now)
  BY <1>1, <1>2 DEF SuppressedFor, MaintenanceOf, HushOf
<1>5. Sound(v, now)
  BY DEF EInv, Story, Dated, MaintenanceOf, HushOf
<1>6. QED
  BY <1>3, <1>4, <1>5, ForceIsBetween

\* In whole seconds: nothing leaves while a window of its device or a silence
\* of its alarm lasts, also one that began after the claim (preflight); and
\* what was queued before or within a window that had begun at the claim does
\* not leave at all, whatever was down, cancelled or waiting for a retry
\* meanwhile (capture_maintenance before claim).
THEOREM MaintenanceIsRespected ==
  ASSUME WholeSeconds
  PROVE  Spec => SendsRespectMaintenance
<1>1. IInv /\ EInv /\ [Next]_vars
      => [\A j \in Leaving :
            LET a == rows[j.row].alarm
            IN  /\ NewsIsFrom(j, MaintenanceOf(a))
                /\ \A v \in MaintenanceOf(a) \cup HushOf(a) :
                     ~(v.starts <= now /\ now < EffectiveEnd(v))]_vars
  BY LeavingIsClear, LeavingIsAudible
<1>2. QED
  BY <1>1, EpisodeInvariance, PTL DEF Spec, SendsRespectMaintenance
-----------------------------------------------------------------------------
\* In whole seconds, maintenance is [start, end): what the WHERE clause of
\* suppression_reason finds is exactly the windows that docs/operations.md
\* describes.  Fractions are all that the run OutboxSeconds turns on.
THEOREM WindowsAreExact ==
  ASSUME WholeSeconds
  PROVE  Spec => []WindowsAreHalfOpen
<1>1. IInv /\ EInv => WindowsAreHalfOpen
  <2>1. SUFFICES ASSUME IInv, EInv, NEW w \in DOMAIN windows
                 PROVE  InForce(windows[w], now) <=>
                          windows[w].starts <= now /\ now < EffectiveEnd(windows[w])
    BY DEF WindowsAreHalfOpen
  <2>2. now \in Nat
    BY <2>1, NowIsNat DEF IInv
  <2>3. Sound(windows[w], now)
    BY <2>1 DEF EInv, Story, Dated
  <2>4. QED
    BY <2>2, <2>3, ForceIsBetween
<1>2. QED
  BY <1>1, EpisodeInvariance, PTL
-----------------------------------------------------------------------------
(***************************************************************************)
(* Who was told of an outage is told of its end.                           *)
(***************************************************************************)
\* Row r is the suppressed news of an end, and no silence touched its alarm.
Hidden(r, ss) ==
  /\ r.type \in Resolution /\ r.status = "suppressed"
  /\ \A s \in DOMAIN ss : ss[s].alarm # r.alarm

Same(r, s) == r.alarm = s.alarm /\ r.ident = s.ident

\* A window began after row r was queued and before its alarm ended.
Swallowed(r, as, ws) ==
  \E v \in WindowsOf(r.alarm, as, ws) :
    Effective(v) /\ v.starts <= as[r.alarm].ended /\ r.created <= v.starts

\* While the end is hidden, the outage that is still to be told will be
\* captured by a window.
Quenched(rs, as, ws, ss) ==
  Lasting(ws, ss) =>
  \A i, k \in DOMAIN rs :
    /\ Hidden(rs[i], ss)
    /\ rs[k].alarm = rs[i].alarm /\ rs[k].type \in Outage /\ rs[k].status \in Active
    => Swallowed(rs[k], as, ws)

\* The end in row i: its target was told of no outage, or another row tells it.
Answers(rs, i) ==
  \/ \A k \in DOMAIN rs : Same(rs[k], rs[i]) /\ rs[k].type \in Outage => ~Told(rs[k])
  \/ \E k \in DOMAIN rs : /\ Same(rs[k], rs[i]) /\ rs[k].type \in Resolution
                          /\ rs[k].status = "suppressed" => ~rs[k].settled

Answered(rs, as, ws, ss) ==
  Lasting(ws, ss) =>
  \A i \in DOMAIN rs :
    Hidden(rs[i], ss) /\ rs[i].settled /\ as[rs[i].alarm].status = "resolved" => Answers(rs, i)

\* A summary names the settled row that it was made for.
Keyed(rs) ==
  \A i \in DOMAIN rs :
    /\ rs[i].key[1] = "reconcile" => rs[i].key[2] \in DOMAIN rs /\ rs[rs[i].key[2]].settled
    /\ rs[i].key[1] = "resolved" => rs[i].type \in Resolution

\* The end of an alarm was queued.
Finished(rs, as) ==
  \A a \in DOMAIN as :
    as[a].status = "resolved" => \E i \in DOMAIN rs : rs[i].alarm = a /\ rs[i].type \in Resolution

RInv ==
  /\ Quenched(rows, alarms, windows, silences)
  /\ Answered(rows, alarms, windows, silences)
  /\ Keyed(rows)
  /\ Finished(rows, alarms)

\* What an alarm that is over keeps while the tables move.
LEMMA OverStays ==
  ASSUME NEW as, NEW at, NEW t, AlarmsMove(as, at, t), NEW a \in DOMAIN as,
         as[a].ended # Never
  PROVE  at[a].ended = as[a].ended /\ at[a].status = as[a].status
BY DEF AlarmsMove

LEMMA HiddenBefore ==
  ASSUME NEW as, NEW ss, NEW st, NEW t, SilencesMove(ss, st, as, t),
         NEW r, NEW s, SameNews(r, s), r.status = "suppressed", Hidden(s, st)
  PROVE  Hidden(r, ss)
BY DEF SilencesMove, Hidden, SameNews

\* A window that swallows a row of an alarm that is over goes on doing so.
LEMMA SwallowedStays ==
  ASSUME NEW rs, NEW as, NEW at, NEW ws, NEW wt, NEW ss, NEW st, NEW t \in Nat,
         Dated(rs, as, ws, ss, t), Lasting(wt, st),
         AlarmsMove(as, at, t), WindowsMove(ws, wt, t), SilencesMove(ss, st, as, t),
         NEW r, NEW s, SameNews(r, s), r.alarm \in DOMAIN as, as[r.alarm].ended \in Nat \ {0},
         Swallowed(r, as, ws)
  PROVE  Swallowed(s, at, wt)
<1>1. PICK a \in DOMAIN as : a = r.alarm
  OBVIOUS
<1>2. PICK v \in WindowsOf(a, as, ws) :
        Effective(v) /\ v.starts <= as[a].ended /\ r.created <= v.starts
  BY <1>1 DEF Swallowed
<1>3. as[a].ended \in Nat /\ as[a].ended <= t /\ v.starts \in Nat
  BY <1>1, IntervalsAreSound DEF Dated, Sound
<1>4. v.starts <= t
  <2>1. \A x, y, z \in Nat : x <= y /\ y <= z => x <= z
    OBVIOUS
  <2>2. QED
    BY <1>2, <1>3, <2>1
<1>5. PICK u \in WindowsOf(a, at, wt) : Later(v, u, t) /\ Effective(u)
  BY <1>2, <1>4, IntervalsStay
<1>6. at[a].ended = as[a].ended
  BY <1>1, OverStays DEF Never
<1>7. u.starts = v.starts /\ s.alarm = a /\ s.created = r.created
  BY <1>1, <1>5 DEF Later, SameNews
<1>8. QED
  BY <1>2, <1>5, <1>6, <1>7 DEF Swallowed

\* A row that a request may add: it settles nothing and summarises nothing.
Plain(r, as) ==
  /\ r.key[1] # "reconcile"
  /\ r.key[1] = "resolved" => r.type \in Resolution
  /\ r.status = "suppressed" => ~r.settled
  /\ r.type \in Outage /\ Told(r) => as[r.alarm].status = "open"

\* A step that settles nothing; what it hides has quenched the outage.
LEMMA StepAnswers ==
  ASSUME IInv, EInv, RInv, Good,
         AlarmsMove(alarms, alarms', now), WindowsMove(windows, windows', now),
         SilencesMove(silences, silences', alarms, now),
         \A i \in DOMAIN rows : rows'[i].settled => rows[i].settled,
         \A i \in DOMAIN rows' \ DOMAIN rows : Plain(rows'[i], alarms'),
         \A i, k \in DOMAIN rows' :
           /\ i \in DOMAIN rows => rows[i].status # "suppressed"
           /\ Hidden(rows'[i], silences')
           /\ rows'[k].alarm = rows'[i].alarm /\ rows'[k].type \in Outage
           /\ rows'[k].status \in Active
           => Swallowed(rows'[k], alarms', windows'),
         Finished(rows', alarms')
  PROVE  RInv'
<1>1. /\ Dated(rows, alarms, windows, silences, now) /\ now \in Nat
      /\ Typed(rows, alarms, now)
  BY RowsAreTyped, NowIsNat DEF EInv, Story, IInv, Rest, Queue
<1>2. ASSUME NEW i \in DOMAIN rows
      PROVE  /\ i \in DOMAIN rows' /\ SameNews(rows[i], rows'[i])
             /\ Told(rows'[i]) => Told(rows[i])
             /\ rows'[i].status \in Active => rows[i].status \in Active
             /\ rows[i].settled => rows'[i] = rows[i]
  BY LedgerKeeps DEF Good, IInv, Ledger, LedgerRow, Keeps
<1>3. ASSUME NEW i \in DOMAIN rows'
      PROVE  /\ rows'[i].alarm \in DOMAIN alarms'
             /\ rows'[i].type \in Resolution => alarms'[rows'[i].alarm].status # "open"
             /\ rows'[i] \in Message
  BY DEF Good, IInv, Queue, RowsOK, RowOK
<1>4. ASSUME NEW i \in DOMAIN rows, rows[i].type \in Resolution
      PROVE  /\ rows[i].alarm \in DOMAIN alarms
             /\ alarms[rows[i].alarm].ended # Never
             /\ alarms[rows[i].alarm].ended \in Nat
             /\ alarms'[rows[i].alarm].status = alarms[rows[i].alarm].status
  <2>1. /\ rows[i].alarm \in DOMAIN alarms /\ alarms[rows[i].alarm].status # "open"
    BY <1>4 DEF IInv, Queue, RowsOK, RowOK
  <2>2. alarms[rows[i].alarm].ended # Never
    BY <1>1, <2>1 DEF Dated
  <2>3. QED
    BY <1>1, <2>1, <2>2, OverStays, TypedFacts
<1>5. ASSUME Lasting(windows', silences')
      PROVE  Lasting(windows, silences)
  BY <1>1, <1>5, LastingBefore
<1>6. ASSUME Lasting(windows', silences'), NEW i \in DOMAIN rows', NEW k \in DOMAIN rows',
             Hidden(rows'[i], silences'),
             rows'[k].alarm = rows'[i].alarm, rows'[k].type \in Outage,
             rows'[k].status \in Active
      PROVE  Swallowed(rows'[k], alarms', windows')
  <2>1. CASE i \in DOMAIN rows /\ rows[i].status = "suppressed" /\ k \in DOMAIN rows
    <3>1. Hidden(rows[i], silences)
      BY <1>2, <1>6, <2>1, HiddenBefore
    <3>2. /\ rows[k].alarm = rows[i].alarm /\ rows[k].type \in Outage
          /\ rows[k].status \in Active
      BY <1>2, <1>6, <2>1 DEF SameNews
    <3>3. Swallowed(rows[k], alarms, windows)
      BY <1>5, <1>6, <2>1, <3>1, <3>2 DEF RInv, Quenched
    <3>4. /\ rows[k].alarm \in DOMAIN alarms /\ alarms[rows[k].alarm].ended \in Nat \ {0}
      BY <1>4, <2>1, <3>1, <3>2 DEF Hidden, Never
    <3>5. SameNews(rows[k], rows'[k])
      BY <1>2, <2>1
    <3>6. QED
      BY <1>1, <1>6, <3>3, <3>4, <3>5, SwallowedStays
  <2>2. CASE k \notin DOMAIN rows
    <3>1. alarms'[rows'[k].alarm].status = "open"
      BY <1>6, <2>2 DEF Plain, Told
    <3>2. QED
      BY <1>3, <1>6, <3>1 DEF Hidden
  <2>3. QED
    BY <1>6, <2>1, <2>2
<1>7. ASSUME Lasting(windows', silences'), NEW i \in DOMAIN rows',
             Hidden(rows'[i], silences'), rows'[i].settled,
             alarms'[rows'[i].alarm].status = "resolved"
      PROVE  Answers(rows', i)
  <2>1. i \in DOMAIN rows
    BY <1>7 DEF Hidden, Plain
  <2>2. rows[i].settled /\ rows'[i] = rows[i]
    BY <1>2, <1>7, <2>1
  <2>3. Hidden(rows[i], silences)
    BY <1>2, <1>7, <2>1, <2>2, HiddenBefore DEF Hidden
  <2>4. Answers(rows, i)
    BY <1>4, <1>5, <1>7, <2>1, <2>2, <2>3 DEF RInv, Answered, Hidden
  <2>5. ASSUME NEW k \in DOMAIN rows', Same(rows'[k], rows'[i]), rows'[k].type \in Outage,
               Told(rows'[k]),
               \A m \in DOMAIN rows : Same(rows[m], rows[i]) /\ rows[m].type \in Outage
                                      => ~Told(rows[m])
        PROVE  FALSE
    <3>1. CASE k \in DOMAIN rows
      BY <1>2, <2>2, <2>5, <3>1 DEF Same, SameNews
    <3>2. CASE k \notin DOMAIN rows
      <4>1. alarms'[rows'[k].alarm].status = "open"
        BY <2>5, <3>2 DEF Plain
      <4>2. QED
        BY <1>7, <2>5, <4>1 DEF Same
    <3>3. QED
      BY <3>1, <3>2
  <2>6. ASSUME NEW k \in DOMAIN rows, Same(rows[k], rows[i]), rows[k].type \in Resolution,
               rows[k].status = "suppressed" => ~rows[k].settled
        PROVE  /\ k \in DOMAIN rows' /\ Same(rows'[k], rows'[i]) /\ rows'[k].type \in Resolution
               /\ rows'[k].status = "suppressed" => ~rows'[k].settled
    BY <1>2, <2>2, <2>6 DEF Same, SameNews
  <2>7. QED
    BY <2>4, <2>5, <2>6 DEF Answers
<1>8. ASSUME NEW i \in DOMAIN rows'
      PROVE  /\ rows'[i].key[1] = "reconcile"
                => rows'[i].key[2] \in DOMAIN rows' /\ rows'[rows'[i].key[2]].settled
             /\ rows'[i].key[1] = "resolved" => rows'[i].type \in Resolution
  <2>1. CASE i \in DOMAIN rows
    BY <1>2, <2>1 DEF RInv, Keyed, SameNews
  <2>2. CASE i \notin DOMAIN rows
    BY <2>2 DEF Plain
  <2>3. QED
    BY <2>1, <2>2
<1>9. QED
  <2>1. Quenched(rows', alarms', windows', silences')
    BY <1>6 DEF Quenched
  <2>2. Answered(rows', alarms', windows', silences')
    BY <1>7 DEF Answered
  <2>3. Keyed(rows')
    BY <1>8 DEF Keyed
  <2>4. QED
    BY <2>1, <2>2, <2>3 DEF RInv

LEMMA TablesAnswer ==
  ASSUME IInv, EInv, RInv, Good, rows' = rows,
         AlarmsMove(alarms, alarms', now), WindowsMove(windows, windows', now),
         SilencesMove(silences, silences', alarms, now),
         \A a \in DOMAIN alarms' :
           alarms'[a].status = "resolved" => a \in DOMAIN alarms /\ alarms[a].status = "resolved"
  PROVE  RInv'
<1>1. \A i \in DOMAIN rows' : rows'[i].status = "suppressed" => rows[i].status = "suppressed"
  OBVIOUS
<1>2. Finished(rows', alarms')
  BY DEF RInv, Finished
<1>3. QED
  BY <1>1, <1>2, StepAnswers DEF Hidden

\* What a dispatch suppresses was the first message that was still to go.
LEMMA RowsAnswer ==
  ASSUME IInv, EInv, RInv, Good, UNCHANGED <<alarms, windows, silences>>,
         DOMAIN rows' \subseteq DOMAIN rows,
         \A i \in DOMAIN rows :
           /\ rows'[i].settled => rows[i].settled
           /\ rows'[i].status = "suppressed" => rows[i].status \in {"suppressed", "sending"}
  PROVE  RInv'
<1>1. /\ Keeps(rows, rows') /\ rows \in Seq(Message) /\ DOMAIN rows' = DOMAIN rows
      /\ \A i \in DOMAIN rows : rows'[i].status \in Active => rows[i].status \in Active
  BY LedgerKeeps DEF Good, IInv, Queue, RowsOK, Keeps
<1>2. ASSUME NEW i \in DOMAIN rows, NEW k \in DOMAIN rows, rows[i].status = "sending",
             rows[i].type \in Resolution, rows[k].type \in Outage,
             rows[k].alarm = rows[i].alarm, rows[k].status \in Active
      PROVE  FALSE
  <2>1. i <= k
    BY <1>2 DEF IInv, Queue, FirstSending
  <2>2. i # k
    BY <1>2 DEF Outage, Resolution
  <2>3. i < k
    <3>1. DOMAIN rows \subseteq Nat
      BY <1>1
    <3>2. i \in Nat /\ k \in Nat
      BY <3>1
    <3>3. QED
      BY <2>1, <2>2, <3>2
  <2>4. rows[k].status \in Quiet
    BY <1>2, <2>3 DEF IInv, Queue, RowsOK, Ordered
  <2>5. QED
    BY <1>2, <2>4 DEF Quiet, Active
<1>3. ASSUME NEW i \in DOMAIN rows', NEW k \in DOMAIN rows',
             i \in DOMAIN rows => rows[i].status # "suppressed",
             Hidden(rows'[i], silences'),
             rows'[k].alarm = rows'[i].alarm, rows'[k].type \in Outage,
             rows'[k].status \in Active
      PROVE  FALSE
  <2>1. rows[i].status = "sending" /\ rows[k].status \in Active
    BY <1>1, <1>3 DEF Hidden
  <2>2. /\ rows[i].type \in Resolution /\ rows[k].type \in Outage
        /\ rows[k].alarm = rows[i].alarm
    BY <1>1, <1>3 DEF Keeps, SameNews, Hidden
  <2>3. QED
    BY <1>1, <1>2, <2>1, <2>2
<1>4. Finished(rows', alarms')
  BY <1>1 DEF RInv, Finished, Keeps, SameNews
<1>5. QED
  BY <1>1, <1>3, <1>4, TablesStay, StepAnswers

LEMMA RecoverAnswers ==
  ASSUME IInv, EInv, RInv, Good, NEW limit, rows' = RecoveredRows(limit),
         UNCHANGED <<alarms, windows, silences>>
  PROVE  RInv'
<1>1. DOMAIN rows' = DOMAIN rows /\ \A i \in DOMAIN rows : rows[i] \in Message
  <2>1. DOMAIN rows' = DOMAIN rows
    BY DEF RecoveredRows
  <2>2. rows \in Seq(Message)
    BY DEF IInv, Queue, RowsOK
  <2>3. QED
    BY <2>1, <2>2
<1>2. ASSUME NEW i \in DOMAIN rows
      PROVE  /\ rows'[i].settled => rows[i].settled
             /\ rows'[i].status = "suppressed" => rows[i].status \in {"suppressed", "sending"}
  <2>1. PICK r \in Message : r = rows[i]
    BY <1>1
  <2>2. PICK next : next = now + Backoff(r.attempts)
    OBVIOUS
  <2>3. \/ rows'[i] = r
        \/ rows'[i] = [r EXCEPT !.status = "failed", !.next = Never]
        \/ rows'[i] = [r EXCEPT !.status = "retry", !.next = next]
    BY <2>1, <2>2 DEF RecoveredRows
  <2>4. QED
    BY <2>1, <2>3 DEF Message
<1>3. QED
  BY <1>1, <1>2, RowsAnswer

LEMMA DispatchAnswers ==
  ASSUME IInv, EInv, RInv, Good, NEW j \in work, Dispatch(j)
  PROVE  RInv'
<1>1. UNCHANGED <<alarms, windows, silences>>
  BY DEF Dispatch, Preflight, Accept, CompleteOk, CompleteError, feed
<1>2. PICK i \in DOMAIN rows : i = j.row /\ rows[i].status = "sending"
  BY JobFacts
<1>3. PICK q \in Message : q = rows[i]
  BY <1>2, JobFacts
<1>4. PICK n : n = q.attempts + 1
  OBVIOUS
<1>5. \/ rows' = rows
      \/ \E status, next : Leave(j, status, next)
      \/ rows' = [rows EXCEPT ![i].status = "suppressed", ![i].next = Never,
                              ![i].settled = FALSE]
      \/ StartSending(j)
  <2>1. CASE Preflight(j)
    BY <1>2, <2>1 DEF Preflight
  <2>2. CASE Accept(j)
    BY <2>2 DEF Accept
  <2>3. CASE CompleteOk(j)
    BY <2>3 DEF CompleteOk
  <2>4. CASE CompleteError(j)
    BY <2>4 DEF CompleteError
  <2>5. QED
    BY <2>1, <2>2, <2>3, <2>4 DEF Dispatch
<1>6. PICK r : rows' = [rows EXCEPT ![i] = r] /\ (r.settled => q.settled)
  <2>1. CASE rows' = rows
    <3>1. rows = [rows EXCEPT ![i] = q]
      BY <1>3 DEF IInv, Queue, RowsOK
    <3>2. QED
      BY <2>1, <3>1
  <2>2. ASSUME NEW status, NEW next, Leave(j, status, next)
        PROVE  \E r : rows' = [rows EXCEPT ![i] = r] /\ (r.settled => q.settled)
    <3>1. PICK r : r = [q EXCEPT !.status = status, !.next = next]
      OBVIOUS
    <3>2. r.settled = q.settled
      BY <3>1 DEF Message
    <3>3. rows' = [rows EXCEPT ![i] = r]
      BY <1>2, <1>3, <2>2, <3>1 DEF Leave
    <3>4. QED
      BY <3>2, <3>3
  <2>3. CASE rows' = [rows EXCEPT ![i].status = "suppressed", ![i].next = Never,
                                  ![i].settled = FALSE]
    <3>1. PICK r : r = [q EXCEPT !.status = "suppressed", !.next = Never, !.settled = FALSE]
      OBVIOUS
    <3>2. ~r.settled
      BY <3>1 DEF Message
    <3>3. rows' = [rows EXCEPT ![i] = r]
      BY <1>3, <2>3, <3>1
    <3>4. QED
      BY <3>2, <3>3
  <2>4. CASE StartSending(j)
    <3>1. PICK r : r = [q EXCEPT !.attempts = n]
      OBVIOUS
    <3>2. r.settled = q.settled
      BY <3>1 DEF Message
    <3>3. rows' = [rows EXCEPT ![i] = r]
      BY <1>2, <1>3, <1>4, <2>4, <3>1 DEF StartSending
    <3>4. QED
      BY <3>2, <3>3
  <2>5. QED
    BY <1>5, <2>1, <2>2, <2>3, <2>4
<1>7. /\ DOMAIN rows' = DOMAIN rows
      /\ \A k \in DOMAIN rows : rows'[k] = IF k = i THEN r ELSE rows[k]
  BY <1>6 DEF IInv, Queue, RowsOK
<1>8. QED
  BY <1>1, <1>2, <1>3, <1>6, <1>7, RowsAnswer

\* A request that queues a message.
LEMMA InsertAnswers ==
  ASSUME IInv, EInv, RInv, Good, NEW r, rows' = Insert(rows, r),
         AlarmsMove(alarms, alarms', now), WindowsMove(windows, windows', now),
         SilencesMove(silences, silences', alarms, now),
         Plain(r, alarms'),
         \A k \in DOMAIN rows :
           /\ Hidden(r, silences')
           /\ rows[k].alarm = r.alarm /\ rows[k].type \in Outage /\ rows[k].status \in Active
           => Swallowed(rows[k], alarms', windows'),
         \A a \in DOMAIN alarms' :
           alarms'[a].status = "resolved"
           => \/ a \in DOMAIN alarms /\ alarms[a].status = "resolved"
              \/ a = r.alarm /\ r.key[1] = "resolved"
  PROVE  RInv'
<1>1. /\ DOMAIN rows \subseteq DOMAIN rows' /\ \A i \in DOMAIN rows : rows'[i] = rows[i]
      /\ \A k \in DOMAIN rows' \ DOMAIN rows : rows'[k] = r
      /\ Known(rows, r) \/ \E k \in DOMAIN rows' : rows'[k] = r
  BY InsertSays DEF IInv, Queue, RowsOK
<1>2. ASSUME NEW i \in DOMAIN rows', NEW k \in DOMAIN rows',
             i \in DOMAIN rows => rows[i].status # "suppressed",
             Hidden(rows'[i], silences'),
             rows'[k].alarm = rows'[i].alarm, rows'[k].type \in Outage,
             rows'[k].status \in Active
      PROVE  Swallowed(rows'[k], alarms', windows')
  <2>1. rows'[i] = r
    BY <1>1, <1>2 DEF Hidden
  <2>2. k \in DOMAIN rows /\ rows'[k] = rows[k]
    BY <1>1, <1>2, <2>1 DEF Hidden, Outage, Resolution
  <2>3. QED
    BY <1>2, <2>1, <2>2
<1>3. ASSUME NEW a \in DOMAIN alarms', alarms'[a].status = "resolved"
      PROVE  \E i \in DOMAIN rows' : rows'[i].alarm = a /\ rows'[i].type \in Resolution
  <2>1. CASE a \in DOMAIN alarms /\ alarms[a].status = "resolved"
    BY <1>1, <2>1 DEF RInv, Finished
  <2>2. CASE a = r.alarm /\ r.key[1] = "resolved"
    <3>1. CASE Known(rows, r)
      <4>1. PICK i \in DOMAIN rows : rows[i].alarm = r.alarm /\ rows[i].key = r.key
        BY <3>1 DEF Known
      <4>2. QED
        BY <1>1, <2>2, <4>1 DEF RInv, Keyed
    <3>2. CASE \E k \in DOMAIN rows' : rows'[k] = r
      BY <2>2, <3>2 DEF Plain
    <3>3. QED
      BY <1>1, <3>1, <3>2
  <2>3. QED
    BY <1>3, <2>1, <2>2
<1>4. Finished(rows', alarms')
  BY <1>3 DEF Finished
<1>5. QED
  BY <1>1, <1>2, <1>4, StepAnswers

LEMMA SilenceAlarmAnswers ==
  ASSUME IInv, EInv, RInv, Good, NEW a \in DOMAIN alarms, NEW ends \in 1 .. MaxTime,
         SilenceAlarm(a, ends)
  PROVE  RInv'
<1>1. UNCHANGED <<alarms, windows>> /\ SilencesMove(silences, silences', alarms, now)
  BY SilenceAlarmMoves DEF SilenceAlarm, feed
<1>2. PICK r : r = Row(a, alarms[a].probe, "current_status", <<"silence", Len(silences) + 1>>,
                       config.delivery, TRUE)
  OBVIOUS
<1>3. rows' = Insert(rows, r)
  BY <1>2 DEF SilenceAlarm
<1>4. PICK hushed \in BOOLEAN : hushed
  OBVIOUS
<1>5. r = Row(a, alarms[a].probe, "current_status", <<"silence", Len(silences) + 1>>,
              config.delivery, hushed)
  BY <1>2, <1>4
<1>6. /\ r.type = "current_status" /\ r.key = <<"silence", Len(silences) + 1>>
      /\ Told(r) => ~hushed
      /\ r.status = "suppressed" => ~r.settled
  BY <1>5, RowSays
<1>7. Plain(r, alarms') /\ ~Hidden(r, silences') /\ r.key[1] = "silence"
  BY <1>4, <1>6 DEF Plain, Hidden, Resolution
<1>8. QED
  BY <1>1, <1>3, <1>7, TablesStay, InsertAnswers

\* The news of an outage is from before the begin of a window in force.
LEMMA ForceSwallows ==
  ASSUME WholeSeconds, NEW rs, NEW as, NEW ss, NEW t \in Nat, NEW k \in DOMAIN rs,
         Dated(rs, as, windows, ss, t), Unhushed(rs, as, windows, ss), Told(rs[k]),
         rs[k].created \in Nat, as[rs[k].alarm].ended = t,
         NEW w \in DOMAIN windows, windows[w].device = as[rs[k].alarm].device,
         InForce(windows[w], t)
  PROVE  Swallowed(rs[k], as, windows)
<1>1. PICK v : v = windows[w]
  OBVIOUS
<1>2. Sound(v, t) /\ rs[k].created <= t
  BY <1>1 DEF Dated
<1>3. /\ v.starts \in Nat /\ EffectiveEnd(v) \in Nat
      /\ v.starts <= t /\ t < EffectiveEnd(v)
  BY <1>1, <1>2, EndIsNatural, ForceIsBetween DEF Sound
<1>4. v \in WindowsOf(rs[k].alarm, as, windows) /\ Effective(v)
  <2>1. \A x, z \in Nat : x <= t /\ t < z => x < z
    OBVIOUS
  <2>2. Effective(v)
    BY <1>3, <2>1 DEF Effective
  <2>3. QED
    BY <1>1, <2>2 DEF WindowsOf
<1>5. v.starts < rs[k].created => EffectiveEnd(v) <= rs[k].created
  BY <1>4 DEF Unhushed
<1>6. rs[k].created <= v.starts
  <2>1. \A c, x, z \in Nat : c <= t /\ t < z /\ (x < c => z <= c) => c <= x
    OBVIOUS
  <2>2. QED
    BY <1>2, <1>3, <1>5, <2>1
<1>7. QED
  BY <1>3, <1>4, <1>6 DEF Swallowed

\* What a silence hides no window needs to swallow.
LEMMA SuppressedByWindow ==
  ASSUME NEW d, NEW a, NEW t, SuppressedFor(d, a, t), \A s \in DOMAIN silences : silences[s].alarm # a
  PROVE  \E w \in DOMAIN windows : windows[w].device = d /\ InForce(windows[w], t)
BY DEF SuppressedFor

LEMMA OpenedAnswers ==
  ASSUME IInv, EInv, RInv, Good, NEW d \in Devices, NEW v \in Alarm,
         v.device = d, v.status = "open", v.opened = now, v.ended = Never,
         alarms' = Append(alarms, v),
         rows' = Insert(rows, Row(Len(alarms) + 1, config.probe, "opened", <<"opened", 0>>,
                                  config.delivery, SuppressedFor(d, Len(alarms) + 1, now))),
         UNCHANGED <<windows, silences>>
  PROVE  RInv'
<1>1. alarms \in Seq(Alarm)
  BY DEF IInv, Rest
<1>2. PICK a : a = Len(alarms) + 1
  OBVIOUS
<1>3. /\ DOMAIN alarms \subseteq DOMAIN alarms' /\ a \in DOMAIN alarms' /\ alarms'[a] = v
      /\ \A b \in DOMAIN alarms : alarms'[b] = alarms[b]
      /\ \A b \in DOMAIN alarms' \ DOMAIN alarms : alarms'[b] = v
  BY <1>1, <1>2
<1>4. AlarmsMove(alarms, alarms', now)
  BY <1>3 DEF AlarmsMove
<1>5. PICK r : r = Row(a, config.probe, "opened", <<"opened", 0>>, config.delivery,
                       SuppressedFor(d, a, now))
  OBVIOUS
<1>6. /\ r.alarm = a /\ r.type = "opened" /\ r.key = <<"opened", 0>>
      /\ r.status = "suppressed" => ~r.settled
  BY <1>5, RowSays
<1>7. Plain(r, alarms') /\ ~Hidden(r, silences')
  BY <1>3, <1>6 DEF Plain, Hidden, Resolution
<1>8. QED
  BY <1>2, <1>3, <1>4, <1>5, <1>7, TablesStay, InsertAnswers

LEMMA ResolvedAnswers ==
  ASSUME WholeSeconds, IInv, EInv, RInv, Good, EInv',
         NEW a \in DOMAIN alarms, alarms[a].status = "open",
         alarms' = [alarms EXCEPT ![a].status = "resolved", ![a].ended = now],
         rows' = Insert(rows, Row(a, config.probe, "resolved", <<"resolved", 0>>,
                                  config.delivery, Suppressed(a))),
         UNCHANGED <<now, windows, silences>>
  PROVE  RInv'
<1>1. /\ now \in Nat /\ alarms \in Seq(Alarm)
      /\ Dated(rows, alarms, windows, silences, now)
  BY NowIsNat DEF IInv, Rest, EInv, Story
<1>2. PICK v \in Alarm : v = alarms[a]
  BY <1>1
<1>3. PICK u : u = [v EXCEPT !.status = "resolved", !.ended = now]
  OBVIOUS
<1>4. /\ u.device = v.device /\ u.opened = v.opened
      /\ u.status = "resolved" /\ u.ended = now
  BY <1>3 DEF Alarm
<1>5. /\ DOMAIN alarms' = DOMAIN alarms /\ alarms'[a] = u
      /\ \A b \in DOMAIN alarms \ {a} : alarms'[b] = alarms[b]
  BY <1>1, <1>2, <1>3
<1>6. AlarmsMove(alarms, alarms', now)
  <2>1. v.ended = Never
    BY <1>1, <1>2 DEF Dated
  <2>2. QED
    BY <1>2, <1>4, <1>5, <2>1 DEF AlarmsMove
<1>7. PICK r : r = Row(a, config.probe, "resolved", <<"resolved", 0>>, config.delivery,
                       Suppressed(a))
  OBVIOUS
<1>8. /\ r.alarm = a /\ r.type = "resolved" /\ r.key = <<"resolved", 0>>
      /\ r.status = "suppressed" => Suppressed(a) /\ ~r.settled
  BY <1>7, RowSays
<1>9. Plain(r, alarms')
  BY <1>8 DEF Plain, Outage, Resolution
<1>10. ASSUME NEW k \in DOMAIN rows, Hidden(r, silences'),
              rows[k].alarm = r.alarm, rows[k].type \in Outage, rows[k].status \in Active
       PROVE  Swallowed(rows[k], alarms', windows')
  <2>1. \E w \in DOMAIN windows : windows[w].device = v.device /\ InForce(windows[w], now)
    <3>1. SuppressedFor(v.device, a, now) /\ \A s \in DOMAIN silences : silences[s].alarm # a
      BY <1>2, <1>8, <1>10 DEF Hidden, Suppressed
    <3>2. QED
      BY <3>1, SuppressedByWindow
  <2>2. PICK w \in DOMAIN windows : windows[w].device = v.device /\ InForce(windows[w], now)
    BY <2>1
  <2>3. PICK rs, as : rs = rows' /\ as = alarms'
    OBVIOUS
  <2>4. Dated(rs, as, windows, silences, now) /\ Unhushed(rs, as, windows, silences)
    BY <2>3 DEF EInv, Story
  <2>5. k \in DOMAIN rs /\ rs[k] = rows[k]
    BY <2>3, InsertSays DEF IInv, Queue, RowsOK
  <2>6. /\ Told(rs[k]) /\ rs[k].created \in Nat
    <3>1. rows[k] \in Message
      BY DEF IInv, Queue, RowsOK
    <3>2. QED
      BY <1>10, <2>5, <3>1 DEF Told, Message
  <2>7. as[rs[k].alarm].ended = now /\ windows[w].device = as[rs[k].alarm].device
    BY <1>4, <1>5, <1>8, <1>10, <2>2, <2>3, <2>5
  <2>8. Swallowed(rs[k], as, windows)
    BY <1>1, <2>2, <2>4, <2>5, <2>6, <2>7, ForceSwallows
  <2>9. QED
    BY <2>3, <2>5, <2>8
<1>11. \A b \in DOMAIN alarms' :
         alarms'[b].status = "resolved"
         => \/ b \in DOMAIN alarms /\ alarms[b].status = "resolved"
            \/ b = r.alarm /\ r.key[1] = "resolved"
  BY <1>5, <1>8
<1>12. QED
  BY <1>6, <1>7, <1>9, <1>10, <1>11, TablesStay, InsertAnswers

LEMMA MeasureAnswers ==
  ASSUME WholeSeconds, IInv, EInv, RInv, Good, EInv', NEW d \in Devices,
         NEW outcome \in Outcomes, Measure(d, outcome)
  PROVE  RInv'
<1>1. UNCHANGED <<now, process, windows, silences>> /\ Rest /\ alarms \in Seq(Alarm)
  BY DEF Measure, IInv, Rest
<1>2. CASE UNCHANGED <<alarms, rows>>
  BY <1>1, <1>2, TablesStay, TablesAnswer
<1>3. CASE \E a \in DOMAIN alarms :
             /\ alarms[a].status = "open"
             /\ alarms' = [alarms EXCEPT ![a].status = "resolved", ![a].ended = now]
             /\ rows' = Insert(rows, Row(a, config.probe, "resolved", <<"resolved", 0>>,
                                         config.delivery, Suppressed(a)))
  BY <1>1, <1>3, ResolvedAnswers
<1>4. CASE /\ alarms' = Append(alarms, [device |-> d, ip |-> device[d].ip,
                                        probe |-> config.probe, status |-> "open",
                                        opened |-> now, ended |-> Never])
           /\ LET a == Len(alarms) + 1
              IN  rows' = Insert(rows, Row(a, config.probe, "opened", <<"opened", 0>>,
                                           config.delivery, SuppressedFor(d, a, now)))
  <2>1. PICK v : v = [device |-> d, ip |-> device[d].ip, probe |-> config.probe,
                      status |-> "open", opened |-> now, ended |-> Never]
    OBVIOUS
  <2>2. v \in Alarm
    <3>1. /\ device[d].ip \in Addresses /\ config.probe \in Probes \cup {Simulator}
          /\ now \in Nat /\ Never \in Nat
      BY <1>1, NowIsNat DEF Rest, Never
    <3>2. QED
      BY <2>1, <3>1 DEF Alarm
  <2>3. v.device = d /\ v.status = "open" /\ v.opened = now /\ v.ended = Never
    BY <2>1
  <2>4. alarms' = Append(alarms, v)
    BY <1>4, <2>1
  <2>5. QED
    BY <1>1, <1>4, <2>2, <2>3, <2>4, OpenedAnswers
<1>5. QED
  BY <1>2, <1>3, <1>4 DEF Measure

\* What a claim does to the rows: capture, reconcile, pick.
LEMMA ClaimSays ==
  ASSUME IInv, NEW captured, NEW told, NEW rs, NEW new, NEW picked,
         ClaimGoes(captured, told, rs, new, picked)
  PROVE  /\ DOMAIN rows \subseteq DOMAIN rs /\ DOMAIN rs \subseteq DOMAIN new
         /\ DOMAIN rows' = DOMAIN new
         /\ \A i \in DOMAIN new :
              /\ SameNews(new[i], rows'[i]) /\ rows'[i].settled = new[i].settled
              /\ rows'[i].status = "suppressed" <=> new[i].status = "suppressed"
              /\ rows'[i].status \in Active <=> new[i].status \in Active
              /\ rows'[i].status \in Success <=> new[i].status \in Success
         /\ \A i \in DOMAIN rs :
              /\ SameNews(rs[i], new[i])
              /\ new[i].status = "suppressed" => rs[i].status = "suppressed"
              /\ new[i].status \in Active \cup Success => rs[i] = new[i]
         /\ \A i \in DOMAIN rows :
              /\ SameNews(rows[i], rs[i]) /\ rs[i].settled = rows[i].settled
              /\ rs[i].status = "suppressed" => rows[i].status = "suppressed" \/ Captured(rows[i])
              /\ rs[i].status \in Active \cup Success => rows[i] = rs[i]
         /\ \A i \in DOMAIN rs \ DOMAIN rows :
              rs[i].type = "current_status" /\ rs[i].key[1] = "maintenance" /\ ~Told(rs[i])
         /\ \A i \in DOMAIN new \ DOMAIN rs :
              \E a \in Summarised(rs) : new[i] = SummaryRow(rs, a)
<1>1. /\ TypeOK /\ rows \in Seq(Message)
      /\ Grows(rows, rs, alarms) /\ rs \in Seq(Message)
      /\ Grows(rs, new, alarms) /\ new \in Seq(Message)
      /\ Picks(new, rows', picked)
  BY Types1, ClaimGrows DEF IInv, Queue, RowsOK
<1>2. PICK S, T : /\ S = {c \in Captures : ~Known(rows, CaptureRow(c))}
                  /\ T = {a \in Summarised(rs) : ~Known(rs, SummaryRow(rs, a))}
  OBVIOUS
<1>3. /\ \A i \in DOMAIN rows :
           rs[i] = IF Captured(rows[i]) THEN [rows[i] EXCEPT !.status = "suppressed"]
                                        ELSE rows[i]
      /\ \A k \in DOMAIN rs \ DOMAIN rows : \E c \in Captures : rs[k] = CaptureRow(c)
  <2>1. S \subseteq Captures /\ captured \in Listings(S) /\ rs = CapturedRows(captured)
    BY <1>2 DEF ClaimGoes
  <2>2. QED
    BY <1>1, <2>1, CapturedSays
<1>4. /\ \A i \in DOMAIN rs : new[i].status = "suppressed" => rs[i].status = "suppressed"
      /\ \A i \in DOMAIN new \ DOMAIN rs :
           \E a \in Summarised(rs) : new[i] = SummaryRow(rs, a)
  <2>1. T \subseteq Summarised(rs) /\ told \in Listings(T) /\ new = ReconciledRows(rs, told)
    BY <1>2 DEF ClaimGoes
  <2>2. QED
    BY <1>1, <2>1, ReconciledSays
<1>5. /\ DOMAIN rows \subseteq DOMAIN rs /\ DOMAIN rs \subseteq DOMAIN new
      /\ DOMAIN rows' = DOMAIN new
  BY <1>1 DEF Grows, Picks
<1>6. ASSUME NEW i \in DOMAIN new
      PROVE  /\ SameNews(new[i], rows'[i]) /\ rows'[i].settled = new[i].settled
             /\ rows'[i].status = "suppressed" <=> new[i].status = "suppressed"
             /\ rows'[i].status \in Active <=> new[i].status \in Active
             /\ rows'[i].status \in Success <=> new[i].status \in Success
  <2>1. CASE i \in picked
    <3>1. new[i].status \in {"pending", "retry"}
      BY <2>1 DEF ClaimGoes, Lowest, Ready
    <3>2. SameNews(new[i], rows'[i]) /\ rows'[i].settled = new[i].settled
      BY <1>1 DEF Picks
    <3>3. rows'[i].status = "sending"
      BY <1>1, <2>1 DEF Picks
    <3>4. QED
      BY <3>1, <3>2, <3>3 DEF Active, Success
  <2>2. CASE i \notin picked
    BY <1>1, <2>2 DEF Picks, SameNews
  <2>3. QED
    BY <2>1, <2>2
<1>7. ASSUME NEW i \in DOMAIN rs
      PROVE  /\ SameNews(rs[i], new[i])
             /\ new[i].status \in Active \cup Success => rs[i] = new[i]
  BY <1>1 DEF Grows, Turns, Active, Success
<1>8. ASSUME NEW i \in DOMAIN rows
      PROVE  /\ SameNews(rows[i], rs[i]) /\ rs[i].settled = rows[i].settled
             /\ rs[i].status = "suppressed" => rows[i].status = "suppressed" \/ Captured(rows[i])
             /\ rs[i].status \in Active \cup Success => rows[i] = rs[i]
  <2>1. PICK r \in Message : r = rows[i]
    BY <1>1
  <2>2. rs[i] = IF Captured(r) THEN [r EXCEPT !.status = "suppressed"] ELSE r
    BY <1>3, <2>1
  <2>3. CASE Captured(r)
    <3>1. rs[i] = [r EXCEPT !.status = "suppressed"]
      BY <2>2, <2>3
    <3>2. /\ SameNews(r, rs[i]) /\ rs[i].settled = r.settled
          /\ rs[i].status = "suppressed"
      BY <3>1 DEF Message, SameNews
    <3>3. QED
      BY <2>1, <2>3, <3>2 DEF Active, Success
  <2>4. CASE ~Captured(r)
    BY <2>1, <2>2, <2>4 DEF SameNews
  <2>5. QED
    BY <2>3, <2>4
<1>9. \A i \in DOMAIN rs \ DOMAIN rows :
        rs[i].type = "current_status" /\ rs[i].key[1] = "maintenance" /\ ~Told(rs[i])
  <2>1. ASSUME NEW i \in DOMAIN rs \ DOMAIN rows
        PROVE  rs[i].type = "current_status" /\ rs[i].key[1] = "maintenance" /\ ~Told(rs[i])
    <3>1. PICK c \in Captures : rs[i] = CaptureRow(c)
      BY <1>3
    <3>2. /\ rs[i].type = "current_status" /\ ~Told(rs[i])
          /\ rs[i].key = <<"maintenance", c[1]>>
      BY <3>1, CaptureSays
    <3>3. QED
      BY <3>2
  <2>2. QED
    BY <2>1
<1>10. QED
  BY <1>4, <1>5, <1>6, <1>7, <1>8, <1>9

\* An end that is hidden after a claim was queued before it.
LEMMA ClaimedEnd ==
  ASSUME IInv, NEW captured, NEW told, NEW rs, NEW new, NEW picked,
         ClaimGoes(captured, told, rs, new, picked),
         NEW i \in DOMAIN rows', rows'[i].type \in Resolution, rows'[i].status = "suppressed"
  PROVE  /\ i \in DOMAIN rows /\ SameNews(rows[i], rows'[i])
         /\ rows[i].status = "suppressed" \/ Captured(rows[i])
<1>1. i \in DOMAIN new /\ SameNews(new[i], rows'[i]) /\ new[i].status = "suppressed"
  BY ClaimSays
<1>2. i \in DOMAIN rs
  <2>1. ASSUME i \notin DOMAIN rs
        PROVE  FALSE
    <3>1. PICK a \in Summarised(rs) : new[i] = SummaryRow(rs, a)
      BY <1>1, <2>1, ClaimSays
    <3>2. QED
      BY <1>1, <3>1, SummarySays
  <2>2. QED
    BY <2>1
<1>3. SameNews(rs[i], new[i]) /\ rs[i].status = "suppressed"
  BY <1>1, <1>2, ClaimSays
<1>4. i \in DOMAIN rows
  <2>1. rs[i].type # "current_status"
    BY <1>1, <1>3 DEF SameNews, Resolution
  <2>2. QED
    BY <1>2, <2>1, ClaimSays
<1>5. SameNews(rows[i], rs[i]) /\ (rows[i].status = "suppressed" \/ Captured(rows[i]))
  BY <1>3, <1>4, ClaimSays
<1>6. QED
  BY <1>1, <1>3, <1>4, <1>5 DEF SameNews

\* An outage that is told after a claim, of an alarm that is over, was before it.
LEMMA ClaimedOutage ==
  ASSUME IInv, NEW captured, NEW told, NEW rs, NEW new, NEW picked,
         ClaimGoes(captured, told, rs, new, picked),
         NEW k \in DOMAIN rows', rows'[k].type \in Outage, Told(rows'[k]),
         alarms[rows'[k].alarm].status # "open"
  PROVE  /\ k \in DOMAIN rows /\ SameNews(rows[k], rows'[k])
         /\ rs[k] = rows[k]
         /\ rows'[k].status \in Active => rows[k].status \in Active
         /\ rows'[k].status \in Success => rows[k].status \in Success
<1>1. /\ k \in DOMAIN new /\ SameNews(new[k], rows'[k])
      /\ new[k].status \in Active \cup Success
      /\ rows'[k].status \in Active => new[k].status \in Active
      /\ rows'[k].status \in Success => new[k].status \in Success
  BY ClaimSays DEF Told
<1>2. k \in DOMAIN rs
  <2>1. ASSUME k \notin DOMAIN rs
        PROVE  FALSE
    <3>1. PICK a \in Summarised(rs) : new[k] = SummaryRow(rs, a)
      BY <1>1, <2>1, ClaimSays
    <3>2. /\ new[k].alarm = a
          /\ new[k].type = IF alarms[a].status = "open" THEN "current_status"
                                                        ELSE "resolved_summary"
      BY <3>1, SummarySays
    <3>3. QED
      BY <1>1, <3>2 DEF SameNews, Outage
  <2>2. QED
    BY <2>1
<1>3. rs[k] = new[k]
  BY <1>1, <1>2, ClaimSays
<1>4. k \in DOMAIN rows
  <2>1. Told(rs[k])
    BY <1>1, <1>3 DEF Told
  <2>2. QED
    BY <1>2, <2>1, ClaimSays
<1>5. rows[k] = rs[k]
  BY <1>1, <1>3, <1>4, ClaimSays
<1>6. QED
  BY <1>1, <1>3, <1>4, <1>5

\* While a claim hides the end, no outage of the alarm is left to be told.
LEMMA ClaimHides ==
  ASSUME WholeSeconds, IInv, EInv, RInv, EInv', UNCHANGED <<now, alarms, silences>>,
         NEW captured, NEW told, NEW rs, NEW new, NEW picked,
         ClaimGoes(captured, told, rs, new, picked),
         windows' = [w \in DOMAIN windows |->
                       IF w \in DueWindows THEN [windows[w] EXCEPT !.activated = TRUE]
                                           ELSE windows[w]],
         Lasting(windows', silences'),
         NEW i \in DOMAIN rows', NEW k \in DOMAIN rows', Hidden(rows'[i], silences),
         rows'[k].alarm = rows'[i].alarm, rows'[k].type \in Outage, rows'[k].status \in Active
  PROVE  FALSE
<1>1. /\ now \in Nat /\ windows \in Seq(Window) /\ alarms \in Seq(Alarm)
      /\ Dated(rows, alarms, windows, silences, now) /\ Reasons(rows, alarms)
      /\ Typed(rows, alarms, now)
  BY NowIsNat, RowsAreTyped DEF IInv, Rest, Queue, EInv, Story
<1>2. PICK wt : wt = windows'
  OBVIOUS
<1>3. /\ WindowsMove(windows, wt, now) /\ DOMAIN wt = DOMAIN windows
      /\ \A w \in DOMAIN windows :
           /\ wt[w].device = windows[w].device /\ wt[w].starts = windows[w].starts
           /\ EffectiveEnd(wt[w]) = EffectiveEnd(windows[w])
           /\ windows[w].starts <= now => wt[w].activated
  BY <1>1, <1>2, MarksMove
<1>4. Lasting(windows, silences)
  <2>1. Lasting(wt, silences)
    BY <1>2
  <2>2. QED
    BY <1>1, <1>3, <2>1, LastingBefore, TablesStay
<1>5. /\ i \in DOMAIN rows /\ SameNews(rows[i], rows'[i])
      /\ rows[i].status = "suppressed" \/ Captured(rows[i])
  BY ClaimedEnd DEF Hidden
<1>6. PICK a : a = rows[i].alarm
  OBVIOUS
<1>7. /\ rows'[i].alarm = a /\ rows[i].type \in Resolution
      /\ a \in DOMAIN alarms /\ alarms[a].status # "open"
      /\ \A s \in DOMAIN silences : silences[s].alarm # a
  BY <1>5, <1>6 DEF Hidden, SameNews, IInv, Queue, RowsOK, RowOK
<1>8. /\ alarms[a].ended # Never /\ alarms[a].ended \in Nat /\ alarms[a].ended <= now
  BY <1>1, <1>7, TypedFacts DEF Dated
<1>9. /\ k \in DOMAIN rows /\ SameNews(rows[k], rows'[k]) /\ rows[k].status \in Active
  BY <1>7, ClaimedOutage DEF Told
<1>10. /\ rows[k].alarm = a /\ rows[k].type \in Outage /\ Told(rows[k])
  BY <1>7, <1>9 DEF SameNews, Told
<1>11. rows[i].created \in Nat /\ rows[k].created \in Nat
  BY <1>1, <1>5, <1>9, TypedFacts
\* A window that was due is cleared of the outage.
<1>12. ASSUME NEW w \in DOMAIN windows, windows[w].device = alarms[a].device,
              Effective(windows[w]), windows[w].starts <= alarms[a].ended
       PROVE  EffectiveEnd(windows[w]) <= rows[k].created
  <2>1. windows[w].starts \in Nat
    BY <1>1 DEF Dated, Sound
  <2>2. windows[w].starts <= now
    <3>1. \A x, y, z \in Nat : x <= y /\ y <= z => x <= z
      OBVIOUS
    <3>2. QED
      BY <1>1, <1>8, <1>12, <2>1, <3>1
  <2>3. /\ wt[w].activated /\ wt[w].starts = windows[w].starts /\ Effective(wt[w])
        /\ EffectiveEnd(wt[w]) = EffectiveEnd(windows[w])
    BY <1>3, <1>12, <2>2 DEF Effective
  <2>4. wt[w] \in WindowsOf(a, alarms, wt)
    BY <1>3, <1>12 DEF WindowsOf
  <2>5. PICK rt : rt = rows'
    OBVIOUS
  <2>6. /\ Cleared(rt, alarms, wt) /\ k \in DOMAIN rt /\ rt[k].alarm = a
        /\ rt[k].status \in Active /\ rt[k].created = rows[k].created
    BY <1>2, <1>7, <1>9, <2>5 DEF EInv, SameNews
  <2>7. EffectiveEnd(wt[w]) <= rt[k].created
    BY <1>12, <2>3, <2>4, <2>6 DEF Cleared
  <2>8. QED
    BY <2>3, <2>6, <2>7
<1>13. CASE rows[i].status = "suppressed"
  <2>1. Hidden(rows[i], silences)
    BY <1>6, <1>7, <1>13 DEF Hidden
  <2>2. Swallowed(rows[k], alarms, windows)
    BY <1>4, <1>5, <1>6, <1>9, <1>10, <2>1 DEF RInv, Quenched
  <2>3. PICK w \in DOMAIN windows :
          /\ windows[w].device = alarms[a].device /\ Effective(windows[w])
          /\ windows[w].starts <= alarms[a].ended /\ rows[k].created <= windows[w].starts
    BY <1>10, <2>2 DEF Swallowed, WindowsOf
  <2>4. EffectiveEnd(windows[w]) <= rows[k].created
    BY <1>12, <2>3
  <2>5. windows[w].starts \in Nat /\ EffectiveEnd(windows[w]) \in Nat
    BY <1>1, EndIsNatural DEF Dated, Sound
  <2>6. \A x, y, z \in Nat : ~(x < y /\ y <= z /\ z <= x)
    OBVIOUS
  <2>7. QED
    BY <1>11, <2>3, <2>4, <2>5, <2>6 DEF Effective
<1>14. CASE Captured(rows[i])
  <2>1. PICK c \in Captures :
          rows[i].alarm = c[2] /\ SqlLess(rows[i].created, EffectiveEnd(windows[c[1]]))
    BY <1>14 DEF Captured
  <2>2. PICK w : w = c[1]
    OBVIOUS
  <2>3. c \in DueWindows \X DOMAIN alarms /\ c[2] = a
    BY <1>6, <2>1 DEF Captures
  <2>4. w \in DueWindows /\ w \in DOMAIN windows
    BY <2>2, <2>3 DEF DueWindows
  <2>5. windows[w].starts \in Nat /\ EffectiveEnd(windows[w]) \in Nat
    BY <1>1, <2>4, EndIsNatural DEF Dated, Sound
  <2>6. /\ Effective(windows[w]) /\ windows[w].device = alarms[a].device
        /\ alarms[a].ended = Never \/ SqlLeq(windows[w].starts, alarms[a].ended)
    BY <2>1, <2>2, <2>3 DEF Captures
  <2>7. windows[w].starts <= alarms[a].ended
    BY <1>8, <2>5, <2>6, SqlIsTheClock
  <2>8. EffectiveEnd(windows[w]) <= rows[k].created
    BY <1>12, <2>4, <2>6, <2>7
  <2>9. rows[i].created < EffectiveEnd(windows[w])
    BY <1>11, <2>1, <2>2, <2>5, SqlIsTheClock
  <2>10. rows[k].created <= alarms[a].ended
    <3>1. rows[k].key[1] # "reconcile" => rows[k].type = "opened"
      BY <1>1, <1>9, <1>10 DEF Reasons, Outage
    <3>2. QED
      BY <1>1, <1>8, <1>9, <1>10, <3>1 DEF Reasons
  <2>11. alarms[a].ended <= rows[i].created
    BY <1>1, <1>5, <1>6, <1>7 DEF Reasons
  <2>12. \A c1, c2, e, z \in Nat : ~(z <= c1 /\ c1 <= e /\ e <= c2 /\ c2 < z)
    OBVIOUS
  <2>13. QED
    BY <1>8, <1>11, <2>5, <2>8, <2>9, <2>10, <2>11, <2>12
<1>15. QED
  BY <1>5, <1>13, <1>14

\* What may be settled is not what a summary was made for.
LEMMA SummaryIsUnknown ==
  ASSUME IInv, RInv, NEW captured, NEW told, NEW rs, NEW new, NEW picked,
         ClaimGoes(captured, told, rs, new, picked), NEW a \in Summarised(rs)
  PROVE  /\ Latest(Compatible(rs, a)) \in Compatible(rs, a)
         /\ ~Known(rs, SummaryRow(rs, a))
<1>1. rs \in Seq(Message)
  BY ClaimGrows
<1>2. PICK n \in Nat : DOMAIN rs = 1 .. n
  BY <1>1
<1>3. PICK top : top = Latest(Compatible(rs, a))
  OBVIOUS
<1>4. top \in Compatible(rs, a)
  <2>1. Compatible(rs, a) \subseteq 1 .. n /\ Compatible(rs, a) # {}
    BY <1>2 DEF Compatible, Unsettled, Summarised, Reconcilable
  <2>2. QED
    BY <1>3, <2>1, LatestIs
<1>5. top \in DOMAIN rs /\ ~rs[top].settled
  BY <1>4 DEF Compatible, Unsettled
<1>6. ASSUME Known(rs, SummaryRow(rs, a))
      PROVE  FALSE
  <2>1. PICK r : r = SummaryRow(rs, a)
    OBVIOUS
  <2>2. r.key[1] = "reconcile" /\ r.key[2] = top
    BY <1>3, <2>1, SummarySays
  <2>3. PICK p \in DOMAIN rs : rs[p].key = r.key
    BY <1>6, <2>1 DEF Known
  <2>4. rs[p].key[1] = "reconcile" /\ rs[p].key[2] = top
    BY <2>2, <2>3
  <2>5. p \in DOMAIN rows
    <3>1. rs[p].key[1] # "maintenance"
      BY <2>4
    <3>2. QED
      BY <2>3, <3>1, ClaimSays
  <2>6. SameNews(rows[p], rs[p])
    BY <2>5, ClaimSays
  <2>7. rows[p].key[1] = "reconcile" /\ rows[p].key[2] = top
    BY <2>4, <2>6 DEF SameNews
  <2>8. top \in DOMAIN rows /\ rows[top].settled
    BY <2>5, <2>7 DEF RInv, Keyed
  <2>9. rs[top].settled = rows[top].settled
    BY <2>8, ClaimSays
  <2>10. QED
    BY <1>5, <2>8, <2>9
<1>7. QED
  BY <1>3, <1>4, <1>6

\* An end that a claim settles is told otherwise, or has nobody to be told to.
LEMMA ClaimSettles ==
  ASSUME WholeSeconds, IInv, EInv, RInv, EInv', UNCHANGED <<now, alarms, silences>>,
         NEW captured, NEW told, NEW rs, NEW new, NEW picked,
         ClaimGoes(captured, told, rs, new, picked),
         windows' = [w \in DOMAIN windows |->
                       IF w \in DueWindows THEN [windows[w] EXCEPT !.activated = TRUE]
                                           ELSE windows[w]],
         Lasting(windows', silences'),
         NEW i \in DOMAIN rows', Hidden(rows'[i], silences), rows'[i].settled,
         alarms[rows'[i].alarm].status = "resolved", ~rows[i].settled
  PROVE  Answers(rows', i)
<1>1. TypeOK /\ rs \in Seq(Message)
  BY Types1, ClaimGrows
<1>2. PICK S : S = {a \in Summarised(rs) : ~Known(rs, SummaryRow(rs, a))}
  OBVIOUS
<1>3. /\ \A a \in S : \E k \in DOMAIN new \ DOMAIN rs : new[k] = SummaryRow(rs, a)
      /\ \A j \in DOMAIN rs :
           new[j].status = "suppressed" /\ new[j].settled /\ ~rs[j].settled
           => /\ j \in Compatible(rs, rs[j].alarm)
              /\ NothingToTell(rs, rs[j].alarm) \/ rs[j].alarm \in Summarised(rs)
  <2>1. S \subseteq Summarised(rs) /\ told \in Listings(S) /\ new = ReconciledRows(rs, told)
    BY <1>2 DEF ClaimGoes
  <2>2. QED
    BY <1>1, <2>1, ReconciledSays
<1>4. i \in DOMAIN rows /\ SameNews(rows[i], rows'[i])
  BY ClaimedEnd DEF Hidden
<1>5. PICK a : a = rows'[i].alarm
  OBVIOUS
<1>6. /\ i \in DOMAIN rs /\ SameNews(rows[i], rs[i]) /\ ~rs[i].settled
      /\ i \in DOMAIN new /\ new[i].status = "suppressed" /\ new[i].settled
  BY <1>4, ClaimSays DEF Hidden
<1>7. rs[i].alarm = a /\ rs[i].ident = rows'[i].ident
  BY <1>4, <1>5, <1>6 DEF SameNews
<1>8. /\ i \in Compatible(rs, a)
      /\ NothingToTell(rs, a) \/ a \in Summarised(rs)
  BY <1>3, <1>6, <1>7
<1>9. rows'[i].ident = Identity(alarms[a].probe)
  BY <1>7, <1>8 DEF Compatible
<1>10. alarms[a].status = "resolved" /\ alarms[a].status # "open" /\ alarms[a].status # "closed"
  BY <1>5
\* Nobody was told of the outage, ...
<1>11. CASE ~PreviousOpen(rs, a)
  <2>1. ASSUME NEW k \in DOMAIN rows', Same(rows'[k], rows'[i]), rows'[k].type \in Outage,
               Told(rows'[k])
        PROVE  FALSE
    <3>1. rows'[k].alarm = a /\ rows'[k].ident = Identity(alarms[a].probe)
      BY <1>5, <1>9, <2>1 DEF Same
    <3>2. CASE rows'[k].status \in Active
      BY <1>5, <2>1, <3>1, <3>2, ClaimHides
    <3>3. CASE rows'[k].status \in Success
      <4>1. /\ k \in DOMAIN rows /\ SameNews(rows[k], rows'[k]) /\ rs[k] = rows[k]
            /\ rows[k].status \in Success
        BY <1>10, <2>1, <3>1, <3>3, ClaimedOutage
      <4>2. k \in DOMAIN rs
        BY <4>1, ClaimSays
      <4>3. QED
        BY <1>11, <2>1, <3>1, <4>1, <4>2 DEF PreviousOpen, SameNews
    <3>4. QED
      BY <2>1, <3>2, <3>3 DEF Told
  <2>2. QED
    BY <2>1 DEF Answers
\* ... the end is on its way, ...
<1>12. CASE Replacement(rs, a)
  <2>1. PICK k \in DOMAIN rs :
          /\ rs[k].alarm = a /\ rs[k].type \in Resolution
          /\ rs[k].status \in Active \cup Success /\ rs[k].ident = Identity(alarms[a].probe)
    BY <1>10, <1>12 DEF Replacement
  <2>2. rs[k].status # "suppressed"
    BY <2>1 DEF Active, Success
  <2>3. /\ k \in DOMAIN new /\ SameNews(rs[k], new[k]) /\ new[k].status # "suppressed"
    BY <2>2, ClaimSays
  <2>4. /\ k \in DOMAIN rows' /\ SameNews(new[k], rows'[k]) /\ rows'[k].status # "suppressed"
    BY <2>3, ClaimSays
  <2>5. Same(rows'[k], rows'[i]) /\ rows'[k].type \in Resolution
    BY <1>5, <1>9, <2>1, <2>3, <2>4 DEF Same, SameNews
  <2>6. QED
    BY <2>4, <2>5 DEF Answers
\* ... or a summary tells it.
<1>13. CASE a \in Summarised(rs)
  <2>1. a \in S
    BY <1>2, <1>13, SummaryIsUnknown
  <2>2. PICK k \in DOMAIN new \ DOMAIN rs : new[k] = SummaryRow(rs, a)
    BY <1>3, <2>1
  <2>3. /\ new[k].alarm = a /\ new[k].type = "resolved_summary"
        /\ new[k].ident = Identity(alarms[a].probe) /\ new[k].status # "suppressed"
    BY <1>10, <2>2, SummarySays
  <2>4. k \in DOMAIN rows' /\ SameNews(new[k], rows'[k]) /\ rows'[k].status # "suppressed"
    BY <2>3, ClaimSays
  <2>5. Same(rows'[k], rows'[i]) /\ rows'[k].type \in Resolution
    BY <1>5, <1>9, <2>3, <2>4 DEF Same, SameNews, Resolution
  <2>6. QED
    BY <2>4, <2>5 DEF Answers
<1>14. QED
  BY <1>8, <1>10, <1>11, <1>12, <1>13 DEF NothingToTell

LEMMA ClaimAnswered ==
  ASSUME WholeSeconds, IInv, EInv, RInv, Good, EInv', UNCHANGED <<now, alarms, silences>>,
         NEW captured, NEW told, NEW rs, NEW new, NEW picked,
         ClaimGoes(captured, told, rs, new, picked),
         windows' = [w \in DOMAIN windows |->
                       IF w \in DueWindows THEN [windows[w] EXCEPT !.activated = TRUE]
                                           ELSE windows[w]]
  PROVE  Answered(rows', alarms', windows', silences')
<1>1. SUFFICES ASSUME Lasting(windows', silences'), NEW i \in DOMAIN rows',
                      Hidden(rows'[i], silences), rows'[i].settled,
                      alarms[rows'[i].alarm].status = "resolved"
               PROVE  Answers(rows', i)
  BY DEF Answered
<1>2. Lasting(windows, silences)
  <2>1. /\ now \in Nat /\ windows \in Seq(Window)
        /\ Dated(rows, alarms, windows, silences, now)
    BY NowIsNat DEF IInv, Rest, EInv, Story
  <2>2. PICK wt : wt = windows'
    OBVIOUS
  <2>3. WindowsMove(windows, wt, now)
    BY <2>1, <2>2, MarksMove
  <2>4. Lasting(wt, silences)
    BY <1>1, <2>2
  <2>5. QED
    BY <2>1, <2>3, <2>4, LastingBefore, TablesStay
<1>3. i \in DOMAIN rows /\ SameNews(rows[i], rows'[i])
  BY <1>1, ClaimedEnd DEF Hidden
<1>4. CASE ~rows[i].settled
  BY <1>1, <1>4, ClaimSettles
<1>5. CASE rows[i].settled
  <2>1. \A k \in DOMAIN rows : /\ k \in DOMAIN rows' /\ SameNews(rows[k], rows'[k])
                               /\ rows[k].settled => rows'[k] = rows[k]
    BY DEF Good, Ledger, LedgerRow
  <2>2. rows'[i] = rows[i]
    BY <1>3, <1>5, <2>1
  <2>3. Answers(rows, i)
    BY <1>1, <1>2, <1>3, <1>5, <2>2 DEF RInv, Answered
  <2>4. CASE \A k \in DOMAIN rows : Same(rows[k], rows[i]) /\ rows[k].type \in Outage
                                    => ~Told(rows[k])
    <3>1. ASSUME NEW k \in DOMAIN rows', Same(rows'[k], rows'[i]),
                 rows'[k].type \in Outage, Told(rows'[k])
          PROVE  FALSE
      <4>1. alarms[rows'[k].alarm].status # "open"
        BY <1>1, <3>1 DEF Same
      <4>2. /\ k \in DOMAIN rows /\ SameNews(rows[k], rows'[k])
            /\ rows'[k].status \in Active => rows[k].status \in Active
            /\ rows'[k].status \in Success => rows[k].status \in Success
        BY <3>1, <4>1, ClaimedOutage
      <4>3. Same(rows[k], rows[i]) /\ rows[k].type \in Outage /\ Told(rows[k])
        BY <2>2, <3>1, <4>2 DEF Same, SameNews, Told
      <4>4. QED
        BY <2>4, <4>2, <4>3
    <3>2. QED
      BY <3>1 DEF Answers
  <2>5. CASE \E k \in DOMAIN rows : /\ Same(rows[k], rows[i]) /\ rows[k].type \in Resolution
                                    /\ rows[k].status = "suppressed" => ~rows[k].settled
    <3>1. PICK k \in DOMAIN rows : /\ Same(rows[k], rows[i]) /\ rows[k].type \in Resolution
                                   /\ rows[k].status = "suppressed" => ~rows[k].settled
      BY <2>5
    <3>2. /\ k \in DOMAIN rows' /\ Same(rows'[k], rows'[i]) /\ rows'[k].type \in Resolution
      BY <2>1, <2>2, <3>1 DEF Same, SameNews
    <3>3. CASE rows'[k].status = "suppressed" => ~rows'[k].settled
      BY <3>2, <3>3 DEF Answers
    <3>4. CASE rows'[k].status = "suppressed" /\ rows'[k].settled
      <4>1. Hidden(rows'[k], silences) /\ alarms[rows'[k].alarm].status = "resolved"
        BY <1>1, <3>2, <3>4 DEF Hidden, Same
      <4>2. ~rows[k].settled
        BY <2>1, <3>1, <3>4
      <4>3. Answers(rows', k)
        BY <1>1, <3>2, <3>4, <4>1, <4>2, ClaimSettles
      <4>4. QED
        BY <3>2, <4>3 DEF Answers, Same
    <3>5. QED
      BY <3>3, <3>4
  <2>6. QED
    BY <2>3, <2>4, <2>5 DEF Answers
<1>6. QED
  BY <1>4, <1>5

LEMMA ClaimKeyed ==
  ASSUME IInv, RInv, Good, NEW captured, NEW told, NEW rs, NEW new, NEW picked,
         ClaimGoes(captured, told, rs, new, picked)
  PROVE  Keyed(rows')
<1>1. TypeOK /\ rs \in Seq(Message)
  BY Types1, ClaimGrows
<1>2. PICK S : S = {a \in Summarised(rs) : ~Known(rs, SummaryRow(rs, a))}
  OBVIOUS
<1>3. \A a \in Summarised(rs) : \A i \in Compatible(rs, a) : new[i].settled
  <2>1. S \subseteq Summarised(rs) /\ told \in Listings(S) /\ new = ReconciledRows(rs, told)
    BY <1>2 DEF ClaimGoes
  <2>2. QED
    BY <1>1, <2>1, ReconciledSays
<1>4. \A k \in DOMAIN rows : /\ k \in DOMAIN rows' /\ SameNews(rows[k], rows'[k])
                             /\ rows[k].settled => rows'[k] = rows[k]
  BY DEF Good, Ledger, LedgerRow
<1>5. ASSUME NEW i \in DOMAIN rows'
      PROVE  /\ rows'[i].key[1] = "reconcile"
                => rows'[i].key[2] \in DOMAIN rows' /\ rows'[rows'[i].key[2]].settled
             /\ rows'[i].key[1] = "resolved" => rows'[i].type \in Resolution
  <2>1. CASE i \in DOMAIN rows
    BY <1>4, <2>1 DEF RInv, Keyed, SameNews
  <2>2. CASE i \in DOMAIN rs \ DOMAIN rows
    <3>1. rs[i].key[1] = "maintenance"
      BY <2>2, ClaimSays
    <3>2. SameNews(rs[i], new[i]) /\ SameNews(new[i], rows'[i])
      BY <2>2, ClaimSays
    <3>3. rows'[i].key[1] = "maintenance"
      BY <3>1, <3>2 DEF SameNews
    <3>4. QED
      BY <3>3
  <2>3. CASE i \notin DOMAIN rs
    <3>1. i \in DOMAIN new \ DOMAIN rs /\ SameNews(new[i], rows'[i])
      BY <2>3, ClaimSays
    <3>2. PICK a \in Summarised(rs) : new[i] = SummaryRow(rs, a)
      BY <3>1, ClaimSays
    <3>3. PICK top : top = Latest(Compatible(rs, a))
      OBVIOUS
    <3>4. rows'[i].key[1] = "reconcile" /\ rows'[i].key[2] = top
      BY <3>1, <3>2, <3>3, SummarySays DEF SameNews
    <3>5. top \in Compatible(rs, a)
      BY <3>3, SummaryIsUnknown
    <3>6. new[top].settled /\ top \in DOMAIN rs
      BY <1>3, <3>5 DEF Compatible, Unsettled
    <3>7. top \in DOMAIN rows' /\ rows'[top].settled
      BY <3>6, ClaimSays
    <3>8. QED
      BY <3>4, <3>7
  <2>4. QED
    BY <2>1, <2>2, <2>3
<1>6. QED
  BY <1>5 DEF Keyed

LEMMA ClaimAnswers ==
  ASSUME WholeSeconds, IInv, EInv, RInv, Good, EInv', Claim
  PROVE  RInv'
<1>1. /\ UNCHANGED <<now, alarms, silences>>
      /\ windows' = [w \in DOMAIN windows |->
                       IF w \in DueWindows THEN [windows[w] EXCEPT !.activated = TRUE]
                                           ELSE windows[w]]
  BY DEF Claim, feed
<1>2. PICK captured, told, rs, new, picked : ClaimGoes(captured, told, rs, new, picked)
  BY ClaimIs
<1>3. Quenched(rows', alarms', windows', silences')
  <2>1. SUFFICES ASSUME Lasting(windows', silences'),
                        NEW i \in DOMAIN rows', NEW k \in DOMAIN rows',
                        Hidden(rows'[i], silences'), rows'[k].alarm = rows'[i].alarm,
                        rows'[k].type \in Outage, rows'[k].status \in Active
                 PROVE  FALSE
    BY DEF Quenched
  <2>2. Hidden(rows'[i], silences)
    BY <1>1, <2>1
  <2>3. QED
    BY <1>1, <1>2, <2>1, <2>2, ClaimHides
<1>4. Answered(rows', alarms', windows', silences')
  BY <1>1, <1>2, ClaimAnswered
<1>5. Keyed(rows')
  BY <1>2, ClaimKeyed
<1>6. Finished(rows', alarms')
  <2>1. \A k \in DOMAIN rows : k \in DOMAIN rows' /\ SameNews(rows[k], rows'[k])
    BY DEF Good, Ledger, LedgerRow
  <2>2. QED
    BY <1>1, <2>1 DEF RInv, Finished, SameNews
<1>7. QED
  BY <1>3, <1>4, <1>5, <1>6 DEF RInv

LEMMA InitAnswers == Init => RInv
<1> SUFFICES ASSUME Init PROVE RInv
  OBVIOUS
<1>1. DOMAIN rows = {} /\ DOMAIN alarms = {}
  BY DEF Init
<1>2. /\ Quenched(rows, alarms, windows, silences)
      /\ Answered(rows, alarms, windows, silences)
      /\ Keyed(rows) /\ Finished(rows, alarms)
  BY <1>1 DEF Quenched, Answered, Keyed, Finished
<1>3. QED
  BY <1>2 DEF RInv

LEMMA NextAnswers ==
  ASSUME WholeSeconds, IInv, EInv, RInv, Good, EInv', Next
  PROVE  RInv'
<1>1. ASSUME NEW d \in Devices, NEW outcome \in Outcomes, Measure(d, outcome)
      PROVE  RInv'
  BY <1>1, MeasureAnswers
<1>2. ASSUME NEW d \in Devices, NEW ip \in Addresses, NEW act \in BOOLEAN,
             UpdateDevice(d, ip, act)
      PROVE  RInv'
  <2>1. /\ UNCHANGED <<windows, silences, rows>>
        /\ alarms' = [a \in DOMAIN alarms |->
                        IF alarms[a].device = d /\ alarms[a].status = "open"
                        THEN [alarms[a] EXCEPT !.status = "closed", !.ended = now]
                        ELSE alarms[a]]
    BY <1>2 DEF UpdateDevice
  <2>2. AlarmsMove(alarms, alarms', now)
    BY <1>2, UpdateDeviceMoves
  <2>3. ASSUME NEW a \in DOMAIN alarms', alarms'[a].status = "resolved"
        PROVE  a \in DOMAIN alarms /\ alarms[a].status = "resolved"
    <3>1. a \in DOMAIN alarms
      BY <2>1, <2>3
    <3>2. PICK v \in Alarm : v = alarms[a]
      BY <3>1 DEF IInv, Rest
    <3>3. PICK u : u = [v EXCEPT !.status = "closed", !.ended = now]
      OBVIOUS
    <3>4. u.status = "closed"
      BY <3>3 DEF Alarm
    <3>5. alarms'[a] = v \/ alarms'[a] = u
      BY <2>1, <3>1, <3>2, <3>3
    <3>6. QED
      BY <2>3, <3>1, <3>2, <3>4, <3>5
  <2>4. QED
    BY <2>1, <2>2, <2>3, TablesStay, TablesAnswer
<1>3. ASSUME NEW d \in Devices, NEW starts \in 1 .. MaxTime, NEW ends \in 1 .. MaxTime,
             CreateMaintenance(d, starts, ends)
      PROVE  RInv'
  <2>1. UNCHANGED <<alarms, silences, rows>> /\ WindowsMove(windows, windows', now)
    BY <1>3, CreateMaintenanceMoves DEF CreateMaintenance, feed
  <2>2. QED
    BY <2>1, TablesStay, TablesAnswer
<1>4. ASSUME NEW w \in DOMAIN windows, CancelMaintenance(w)
      PROVE  RInv'
  <2>1. UNCHANGED <<alarms, silences, rows>> /\ WindowsMove(windows, windows', now)
    BY <1>4, CancelMaintenanceMoves DEF CancelMaintenance, feed
  <2>2. QED
    BY <2>1, TablesStay, TablesAnswer
<1>5. ASSUME NEW a \in DOMAIN alarms, NEW ends \in 1 .. MaxTime, SilenceAlarm(a, ends)
      PROVE  RInv'
  BY <1>5, SilenceAlarmAnswers
<1>6. ASSUME NEW s \in DOMAIN silences, CancelSilence(s)
      PROVE  RInv'
  <2>1. /\ UNCHANGED <<alarms, windows, rows>>
        /\ SilencesMove(silences, silences', alarms, now)
    BY <1>6, CancelSilenceMoves DEF CancelSilence, feed
  <2>2. QED
    BY <2>1, TablesStay, TablesAnswer
<1>7. ASSUME NEW limit, rows' = RecoveredRows(limit), UNCHANGED <<alarms, windows, silences>>
      PROVE  RInv'
  BY <1>7, RecoverAnswers
<1>8. CASE Claim
  BY <1>8, ClaimAnswers
<1>9. ASSUME NEW j \in work, Dispatch(j)
      PROVE  RInv'
  BY <1>9, DispatchAnswers
<1>10. CASE UNCHANGED <<alarms, windows, silences, rows>>
  BY <1>10, TablesStay, TablesAnswer
<1>11. CASE TickRecover
  BY <1>7, <1>11 DEF TickRecover, feed
<1>12. ASSUME NEW p \in Probes, NEW ident \in Deliveries, NEW limit \in Limits,
              Boot(p, ident, limit)
       PROVE  RInv'
  <2>1. UNCHANGED <<alarms, windows, silences>> /\ (rows' = rows \/ rows' = RecoveredRows(limit))
    BY <1>12 DEF Boot, feed
  <2>2. QED
    BY <1>7, <1>10, <2>1
<1>13. CASE \/ ClaimFails \/ StopBegin \/ StopEnd \/ Crash \/ Restore \/ Tick
            \/ \E j \in work : LoseResult(j)
  <2>1. UNCHANGED <<alarms, windows, silences, rows>>
    BY <1>13 DEF ClaimFails, StopBegin, StopEnd, Crash, Restore, Tick, LoseResult, feed
  <2>2. QED
    BY <1>10, <2>1
<1>14. QED
  BY <1>1, <1>2, <1>3, <1>4, <1>5, <1>6, <1>8, <1>9, <1>11, <1>12, <1>13 DEF Next

LEMMA AnswersInvariance ==
  ASSUME WholeSeconds
  PROVE  Spec => [](IInv /\ EInv /\ RInv)
<1>1. Init => IInv /\ EInv /\ RInv
  BY InitIInv, InitTold, InitAnswers
<1>2. (IInv /\ EInv /\ RInv) /\ [Next]_vars => (IInv /\ EInv /\ RInv)'
  <2> SUFFICES ASSUME IInv, EInv, RInv, [Next]_vars PROVE IInv' /\ EInv' /\ RInv'
    OBVIOUS
  <2>1. Good /\ IInv'
    BY StepGood DEF Good
  <2>2. EInv' /\ RInv'
    <3>1. CASE Next
      BY <2>1, <3>1, NextTold, NextAnswers
    <3>2. CASE UNCHANGED vars
      <4>1. /\ UNCHANGED <<now, feed, windows, silences, rows, work>>
            /\ UNCHANGED <<alarms, windows, silences, rows>>
        BY <3>2 DEF vars, process, feed
      <4>2. QED
        BY <2>1, <4>1, QuietTold, TablesStay, TablesAnswer
    <3>3. QED
      BY <3>1, <3>2
  <2>3. QED
    BY <2>1, <2>2
<1>3. QED
  BY <1>1, <1>2, PTL DEF Spec

LEMMA AnswersTell == IInv /\ RInv => ResolutionIsTold
<1>. SUFFICES ASSUME IInv, RInv, NEW i \in DOMAIN rows, NEW a, a = rows[i].alarm,
                     rows[i].type \in Outage, rows[i].status \in Success,
                     alarms[a].status = "resolved", Unsettled(rows, a) = {}, NoneVanished,
                     \A s \in DOMAIN silences : silences[s].alarm # a
              PROVE  /\ \E j \in DOMAIN rows : rows[j].alarm = a /\ rows[j].type \in Resolution
                     /\ \A j \in DOMAIN rows :
                          /\ rows[j].alarm = a /\ rows[j].type \in Resolution
                          /\ rows[j].ident = rows[i].ident
                          => \E k \in DOMAIN rows :
                               /\ rows[k].alarm = a /\ rows[k].type \in Resolution
                               /\ rows[k].ident = rows[i].ident /\ rows[k].status # "suppressed"
  BY DEF ResolutionIsTold
<1>1. a \in DOMAIN alarms
  BY DEF IInv, Queue, RowsOK, RowOK
<1>2. \E j \in DOMAIN rows : rows[j].alarm = a /\ rows[j].type \in Resolution
  BY <1>1 DEF RInv, Finished
<1>3. SUFFICES ASSUME NEW j \in DOMAIN rows, rows[j].alarm = a, rows[j].type \in Resolution,
                      rows[j].ident = rows[i].ident,
                      \A k \in DOMAIN rows :
                        /\ rows[k].alarm = a /\ rows[k].type \in Resolution
                        /\ rows[k].ident = rows[i].ident
                        => rows[k].status = "suppressed"
               PROVE  FALSE
  BY <1>2
<1>4. Lasting(windows, silences)
  BY DEF NoneVanished, Lasting
<1>5. rows[j].status = "suppressed" /\ rows[j].settled
  BY <1>3 DEF Unsettled
<1>6. Answers(rows, j)
  BY <1>3, <1>4, <1>5 DEF RInv, Answered, Hidden
<1>7. Same(rows[i], rows[j]) /\ Told(rows[i])
  BY <1>3 DEF Same, Told
<1>8. ASSUME NEW k \in DOMAIN rows, Same(rows[k], rows[j]), rows[k].type \in Resolution,
             rows[k].status = "suppressed" => ~rows[k].settled
      PROVE  FALSE
  BY <1>3, <1>8 DEF Same, Unsettled
<1>9. QED
  BY <1>6, <1>7, <1>8 DEF Answers

\* Who was told of an outage is told of its end, under every interleaving of
\* measurements, windows, boots with other settings, lost results, retries and
\* reconciliations (notifications.py, reconcile and capture_maintenance): a
\* suppressed end is settled only when its target was told of no outage and
\* cannot be told any more, or when another message of the end goes there.
THEOREM ResolutionsAreTold ==
  ASSUME WholeSeconds
  PROVE  Spec => []ResolutionIsTold
BY AnswersTell, AnswersInvariance, PTL
-----------------------------------------------------------------------------
(***************************************************************************)
(* News of an outage that lasts rests on a recent measurement.             *)
(***************************************************************************)
\* Row r, if it is news of an open alarm that can still leave, has a
\* measurement from after every interval that was over when it was queued.
Based(r, as, ws, ss, la) ==
  r.type = "current_status" /\ r.status \in Active /\ as[r.alarm].status = "open"
  => \A v \in WindowsOf(r.alarm, as, ws) \cup SilencesOf(r.alarm, ss) :
       Effective(v) /\ EffectiveEnd(v) <= r.created
       => EffectiveEnd(v) <= la[<<as[r.alarm].device, as[r.alarm].probe>>].at

Informed == \A i \in DOMAIN rows : Based(rows[i], alarms, windows, silences, latest)

\* An alarm that stays open keeps its target, whose measurements only get later.
Measured ==
  \A a \in DOMAIN alarms :
    LET k == <<alarms[a].device, alarms[a].probe>>
    IN  alarms'[a].status = "open"
        => /\ alarms[a].status = "open" /\ alarms'[a].probe = alarms[a].probe
           /\ latest[k].at <= latest'[k].at

\* Every interval is one from before, or begins now or later.
LEMMA IntervalsBefore ==
  ASSUME IInv, EInv, AlarmsMove(alarms, alarms', now), WindowsMove(windows, windows', now),
         SilencesMove(silences, silences', alarms, now), NEW a \in DOMAIN alarms,
         NEW u \in WindowsOf(a, alarms', windows') \cup SilencesOf(a, silences')
  PROVE  \/ \E v \in WindowsOf(a, alarms, windows) \cup SilencesOf(a, silences) : Later(v, u, now)
         \/ Begun(u, now)
<1>1. CASE u \in WindowsOf(a, alarms', windows')
  BY <1>1, WindowsOfMove
<1>2. CASE u \in SilencesOf(a, silences')
  <2>1. PICK s \in DOMAIN silences' : silences'[s].alarm = a /\ u = silences'[s]
    BY <1>2 DEF SilencesOf
  <2>2. CASE s \in DOMAIN silences
    <3>1. silences[s].alarm = a /\ Later(silences[s], u, now)
      BY <2>1, <2>2 DEF SilencesMove
    <3>2. silences[s] \in SilencesOf(a, silences)
      BY <2>2, <3>1 DEF SilencesOf
    <3>3. QED
      BY <3>1, <3>2
  <2>3. CASE s \notin DOMAIN silences
    BY <2>1, <2>3 DEF SilencesMove
  <2>4. QED
    BY <2>2, <2>3
<1>3. QED
  BY <1>1, <1>2

\* An interval that is over when the row is queued does not change after it.
LEMMA BasedStays ==
  ASSUME IInv, EInv, Informed, Good, Measured,
         AlarmsMove(alarms, alarms', now), WindowsMove(windows, windows', now),
         SilencesMove(silences, silences', alarms, now), NEW i \in DOMAIN rows
  PROVE  Based(rows'[i], alarms', windows', silences', latest')
<1>1. PICK r : r = rows[i]
  OBVIOUS
<1>2. PICK s : s = rows'[i]
  OBVIOUS
<1>3. PICK a : a = r.alarm
  OBVIOUS
<1>4. SUFFICES ASSUME s.type = "current_status", s.status \in Active,
                      alarms'[s.alarm].status = "open",
                      NEW u \in WindowsOf(s.alarm, alarms', windows')
                                  \cup SilencesOf(s.alarm, silences'),
                      Effective(u), EffectiveEnd(u) <= s.created
               PROVE  EffectiveEnd(u) <= latest'[<<alarms'[s.alarm].device,
                                                   alarms'[s.alarm].probe>>].at
  BY <1>2 DEF Based
<1>5. /\ s.alarm = a /\ s.type = r.type /\ s.created = r.created
      /\ r.status \in Active
  BY <1>1, <1>2, <1>3, <1>4, LedgerKeeps DEF Good, IInv, Keeps, SameNews
<1>6. Typed(rows, alarms, now) /\ Dated(rows, alarms, windows, silences, now)
  BY RowsAreTyped DEF IInv, Rest, Queue, EInv, Story
<1>7. /\ a \in DOMAIN alarms /\ r.created \in Nat /\ now \in Nat /\ r.created <= now
      /\ alarms[a] \in Alarm
  BY <1>1, <1>3, <1>6, TypedFacts DEF Dated, Typed
<1>8. PICK k : k = <<alarms[a].device, alarms[a].probe>>
  OBVIOUS
<1>9. /\ alarms[a].status = "open" /\ latest[k].at <= latest'[k].at
      /\ k = <<alarms'[a].device, alarms'[a].probe>>
  BY <1>4, <1>5, <1>7, <1>8 DEF Measured, AlarmsMove
<1>10. latest[k].at \in Nat /\ latest'[k].at \in Nat
  <2>1. k \in Devices \X (Probes \cup {Simulator})
    BY <1>7, <1>8 DEF Alarm
  <2>2. Rest /\ Rest'
    BY DEF Good, IInv
  <2>3. QED
    BY <2>1, <2>2 DEF Rest
<1>11. EffectiveEnd(u) <= r.created
  BY <1>4, <1>5
<1>12. PICK v \in WindowsOf(a, alarms, windows) \cup SilencesOf(a, silences) : Later(v, u, now)
  <2>1. ASSUME Begun(u, now)
        PROVE  FALSE
    <3>1. EffectiveEnd(u) = u.ends /\ u.ends \in Nat /\ u.starts \in Nat
          /\ now <= u.starts /\ u.starts < u.ends
      BY <1>7, <2>1, BegunIsSound DEF Begun
    <3>2. QED
      BY <1>7, <1>11, <3>1
  <2>2. QED
    BY <1>4, <1>5, <1>7, <2>1, IntervalsBefore
<1>13. Sound(v, now) /\ Sound(u, now)
  BY <1>6, <1>7, <1>12, IntervalsAreSound, LaterIsSound
<1>14. /\ EffectiveEnd(u) = EffectiveEnd(v) \/ EffectiveEnd(u) = now
       /\ EffectiveEnd(v) <= now => EffectiveEnd(u) = EffectiveEnd(v)
       /\ Effective(v)
       /\ u.starts = v.starts
  BY <1>4, <1>7, <1>12, <1>13, LaterEnds DEF Later
<1>15. /\ EffectiveEnd(u) \in Nat /\ EffectiveEnd(v) \in Nat /\ v.starts \in Nat
       /\ v.starts < EffectiveEnd(u)
  BY <1>4, <1>13, <1>14, EndIsNatural DEF Sound, Effective
<1>16. EffectiveEnd(v) = EffectiveEnd(u)
  <2>1. CASE EffectiveEnd(u) = now
    <3>1. v.starts < r.created
      BY <1>7, <1>11, <1>15
    <3>2. EffectiveEnd(v) <= r.created
      BY <1>1, <1>3, <1>5, <1>12, <3>1 DEF EInv, Story, Unhushed, Told
    <3>3. EffectiveEnd(v) <= now
      BY <1>7, <1>15, <3>2
    <3>4. QED
      BY <1>14, <3>3
  <2>2. QED
    BY <1>14, <2>1
<1>17. EffectiveEnd(v) <= latest[k].at
  <2>1. Based(r, alarms, windows, silences, latest)
    BY <1>1 DEF Informed
  <2>2. QED
    BY <1>3, <1>4, <1>5, <1>8, <1>9, <1>11, <1>12, <1>14, <1>16, <2>1 DEF Based
<1>18. EffectiveEnd(u) <= latest'[k].at
  <2>1. \A x, y, z \in Nat : x <= y /\ y <= z => x <= z
    OBVIOUS
  <2>2. QED
    BY <1>9, <1>10, <1>15, <1>16, <1>17, <2>1
<1>19. QED
  BY <1>5, <1>9, <1>18

LEMMA StepInformed ==
  ASSUME IInv, EInv, Informed, Good, Measured,
         AlarmsMove(alarms, alarms', now), WindowsMove(windows, windows', now),
         SilencesMove(silences, silences', alarms, now),
         \A i \in DOMAIN rows' \ DOMAIN rows :
           Based(rows'[i], alarms', windows', silences', latest')
  PROVE  Informed'
<1>1. \A i \in DOMAIN rows : Based(rows'[i], alarms', windows', silences', latest')
  BY BasedStays
<1>2. QED
  BY <1>1 DEF Informed

\* A step that leaves alarms and measurements alone, ...
LEMMA FeedStays ==
  ASSUME IInv, UNCHANGED feed
  PROVE  Measured /\ AlarmsMove(alarms, alarms', now)
<1>1. alarms' = alarms /\ latest' = latest
  BY DEF feed
<1>2. ASSUME NEW a \in DOMAIN alarms, NEW k, k = <<alarms[a].device, alarms[a].probe>>
      PROVE  latest[k].at <= latest'[k].at
  <2>1. alarms \in Seq(Alarm) /\ Rest
    BY DEF IInv, Rest
  <2>2. alarms[a] \in Alarm
    BY <2>1
  <2>3. k \in Devices \X (Probes \cup {Simulator})
    BY <1>2, <2>2 DEF Alarm
  <2>4. latest[k].at \in Nat
    BY <2>1, <2>3 DEF Rest
  <2>5. QED
    BY <1>1, <2>4
<1>3. QED
  BY <1>1, <1>2, TablesStay DEF Measured

\* ... and adds no message.
LEMMA QuietInformed ==
  ASSUME IInv, EInv, Informed, Good, UNCHANGED feed,
         WindowsMove(windows, windows', now), SilencesMove(silences, silences', alarms, now),
         DOMAIN rows' \subseteq DOMAIN rows
  PROVE  Informed'
BY FeedStays, StepInformed

\* What reconcile summarises was measured after the boundary, and no interval
\* that is over ended after the boundary.
LEMMA SummaryIsBased ==
  ASSUME WholeSeconds, IInv, EInv, NEW rs, rs \in Seq(Message),
         Dated(rs, alarms, windows, silences, now),
         NEW a \in Summarised(rs), alarms[a].status = "open",
         NEW v \in WindowsOf(a, alarms, windows) \cup SilencesOf(a, silences),
         Effective(v), EffectiveEnd(v) <= now
  PROVE  EffectiveEnd(v) <= latest[<<alarms[a].device, alarms[a].probe>>].at
<1>1. Rest /\ now \in Nat /\ alarms \in Seq(Alarm) /\ a \in DOMAIN alarms
  BY NowIsNat DEF IInv, Rest, Summarised, Reconcilable
<1>2. PICK b \in Alarm : b = alarms[a]
  BY <1>1
<1>3. PICK k : k = <<b.device, b.probe>>
  OBVIOUS
<1>4. latest[k].at \in Nat
  <2>1. k \in Devices \X (Probes \cup {Simulator})
    BY <1>3 DEF Alarm
  <2>2. QED
    BY <1>1, <2>1 DEF Rest
<1>5. PICK m : m = Current(a)
  OBVIOUS
<1>6. m.at # Never /\ m.at >= Boundary(rs, a)
  BY <1>5 DEF Summarised, KnownNow, Fresh
<1>7. m = latest[k]
  BY <1>2, <1>3, <1>5, <1>6 DEF Current, Unmeasured
<1>8. b.opened \in Nat /\ b.ended = Never
  BY <1>1, <1>2 DEF Dated, Alarm
<1>9. Sound(v, now) /\ EffectiveEnd(v) \in Nat /\ v.starts \in Nat
  BY IntervalsAreSound, EndIsNatural DEF Sound
<1>10. v.starts <= now
  BY <1>1, <1>9 DEF Effective
<1>11. Audible(a, alarms, windows, silences, now)
  <2>1. ~SuppressedFor(alarms[a].device, a, now)
    BY DEF Summarised, Reconcilable, Suppressed
  <2>2. QED
    BY <1>1, <2>1, SuppressedIs
<1>12. \A x, y, z \in Nat : x <= y /\ z >= y => x <= z
  OBVIOUS
<1>13. CASE Touches(v, a, alarms, now)
  <2>1. EndsFor(a) = {EffectiveEnd(u) : u \in
          {w \in WindowsOf(a, alarms, windows) \cup SilencesOf(a, silences) :
             Touches(w, a, alarms, now)}}
    BY <1>1, EndsForIs
  <2>2. ASSUME NEW u \in WindowsOf(a, alarms, windows) \cup SilencesOf(a, silences),
               Touches(u, a, alarms, now)
        PROVE  EffectiveEnd(u) \in 1 .. now
    <3>1. Sound(u, now) /\ u.starts <= now /\ Effective(u)
      BY <2>2, IntervalsAreSound DEF Touches
    <3>2. EffectiveEnd(u) <= now
      BY <1>11, <3>1 DEF Audible
    <3>3. EffectiveEnd(u) \in Nat /\ u.starts \in Nat /\ 0 < u.starts
      BY <3>1, EndIsNatural DEF Sound
    <3>4. QED
      BY <3>1, <3>2, <3>3 DEF Effective
  <2>3. EndsFor(a) \subseteq 1 .. now
    BY <2>1, <2>2
  <2>4. EffectiveEnd(v) \in EndsFor(a)
    BY <1>13, <2>1
  <2>5. EffectiveEnd(v) <= Latest(EndsFor(a)) /\ Latest(EndsFor(a)) \in 1 .. now
    BY <1>1, <2>3, <2>4, LatestIs
  <2>6. Boundary(rs, a) = Latest(EndsFor(a))
    BY <2>4 DEF Boundary
  <2>7. Boundary(rs, a) \in Nat /\ EffectiveEnd(v) <= Boundary(rs, a)
    BY <2>5, <2>6
  <2>8. QED
    BY <1>2, <1>3, <1>4, <1>6, <1>7, <1>9, <1>12, <2>7
<1>14. CASE ~Touches(v, a, alarms, now)
  <2>1. EffectiveEnd(v) <= b.opened
    <3>1. ~(b.opened <= EffectiveEnd(v))
      BY <1>2, <1>8, <1>10, <1>14 DEF Touches
    <3>2. QED
      BY <1>8, <1>9, <3>1
  <2>2. b.opened <= Boundary(rs, a) /\ Boundary(rs, a) \in Nat
    <3>1. CASE Boundary(rs, a) = rs[Latest(Compatible(rs, a))].created
      <4>1. /\ Compatible(rs, a) # {} /\ Compatible(rs, a) \subseteq DOMAIN rs
            /\ \A i \in Compatible(rs, a) : rs[i].alarm = a
        BY DEF Summarised, Reconcilable, Compatible, Unsettled
      <4>2. DOMAIN rs = 1 .. Len(rs) /\ Len(rs) \in Nat
        OBVIOUS
      <4>3. Latest(Compatible(rs, a)) \in Compatible(rs, a)
        BY <4>1, <4>2, LatestIs
      <4>4. PICK i \in DOMAIN rs : i = Latest(Compatible(rs, a)) /\ rs[i].alarm = a
        BY <4>1, <4>3
      <4>5. rs[i] \in Message
        BY <4>4
      <4>6. rs[i].created \in Nat /\ b.opened <= rs[i].created
        BY <1>2, <4>4, <4>5 DEF Dated, Message
      <4>7. QED
        BY <3>1, <4>4, <4>6
    <3>2. CASE \E u \in WindowsOf(a, alarms, windows) \cup SilencesOf(a, silences) :
                 /\ Touches(u, a, alarms, now)
                 /\ Boundary(rs, a) = EffectiveEnd(u) /\ EffectiveEnd(u) <= now
      <4>1. PICK u \in WindowsOf(a, alarms, windows) \cup SilencesOf(a, silences) :
                 /\ Touches(u, a, alarms, now)
                 /\ Boundary(rs, a) = EffectiveEnd(u)
        BY <3>2
      <4>2. EffectiveEnd(u) \in Nat
        BY IntervalsAreSound, EndIsNatural
      <4>3. QED
        BY <1>2, <4>1, <4>2 DEF Touches
    <3>3. QED
      BY <1>1, <1>11, <3>1, <3>2, BoundaryIs
  <2>3. EffectiveEnd(v) <= Boundary(rs, a)
    BY <1>8, <1>9, <1>12, <2>1, <2>2
  <2>4. QED
    BY <1>2, <1>3, <1>4, <1>6, <1>7, <1>9, <1>12, <2>2, <2>3
<1>15. QED
  BY <1>13, <1>14

\* The rows between capture and reconciliation are in the order of time.
LEMMA CapturedAreDated ==
  ASSUME WholeSeconds, IInv, EInv, NEW captured, NEW told, NEW rs, NEW new, NEW picked,
         ClaimGoes(captured, told, rs, new, picked)
  PROVE  Dated(rs, alarms, windows, silences, now)
<1>1. /\ TypeOK /\ Rest /\ now \in Nat /\ now \in 1 .. MaxTime
      /\ RowsOK(rows, alarms) /\ alarms \in Seq(Alarm)
      /\ Story(rows, alarms, windows, silences, now)
  BY Types1, NowIsNat DEF IInv, Rest, Queue, EInv
<1>2. PICK S : S = {c \in Captures : ~Known(rows, CaptureRow(c))}
  OBVIOUS
<1>3. S \subseteq Captures /\ captured \in Listings(S) /\ rs = CapturedRows(captured)
  BY <1>2 DEF ClaimGoes
<1>4. Grows(rows, rs, alarms) /\ RowsOK(rs, alarms)
  BY ClaimGrows
<1>5. Continues(rows, rs, alarms, windows, silences, now)
  BY <1>1, <1>3, <1>4, CaptureContinues
<1>6. Typed(rows, alarms, now) /\ Typed(rs, alarms, now)
  BY <1>1, <1>4, RowsAreTyped
<1>7. QED
  BY <1>1, <1>5, <1>6, DatedContinues DEF Story

LEMMA ClaimInformed ==
  ASSUME WholeSeconds, IInv, EInv, Informed, Good, Claim
  PROVE  Informed'
<1>1. UNCHANGED <<now, feed, silences>>
  BY DEF Claim
<1>2. PICK captured, told, rs, new, picked : ClaimGoes(captured, told, rs, new, picked)
  BY ClaimIs
<1>3. PICK wt : wt = windows'
  OBVIOUS
<1>4. /\ Rest /\ now \in Nat /\ alarms \in Seq(Alarm) /\ windows \in Seq(Window)
      /\ Dated(rows, alarms, windows, silences, now)
  BY NowIsNat DEF IInv, Rest, EInv, Story
<1>5. /\ WindowsMove(windows, wt, now)
      /\ DOMAIN wt = DOMAIN windows
      /\ \A w \in DOMAIN windows :
           /\ wt[w].device = windows[w].device /\ wt[w].starts = windows[w].starts
           /\ EffectiveEnd(wt[w]) = EffectiveEnd(windows[w])
  <2>1. wt = [w \in DOMAIN windows |->
                IF w \in DueWindows THEN [windows[w] EXCEPT !.activated = TRUE]
                                    ELSE windows[w]]
    BY <1>3 DEF Claim
  <2>2. QED
    BY <1>4, <2>1, MarksMove
<1>6. rs \in Seq(Message) /\ Dated(rs, alarms, windows, silences, now)
  BY <1>2, ClaimGrows, CapturedAreDated
<1>7. ASSUME NEW i \in DOMAIN rows' \ DOMAIN rows
      PROVE  Based(rows'[i], alarms, wt, silences, latest)
  <2>1. PICK s : s = rows'[i]
    OBVIOUS
  <2>2. SUFFICES ASSUME s.type = "current_status", s.status \in Active,
                        alarms[s.alarm].status = "open",
                        NEW u \in WindowsOf(s.alarm, alarms, wt) \cup SilencesOf(s.alarm, silences),
                        Effective(u), EffectiveEnd(u) <= s.created
                 PROVE  EffectiveEnd(u) <=
                          latest[<<alarms[s.alarm].device, alarms[s.alarm].probe>>].at
    BY <2>1 DEF Based
  <2>3. i \in DOMAIN new /\ SameNews(new[i], s) /\ new[i].status \in Active
    BY <1>2, <1>7, <2>1, <2>2, ClaimSays
  <2>4. i \notin DOMAIN rs
    <3>1. ASSUME i \in DOMAIN rs
          PROVE  FALSE
      <4>1. rs[i] = new[i] /\ ~Told(rs[i])
        BY <1>2, <1>7, <2>3, <3>1, ClaimSays
      <4>2. QED
        BY <2>3, <4>1 DEF Told
    <3>2. QED
      BY <3>1
  <2>5. PICK a \in Summarised(rs) : new[i] = SummaryRow(rs, a)
    BY <1>2, <2>3, <2>4, ClaimSays
  <2>6. s.alarm = a /\ s.created = now
    BY <2>3, <2>5, SummarySays DEF SameNews
  <2>7. PICK v \in WindowsOf(a, alarms, windows) \cup SilencesOf(a, silences) :
           v.starts = u.starts /\ EffectiveEnd(v) = EffectiveEnd(u)
    <3>1. CASE u \in WindowsOf(a, alarms, wt)
      <4>1. PICK w \in DOMAIN windows : wt[w].device = alarms[a].device /\ u = wt[w]
        BY <1>5, <3>1 DEF WindowsOf
      <4>2. /\ windows[w].device = alarms[a].device
            /\ windows[w].starts = u.starts /\ EffectiveEnd(windows[w]) = EffectiveEnd(u)
        BY <1>5, <4>1
      <4>3. windows[w] \in WindowsOf(a, alarms, windows)
        BY <4>2 DEF WindowsOf
      <4>4. QED
        BY <4>2, <4>3
    <3>2. CASE u \in SilencesOf(a, silences)
      BY <3>2
    <3>3. QED
      BY <2>2, <2>6, <3>1, <3>2
  <2>8. Effective(v) /\ EffectiveEnd(v) <= now
    BY <2>2, <2>6, <2>7 DEF Effective
  <2>9. EffectiveEnd(v) <= latest[<<alarms[a].device, alarms[a].probe>>].at
    BY <1>6, <2>2, <2>6, <2>8, SummaryIsBased
  <2>10. QED
    BY <2>6, <2>7, <2>9
<1>8. ASSUME NEW i \in DOMAIN rows
      PROVE  Based(rows'[i], alarms, wt, silences, latest)
  <2>1. Measured /\ AlarmsMove(alarms, alarms', now)
    BY <1>1, FeedStays
  <2>2. WindowsMove(windows, windows', now) /\ SilencesMove(silences, silences', alarms, now)
    BY <1>1, <1>3, <1>5, TablesStay
  <2>3. Based(rows'[i], alarms', windows', silences', latest')
    BY <2>1, <2>2, BasedStays
  <2>4. QED
    BY <1>1, <1>3, <2>3 DEF feed
<1>9. QED
  BY <1>1, <1>3, <1>7, <1>8 DEF Informed, feed

\* The rows of alarms that begin or end are no news of an outage that lasts.
LEMMA InsertedIsBased ==
  ASSUME NEW r, rows' = Insert(rows, r), rows \in Seq(Message),
         r.type # "current_status" \/ r.status \notin Active,
         NEW as, NEW ws, NEW ss, NEW la
  PROVE  \A i \in DOMAIN rows' \ DOMAIN rows : Based(rows'[i], as, ws, ss, la)
<1>1. PICK rt : rt = Insert(rows, r)
  OBVIOUS
<1>2. \A i \in DOMAIN rt \ DOMAIN rows : rt[i] = r
  BY <1>1, InsertSays
<1>3. QED
  BY <1>1, <1>2 DEF Based

LEMMA SilenceAlarmInformed ==
  ASSUME IInv, EInv, Informed, Good, NEW a \in DOMAIN alarms, NEW ends \in 1 .. MaxTime,
         SilenceAlarm(a, ends)
  PROVE  Informed'
<1>1. PICK r : r = Row(a, alarms[a].probe, "current_status",
                       <<"silence", Len(silences) + 1>>, config.delivery, TRUE)
  OBVIOUS
<1>2. rows' = Insert(rows, r) /\ UNCHANGED <<now, feed, windows>>
  BY <1>1 DEF SilenceAlarm
<1>3. r.status \notin Active
  BY <1>1 DEF Row, Active
<1>4. \A i \in DOMAIN rows' \ DOMAIN rows : Based(rows'[i], alarms', windows', silences', latest')
  <2>1. rows \in Seq(Message)
    BY DEF IInv, Queue, RowsOK
  <2>2. QED
    BY <1>2, <1>3, <2>1, InsertedIsBased
<1>5. WindowsMove(windows, windows', now) /\ SilencesMove(silences, silences', alarms, now)
  BY <1>2, TablesStay, SilenceAlarmMoves
<1>6. QED
  BY <1>2, <1>4, <1>5, FeedStays, StepInformed

LEMMA MeasureInformed ==
  ASSUME IInv, EInv, Informed, Good, NEW d \in Devices, NEW outcome \in Outcomes,
         Measure(d, outcome)
  PROVE  Informed'
<1>1. /\ UNCHANGED <<now, windows, silences>> /\ Rest /\ alarms \in Seq(Alarm)
      /\ now \in Nat /\ rows \in Seq(Message)
      /\ Dated(rows, alarms, windows, silences, now)
  BY NowIsNat DEF Measure, IInv, Rest, Queue, RowsOK, EInv, Story
<1>2. ASSUME NEW a \in DOMAIN alarms, NEW k, k = <<alarms[a].device, alarms[a].probe>>
      PROVE  latest[k].at <= latest'[k].at
  <2>1. alarms[a] \in Alarm
    BY <1>1
  <2>2. k \in Devices \X (Probes \cup {Simulator})
    BY <1>2, <2>1 DEF Alarm
  <2>3. latest[k].at \in Nat /\ k \in DOMAIN latest
    BY <1>1, <2>2 DEF Rest
  <2>4. PICK m : m = [at |-> now, outcome |-> outcome]
    OBVIOUS
  <2>5. /\ latest[<<d, config.probe>>].at < now
        /\ latest' = [latest EXCEPT ![<<d, config.probe>>] = m]
    BY <2>4 DEF Measure
  <2>6. CASE k = <<d, config.probe>>
    <3>1. latest'[k] = m /\ m.at = now
      BY <2>3, <2>4, <2>5, <2>6
    <3>2. QED
      BY <1>1, <2>3, <2>5, <2>6, <3>1
  <2>7. CASE k # <<d, config.probe>>
    <3>1. latest'[k] = latest[k]
      BY <2>3, <2>5, <2>7
    <3>2. QED
      BY <2>3, <3>1
  <2>8. QED
    BY <2>6, <2>7
<1>3. CASE UNCHANGED <<alarms, rows>>
  <2>1. Measured
    BY <1>2, <1>3 DEF Measured
  <2>2. QED
    BY <1>1, <1>3, <2>1, TablesStay, StepInformed
<1>4. CASE \E a \in DOMAIN alarms :
             /\ alarms[a].status = "open"
             /\ alarms' = [alarms EXCEPT ![a].status = "resolved", ![a].ended = now]
             /\ rows' = Insert(rows, Row(a, config.probe, "resolved", <<"resolved", 0>>,
                                         config.delivery, Suppressed(a)))
  <2>1. PICK a \in DOMAIN alarms :
             /\ alarms[a].status = "open"
             /\ alarms' = [alarms EXCEPT ![a].status = "resolved", ![a].ended = now]
             /\ rows' = Insert(rows, Row(a, config.probe, "resolved", <<"resolved", 0>>,
                                         config.delivery, Suppressed(a)))
    BY <1>4
  <2>2. PICK v \in Alarm : v = alarms[a]
    BY <1>1
  <2>3. PICK u : u = [v EXCEPT !.status = "resolved", !.ended = now]
    OBVIOUS
  <2>4. /\ u.device = v.device /\ u.probe = v.probe /\ u.opened = v.opened
        /\ u.status = "resolved" /\ u.ended = now /\ v.ended = Never
    BY <1>1, <2>1, <2>2, <2>3 DEF Alarm, Dated
  <2>5. /\ DOMAIN alarms' = DOMAIN alarms /\ alarms'[a] = u
        /\ \A b \in DOMAIN alarms \ {a} : alarms'[b] = alarms[b]
    BY <1>1, <2>1, <2>2, <2>3
  <2>6. AlarmsMove(alarms, alarms', now)
    BY <2>2, <2>4, <2>5 DEF AlarmsMove
  <2>7. Measured
    BY <1>2, <2>2, <2>4, <2>5 DEF Measured
  <2>8. PICK r : r = Row(a, config.probe, "resolved", <<"resolved", 0>>, config.delivery,
                         Suppressed(a))
    OBVIOUS
  <2>9. r.type = "resolved" /\ rows' = Insert(rows, r)
    BY <2>1, <2>8 DEF Row
  <2>10. \A i \in DOMAIN rows' \ DOMAIN rows :
           Based(rows'[i], alarms', windows', silences', latest')
    BY <1>1, <2>9, InsertedIsBased
  <2>11. QED
    BY <1>1, <2>6, <2>7, <2>10, TablesStay, StepInformed
<1>5. CASE /\ alarms' = Append(alarms, [device |-> d, ip |-> device[d].ip,
                                        probe |-> config.probe, status |-> "open",
                                        opened |-> now, ended |-> Never])
           /\ LET a == Len(alarms) + 1
              IN  rows' = Insert(rows, Row(a, config.probe, "opened", <<"opened", 0>>,
                                           config.delivery, SuppressedFor(d, a, now)))
  <2>1. PICK v : v = [device |-> d, ip |-> device[d].ip, probe |-> config.probe,
                      status |-> "open", opened |-> now, ended |-> Never]
    OBVIOUS
  <2>2. v.status = "open" /\ v.opened = now /\ v.ended = Never
    BY <2>1
  <2>3. alarms' = Append(alarms, v)
    BY <1>5, <2>1
  <2>4. /\ DOMAIN alarms \subseteq DOMAIN alarms'
        /\ \A b \in DOMAIN alarms : alarms'[b] = alarms[b]
        /\ \A b \in DOMAIN alarms' \ DOMAIN alarms : alarms'[b] = v
    BY <1>1, <2>3
  <2>5. AlarmsMove(alarms, alarms', now)
    BY <2>2, <2>4 DEF AlarmsMove
  <2>6. Measured
    BY <1>2, <2>4 DEF Measured
  <2>7. PICK r : r = Row(Len(alarms) + 1, config.probe, "opened", <<"opened", 0>>,
                         config.delivery, SuppressedFor(d, Len(alarms) + 1, now))
    OBVIOUS
  <2>8. r.type = "opened" /\ rows' = Insert(rows, r)
    BY <1>5, <2>7 DEF Row
  <2>9. \A i \in DOMAIN rows' \ DOMAIN rows :
          Based(rows'[i], alarms', windows', silences', latest')
    BY <1>1, <2>8, InsertedIsBased
  <2>10. QED
    BY <1>1, <2>5, <2>6, <2>9, TablesStay, StepInformed
<1>6. QED
  BY <1>3, <1>4, <1>5 DEF Measure

\* A change of a device drops its measurements and closes its alarms.
LEMMA UpdateDeviceInformed ==
  ASSUME IInv, EInv, Informed, Good, NEW d \in Devices, NEW ip, NEW act, UpdateDevice(d, ip, act)
  PROVE  Informed'
<1>1. /\ UNCHANGED <<now, windows, silences, rows>> /\ Rest /\ alarms \in Seq(Alarm)
      /\ latest' = [k \in DOMAIN latest |-> IF k[1] = d THEN Unmeasured ELSE latest[k]]
      /\ alarms' = [a \in DOMAIN alarms |->
                      IF alarms[a].device = d /\ alarms[a].status = "open"
                      THEN [alarms[a] EXCEPT !.status = "closed", !.ended = now]
                      ELSE alarms[a]]
  BY DEF UpdateDevice, IInv, Rest
<1>2. \A a \in DOMAIN alarms : alarms[a] \in Alarm
  <2>1. alarms \in Seq(Alarm)
    BY <1>1
  <2>2. QED
    BY <2>1
<1>3. ASSUME NEW a \in DOMAIN alarms, alarms'[a].status = "open",
             NEW k, k = <<alarms[a].device, alarms[a].probe>>
      PROVE  /\ alarms'[a] = alarms[a]
             /\ latest[k].at <= latest'[k].at
  <2>1. PICK v \in Alarm : v = alarms[a]
    BY <1>2
  <2>2. PICK u : u = [v EXCEPT !.status = "closed", !.ended = now]
    OBVIOUS
  <2>3. u.status = "closed"
    BY <2>2 DEF Alarm
  <2>4. alarms'[a] = IF v.device = d /\ v.status = "open" THEN u ELSE v
    BY <1>1, <2>1, <2>2
  <2>5. alarms'[a] = v /\ v.device # d
    BY <1>3, <2>3, <2>4
  <2>6. k \in Devices \X (Probes \cup {Simulator}) /\ k[1] # d
    BY <1>3, <2>1, <2>5 DEF Alarm
  <2>7. latest[k].at \in Nat /\ k \in DOMAIN latest
    BY <1>1, <2>6 DEF Rest
  <2>8. latest'[k] = latest[k]
    BY <1>1, <2>6, <2>7
  <2>9. QED
    BY <2>1, <2>5, <2>7, <2>8
<1>4. Measured
  BY <1>3 DEF Measured
<1>5. AlarmsMove(alarms, alarms', now)
  BY UpdateDeviceMoves
<1>6. QED
  BY <1>1, <1>4, <1>5, TablesStay, StepInformed

LEMMA NextInformed ==
  ASSUME WholeSeconds, IInv, EInv, Informed, Good, Next
  PROVE  Informed'
<1>1. ASSUME NEW d \in Devices, NEW outcome \in Outcomes, Measure(d, outcome)
      PROVE  Informed'
  BY <1>1, MeasureInformed
<1>2. ASSUME NEW d \in Devices, NEW ip \in Addresses, NEW act \in BOOLEAN,
             UpdateDevice(d, ip, act)
      PROVE  Informed'
  BY <1>2, UpdateDeviceInformed
<1>3. ASSUME NEW d \in Devices, NEW starts \in 1 .. MaxTime, NEW ends \in 1 .. MaxTime,
             CreateMaintenance(d, starts, ends)
      PROVE  Informed'
  <2>1. UNCHANGED <<feed, silences, rows>> /\ WindowsMove(windows, windows', now)
    BY <1>3, CreateMaintenanceMoves DEF CreateMaintenance
  <2>2. QED
    BY <2>1, TablesStay, QuietInformed
<1>4. ASSUME NEW w \in DOMAIN windows, CancelMaintenance(w)
      PROVE  Informed'
  <2>1. UNCHANGED <<feed, silences, rows>> /\ WindowsMove(windows, windows', now)
    BY <1>4, CancelMaintenanceMoves DEF CancelMaintenance
  <2>2. QED
    BY <2>1, TablesStay, QuietInformed
<1>5. ASSUME NEW a \in DOMAIN alarms, NEW ends \in 1 .. MaxTime, SilenceAlarm(a, ends)
      PROVE  Informed'
  BY <1>5, SilenceAlarmInformed
<1>6. ASSUME NEW s \in DOMAIN silences, CancelSilence(s)
      PROVE  Informed'
  <2>1. UNCHANGED <<feed, windows, rows>> /\ SilencesMove(silences, silences', alarms, now)
    BY <1>6, CancelSilenceMoves DEF CancelSilence
  <2>2. QED
    BY <2>1, TablesStay, QuietInformed
<1>7. CASE Claim
  BY <1>7, ClaimInformed
<1>8. ASSUME UNCHANGED <<feed, windows, silences>>, DOMAIN rows' \subseteq DOMAIN rows
      PROVE  Informed'
  BY <1>8, TablesStay, QuietInformed
<1>9. CASE TickRecover
  BY <1>8, <1>9 DEF TickRecover, RecoveredRows
<1>10. ASSUME NEW j \in work, Dispatch(j)
       PROVE  Informed'
  <2>1. UNCHANGED <<feed, windows, silences>>
    BY <1>10 DEF Dispatch, Preflight, Accept, CompleteOk, CompleteError
  <2>2. DOMAIN rows' \subseteq DOMAIN rows
    BY <1>10 DEF Dispatch, Preflight, Accept, CompleteOk, CompleteError, Leave, StartSending
  <2>3. QED
    BY <1>8, <2>1, <2>2
<1>11. ASSUME NEW p \in Probes, NEW ident \in Deliveries, NEW limit \in Limits,
              Boot(p, ident, limit)
       PROVE  Informed'
  BY <1>8, <1>11 DEF Boot, RecoveredRows
<1>12. CASE \/ ClaimFails \/ StopBegin \/ StopEnd \/ Crash \/ Restore \/ Tick
            \/ \E j \in work : LoseResult(j)
  <2>1. UNCHANGED <<feed, windows, silences, rows>>
    BY <1>12 DEF ClaimFails, StopBegin, StopEnd, Crash, Restore, Tick, LoseResult
  <2>2. QED
    BY <1>8, <2>1
<1>13. QED
  BY <1>1, <1>2, <1>3, <1>4, <1>5, <1>6, <1>7, <1>9, <1>10, <1>11, <1>12 DEF Next

LEMMA InformedInvariance ==
  ASSUME WholeSeconds
  PROVE  Spec => [](IInv /\ EInv /\ Informed)
<1>1. Init => IInv /\ EInv /\ Informed
  <2>1. Init => Informed
    BY DEF Init, Informed
  <2>2. QED
    BY <2>1, InitIInv, InitTold
<1>2. (IInv /\ EInv /\ Informed) /\ [Next]_vars => (IInv /\ EInv /\ Informed)'
  <2> SUFFICES ASSUME IInv, EInv, Informed, [Next]_vars PROVE IInv' /\ EInv' /\ Informed'
    OBVIOUS
  <2>1. Good /\ IInv'
    BY StepGood DEF Good
  <2>2. CASE Next
    BY <2>1, <2>2, NextTold, NextInformed
  <2>3. CASE UNCHANGED vars
    <3>1. UNCHANGED <<now, feed, windows, silences, rows, work>>
      BY <2>3 DEF vars, process
    <3>2. work' \subseteq work
      BY <3>1
    <3>3. EInv' /\ Informed'
      BY <2>1, <3>1, <3>2, QuietTold, QuietInformed, TablesStay
    <3>4. QED
      BY <2>1, <3>3
  <2>4. QED
    BY <2>2, <2>3
<1>3. QED
  BY <1>1, <1>2, PTL DEF Spec

\* In whole seconds: when "still unreachable" leaves, the alarm is open, its
\* target did not answer within the last FreshFor (preflight), and that
\* measurement is from after all the suppression that was over when the
\* message was queued (reconcile's comparison with the boundary).
THEOREM StatusIsNeverOld ==
  ASSUME WholeSeconds
  PROVE  Spec => StatusIsCurrent
<1>1. ASSUME IInv, EInv, Informed, Next, NEW j \in Leaving,
             rows[j.row].type = "current_status", NEW a, a = rows[j.row].alarm
      PROVE  /\ alarms[a].status = "open"
             /\ Current(a).outcome = "no_reply" /\ now - Current(a).at <= FreshFor
             /\ \A v \in MaintenanceOf(a) \cup HushOf(a) :
                  Effective(v) /\ EffectiveEnd(v) <= rows[j.row].created
                  => EffectiveEnd(v) <= Current(a).at
  <2>1. PICK k \in work : k.row = j.row
    BY <1>1, LeavingWasClaimed
  <2>2. j.row \in DOMAIN rows /\ rows[j.row].status \in Active
    BY <1>1, <2>1, JobFacts DEF Active
  <2>3. ~Outdated(j.row)
    BY <1>1, LeavingWasClaimed DEF Blocked
  <2>4. PICK m : m = Current(a)
    OBVIOUS
  <2>5. /\ alarms[a].status = "open" /\ m.outcome = "no_reply"
        /\ m.at # Never /\ now - m.at <= FreshFor
    BY <1>1, <2>3, <2>4 DEF Outdated, Fresh
  <2>6. m = latest[<<alarms[a].device, alarms[a].probe>>]
    BY <2>4, <2>5 DEF Current, Unmeasured
  <2>7. MaintenanceOf(a) = WindowsOf(a, alarms, windows) /\ HushOf(a) = SilencesOf(a, silences)
    BY DEF MaintenanceOf, HushOf, WindowsOf, SilencesOf
  <2>8. Based(rows[j.row], alarms, windows, silences, latest)
    BY <1>1, <2>2 DEF Informed
  <2>9. QED
    BY <1>1, <2>2, <2>4, <2>5, <2>6, <2>7, <2>8 DEF Based
<1>2. IInv /\ EInv /\ Informed /\ [Next]_vars
      => [\A j \in Leaving :
            LET row == rows[j.row]
                a   == row.alarm
                m   == Current(a)
            IN  row.type = "current_status"
                => /\ alarms[a].status = "open"
                   /\ m.outcome = "no_reply" /\ now - m.at <= FreshFor
                   /\ \A v \in MaintenanceOf(a) \cup HushOf(a) :
                        Effective(v) /\ EffectiveEnd(v) <= row.created
                        => EffectiveEnd(v) <= m.at]_vars
  BY <1>1
<1>3. QED
  BY <1>2, InformedInvariance, PTL DEF Spec, StatusIsCurrent
=============================================================================
