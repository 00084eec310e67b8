---------------------------- MODULE OutboxProofs -----------------------------
(***************************************************************************)
(* Theorems about Outbox for every number of devices, alarms, windows and  *)
(* silences, every clock and every configuration.                          *)
(***************************************************************************)
EXTENDS Outbox, SequenceTheorems, FiniteSetTheorems, TLAPS

(***************************************************************************)
(* Numbers and sequences.                                                  *)
(***************************************************************************)
LEMMA LeastElement ==
  ASSUME NEW T, T \subseteq Nat, T # {}
  PROVE  \E x \in T : \A y \in T : x <= y
<1> DEFINE R == {ss \in Nat \X Nat : ss[1] < ss[2]}
<1>1. IsWellFoundedOn(R, Nat)
  BY NatLessThanWellFounded DEF OpToRel
<1>2. \A x, y \in Nat : <<y, x>> \in R <=> y < x
  OBVIOUS
<1> HIDE DEF R
<1>3. PICK x \in T : \A y \in T : ~(<<y, x>> \in R)
  BY <1>1, WFMin
<1>4. ASSUME NEW y \in T
      PROVE  x <= y
  <2>1. x \in Nat /\ y \in Nat /\ ~(y < x)
    BY <1>2, <1>3
  <2>2. QED
    BY <2>1
<1>5. QED
  BY <1>4

\* A set of row ids has a last one: what Latest chooses.
LEMMA LatestIs ==
  ASSUME NEW n \in Nat, NEW S, S \subseteq 1 .. n, S # {}
  PROVE  Latest(S) \in S /\ \A j \in S : j <= Latest(S)
<1> DEFINE T == {n - m : m \in S}
<1>1. T \subseteq Nat /\ T # {}
  <2>1. PICK x \in S : TRUE
    OBVIOUS
  <2>2. n - x \in T
    BY <2>1
  <2>3. \A m \in S : n - m \in Nat
    OBVIOUS
  <2>4. QED
    BY <2>2, <2>3
<1>2. PICK y \in T : \A z \in T : y <= z
  BY <1>1, LeastElement
<1>3. PICK i \in S : y = n - i
  OBVIOUS
<1>4. \A j \in S : n - i <= n - j
  BY <1>2, <1>3
<1>5. \A j \in S : j <= i
  BY <1>4
<1>6. QED
  BY <1>5 DEF Latest

\* The delay before a retry is a number of ticks.
LEMMA BackoffType ==
  ASSUME NEW attempts \in Nat
  PROVE  Backoff(attempts) \in Nat
<1> DEFINE k == IF attempts > 0 THEN attempts - 1 ELSE 0
<1>1. k \in Nat
  OBVIOUS
<1> HIDE DEF k
<1>2. IsFiniteSet(1 .. k) /\ Cardinality(1 .. k) = k
  BY <1>1, FS_Interval
<1>3. IsFiniteSet(SUBSET (1 .. k)) /\ Cardinality(SUBSET (1 .. k)) = 2 ^ k
  BY <1>2, FS_SUBSET
<1>4. 2 ^ k \in Nat
  BY <1>3, FS_CardinalityType
<1>5. PICK p \in Nat : p = 2 ^ k
  BY <1>4
<1>6. RetryDelay \in Nat /\ RetryCap \in Nat
  BY OutboxAssumption DEF OutboxAssumption
<1>7. RetryDelay * p \in Nat
  BY <1>6
<1>8. Backoff(attempts) = IF RetryDelay * p < RetryCap THEN RetryDelay * p ELSE RetryCap
  BY <1>5 DEF Backoff, k
<1>9. QED
  BY <1>6, <1>7, <1>8

\* A listing of a set of a table's ids is a sequence of them.
LEMMA ListingLength ==
  ASSUME NEW S, IsFiniteSet(S), NEW list \in Listings(S)
  PROVE  \E n \in Nat : DOMAIN list = 1 .. n /\ \A k \in 1 .. n : list[k] \in S
<1>1. Cardinality(S) \in Nat
  BY FS_CardinalityType
<1>2. list \in [1 .. Cardinality(S) -> S]
  BY DEF Listings
<1>3. QED
  BY <1>1, <1>2
-----------------------------------------------------------------------------
(***************************************************************************)
(* Messages.                                                               *)
(***************************************************************************)
Types    == Outage \cup Resolution
Keys     == {"opened", "resolved", "maintenance", "silence", "reconcile"} \X Nat
Statuses == Active \cup Success \cup {"disabled", "failed", "suppressed", "discarded"}

LEMMA ClampType ==
  ASSUME NEW ident \in Identities, NEW p
  PROVE  /\ Clamp(ident, p) \in Identities
         /\ p = Simulator => Clamp(ident, p) \notin Routes
BY OutboxAssumption DEF OutboxAssumption, Clamp, Identities

-----------------------------------------------------------------------------
(***************************************************************************)
(* How the queue grows: rows are added at its end, and a row turns only    *)
(* from waiting to suppressed, and from suppressed to discarded or         *)
(* settled.  Everything but a dispatch changes the queue in this way.      *)
(***************************************************************************)
SameNews(r, s) ==
  <<r.alarm, r.type, r.key, r.ident, r.created>> = <<s.alarm, s.type, s.key, s.ident, s.created>>

Turns(r, s) ==
  /\ SameNews(r, s)
  /\ s.attempts = r.attempts
  /\ r.settled => s = r
  /\ s.settled => r.settled \/ s.status \notin Active
  /\ \/ s = r
     \/ /\ r.status \in {"pending", "retry", "suppressed"}
        /\ s.status \in {"suppressed", "discarded"}

\* A row that was not there before; as is the alarms table it refers to.
NewRow(r, as) ==
  /\ r.status \in {"disabled", "suppressed", "pending", "discarded"}
  /\ r.attempts = 0
  /\ r.settled => r.status \notin Active
  /\ r.alarm \in DOMAIN as
  /\ r.ident \in Routes => as[r.alarm].probe # Simulator
  /\ r.type \in Resolution => as[r.alarm].status # "open"
  /\ r.type \in Outage /\ r.status = "pending" => as[r.alarm].status = "open"

Grows(rs, rt, as) ==
  /\ rt \in Seq(Message)
  /\ DOMAIN rs \subseteq DOMAIN rt
  /\ \A i \in DOMAIN rs : Turns(rs[i], rt[i])
  /\ \A i \in DOMAIN rt \ DOMAIN rs : NewRow(rt[i], as)

LEMMA TurnsReflexive == \A r : Turns(r, r)
BY DEF Turns, SameNews

LEMMA TurnsTransitive ==
  ASSUME NEW r, NEW s, NEW t, Turns(r, s), Turns(s, t)
  PROVE  Turns(r, t)
<1>1. SameNews(r, t) /\ t.attempts = r.attempts
  BY DEF Turns, SameNews
<1>2. r.settled => t = r
  BY DEF Turns
<1>3. t.settled => r.settled \/ t.status \notin Active
  BY DEF Turns
<1>4. \/ t = r
      \/ /\ r.status \in {"pending", "retry", "suppressed"}
         /\ t.status \in {"suppressed", "discarded"}
  BY DEF Turns
<1>5. QED
  BY <1>1, <1>2, <1>3, <1>4 DEF Turns

LEMMA NewRowTurns ==
  ASSUME NEW r, NEW s, NEW as, NewRow(r, as), Turns(r, s)
  PROVE  NewRow(s, as)
<1>1. /\ s.alarm = r.alarm /\ s.ident = r.ident /\ s.type = r.type
      /\ s.attempts = r.attempts
  BY DEF Turns, SameNews
<1>2. s.status \in {"disabled", "suppressed", "pending", "discarded"}
  BY DEF NewRow, Turns
<1>3. s.settled => s.status \notin Active
  BY DEF NewRow, Turns
<1>4. s.status = "pending" => r.status = "pending"
  BY DEF Turns
<1>5. QED
  BY <1>1, <1>2, <1>3, <1>4 DEF NewRow

LEMMA GrowsTransitive ==
  ASSUME NEW rs, NEW rt, NEW ru, NEW as, Grows(rs, rt, as), Grows(rt, ru, as)
  PROVE  Grows(rs, ru, as)
<1>1. ru \in Seq(Message) /\ DOMAIN rs \subseteq DOMAIN ru
  BY DEF Grows
<1>2. ASSUME NEW i \in DOMAIN rs
      PROVE  Turns(rs[i], ru[i])
  <2>1. i \in DOMAIN rt /\ Turns(rs[i], rt[i])
    BY DEF Grows
  <2>2. Turns(rt[i], ru[i])
    BY <2>1 DEF Grows
  <2>3. QED
    BY <2>1, <2>2, TurnsTransitive
<1>3. ASSUME NEW i \in DOMAIN ru, i \notin DOMAIN rs
      PROVE  NewRow(ru[i], as)
  <2>1. CASE i \in DOMAIN rt
    <3>1. NewRow(rt[i], as) /\ Turns(rt[i], ru[i])
      BY <1>3, <2>1 DEF Grows
    <3>2. QED
      BY <3>1, NewRowTurns
  <2>2. CASE i \notin DOMAIN rt
    BY <2>2 DEF Grows
  <2>3. QED
    BY <2>1, <2>2
<1>4. QED
  BY <1>1, <1>2, <1>3 DEF Grows

LEMMA GrowsByNothing ==
  ASSUME NEW rs \in Seq(Message), NEW as
  PROVE  Grows(rs, rs, as)
BY TurnsReflexive DEF Grows

\* Rows that turn, and rows that follow them.
LEMMA GrowsBySplit ==
  ASSUME NEW rs \in Seq(Message), NEW f \in Seq(Message), NEW g \in Seq(Message), NEW as,
         Len(f) = Len(rs),
         \A i \in DOMAIN rs : Turns(rs[i], f[i]),
         \A k \in DOMAIN g : NewRow(g[k], as)
  PROVE  Grows(rs, f \o g, as)
<1>1. PICK rt : rt = f \o g
  OBVIOUS
<1>2. /\ DOMAIN rs = 1 .. Len(rs) /\ Len(rs) \in Nat
      /\ DOMAIN g = 1 .. Len(g) /\ Len(g) \in Nat
  OBVIOUS
<1>3. /\ rt \in Seq(Message) /\ Len(rt) = Len(rs) + Len(g)
      /\ \A i \in 1 .. Len(rs) : rt[i] = f[i]
      /\ \A i \in 1 .. Len(g) : rt[Len(rs) + i] = g[i]
  <2>1. /\ rt \in Seq(Message) /\ Len(rt) = Len(rs) + Len(g)
        /\ \A i \in 1 .. Len(rs) + Len(g) :
             rt[i] = IF i <= Len(rs) THEN f[i] ELSE g[i - Len(rs)]
    BY <1>1, ConcatProperties
  <2>2. \A i \in 1 .. Len(rs) : rt[i] = f[i]
    BY <1>2, <2>1
  <2>3. ASSUME NEW i \in 1 .. Len(g)
        PROVE  rt[Len(rs) + i] = g[i]
    <3>1. /\ Len(rs) + i \in 1 .. Len(rs) + Len(g) /\ ~(Len(rs) + i <= Len(rs))
          /\ (Len(rs) + i) - Len(rs) = i
      BY <1>2
    <3>2. QED
      BY <2>1, <3>1
  <2>4. QED
    BY <2>1, <2>2, <2>3
<1>4. DOMAIN rt = 1 .. Len(rs) + Len(g)
  BY <1>3
<1>5. ASSUME NEW i \in DOMAIN rt, i \notin DOMAIN rs
      PROVE  NewRow(rt[i], as)
  <2>1. i - Len(rs) \in 1 .. Len(g) /\ Len(rs) + (i - Len(rs)) = i
    BY <1>2, <1>4, <1>5
  <2>2. rt[i] = g[i - Len(rs)]
    BY <1>3, <2>1
  <2>3. QED
    BY <1>2, <2>1, <2>2
<1>6. \A i \in DOMAIN rs : i \in DOMAIN rt /\ Turns(rs[i], rt[i])
  BY <1>2, <1>3, <1>4
<1>7. Grows(rs, rt, as)
  BY <1>3, <1>5, <1>6 DEF Grows
<1>8. QED
  BY <1>1, <1>7

\* INSERT ... ON CONFLICT DO NOTHING.
LEMMA InsertGrows ==
  ASSUME NEW rs \in Seq(Message), NEW r \in Message, NEW as, NewRow(r, as)
  PROVE  Grows(rs, Insert(rs, r), as)
<1>1. CASE Known(rs, r)
  BY <1>1, GrowsByNothing DEF Insert
<1>2. CASE ~Known(rs, r)
  <2>1. Append(rs, r) = rs \o <<r>>
    OBVIOUS
  <2>2. <<r>> \in Seq(Message) /\ \A k \in DOMAIN <<r>> : <<r>>[k] = r
    OBVIOUS
  <2>3. Grows(rs, rs \o <<r>>, as)
    BY <2>2, GrowsBySplit, TurnsReflexive
  <2>4. QED
    BY <1>2, <2>1, <2>3 DEF Insert
<1>3. QED
  BY <1>1, <1>2

\* What enqueue makes of alarm a.
LEMMA EnqueueNew ==
  ASSUME NEW as \in Seq(Alarm), NEW a \in DOMAIN as,
         NEW p, NEW type \in Types, NEW key \in Keys, NEW target \in Identities,
         NEW suppressed, now \in Nat,
         p = as[a].probe,
         type \in Resolution => as[a].status # "open",
         type \in Outage /\ ~suppressed => as[a].status = "open"
  PROVE  /\ Row(a, p, type, key, target, suppressed) \in Message
         /\ NewRow(Row(a, p, type, key, target, suppressed), as)
<1> DEFINE ident  == Clamp(target, p)
           status == CASE ident = Off -> "disabled"
                       [] ident # Off /\ suppressed -> "suppressed"
                       [] OTHER -> "pending"
           next   == IF status = "pending" THEN now ELSE Never
<1>1. ident \in Identities /\ (p = Simulator => ident \notin Routes)
  BY ClampType
<1>2. /\ status \in {"disabled", "suppressed", "pending"}
      /\ ident = Off => status = "disabled"
      /\ suppressed => status # "pending"
  OBVIOUS
<1>3. next \in Nat /\ (ident = Off) \in BOOLEAN
  BY DEF Never
<1>4. Row(a, p, type, key, target, suppressed) =
        [alarm |-> a, type |-> type, key |-> key, ident |-> ident, status |-> status,
         attempts |-> 0, created |-> now, next |-> next, settled |-> ident = Off]
  BY DEF Row
<1>5. PICK st \in {"disabled", "suppressed", "pending"} :
        st = status /\ (ident = Off => st = "disabled") /\ (suppressed => st # "pending")
  BY <1>2
<1>6. PICK set \in BOOLEAN : set <=> ident = Off
  OBVIOUS
<1>7. PICK nx \in Nat : nx = next
  BY <1>3
<1>8. PICK id \in Identities : id = ident /\ (p = Simulator => id \notin Routes)
  BY <1>1
<1>9. Row(a, p, type, key, target, suppressed) =
        [alarm |-> a, type |-> type, key |-> key, ident |-> id, status |-> st,
         attempts |-> 0, created |-> now, next |-> nx, settled |-> set]
  BY <1>4, <1>5, <1>6, <1>7, <1>8
<1>10. a \in Nat
  <2>1. DOMAIN as = 1 .. Len(as) /\ Len(as) \in Nat
    BY LenProperties
  <2>2. QED
    BY <2>1
<1> HIDE DEF ident, status, next
<1>11. PICK q : q = [alarm |-> a, type |-> type, key |-> key, ident |-> id, status |-> st,
                     attempts |-> 0, created |-> now, next |-> nx, settled |-> set]
  OBVIOUS
<1>12. q \in Message
  BY <1>10, <1>11 DEF Message, Types, Keys, Active
<1>13. /\ q.alarm = a /\ q.type = type /\ q.key = key /\ q.created = now
       /\ q.ident = id /\ q.status = st /\ q.attempts = 0 /\ q.settled = set
  BY <1>11, Zenon
<1>14. q.settled => q.status = "disabled"
  BY <1>5, <1>6, <1>13, Zenon
<1>15. q.settled => q.status \notin Active
  BY <1>14 DEF Active
<1>16. /\ q.type \in Resolution => as[q.alarm].status # "open"
       /\ q.type \in Outage /\ q.status = "pending" => as[q.alarm].status = "open"
       /\ q.ident \in Routes => as[q.alarm].probe # Simulator
       /\ q.alarm \in DOMAIN as
       /\ q.status \in {"disabled", "suppressed", "pending", "discarded"}
  BY <1>5, <1>8, <1>13
<1>17. NewRow(q, as)
  BY <1>13, <1>15, <1>16 DEF NewRow
<1>18. q = Row(a, p, type, key, target, suppressed)
  BY <1>9, <1>11, Zenon
<1>19. QED
  BY <1>12, <1>17, <1>18, Zenon
-----------------------------------------------------------------------------
(***************************************************************************)
(* What holds of the rows at any time; as is the alarms table.             *)
(***************************************************************************)
\* The statuses of a message that was never sent and never will be.
Quiet == {"disabled", "suppressed", "discarded"}

RowOK(r, as) ==
  /\ r.alarm \in DOMAIN as
  /\ r.ident \in Routes => as[r.alarm].probe # Simulator
  /\ r.settled => r.status \notin Active
  /\ r.type \in Resolution => as[r.alarm].status # "open"
  /\ \E limit \in Limits : r.attempts <= limit

\* After the end of an alarm nothing is queued about its outage but what
\* stays suppressed.
Ordered(rs) ==
  \A i, j \in DOMAIN rs :
    /\ i < j /\ rs[i].alarm = rs[j].alarm
    /\ rs[i].type \in Resolution /\ rs[j].type \in Outage
    => rs[j].status \in Quiet

RowsOK(rs, as) ==
  /\ rs \in Seq(Message)
  /\ \A i \in DOMAIN rs : RowOK(rs[i], as)
  /\ Ordered(rs)

\* How the alarms table may change: an alarm that is over stays over.
Evolves(as, at) ==
  /\ DOMAIN as \subseteq DOMAIN at
  /\ \A a \in DOMAIN as :
       /\ at[a].probe = as[a].probe
       /\ as[a].status # "open" => at[a].status # "open"

LEMMA GrowsKeepsRows ==
  ASSUME NEW rs, NEW rt, NEW as, NEW at, RowsOK(rs, as), Evolves(as, at), Grows(rs, rt, at)
  PROVE  RowsOK(rt, at)
<1>1. rs \in Seq(Message) /\ rt \in Seq(Message) /\ DOMAIN rs \subseteq DOMAIN rt
  BY DEF RowsOK, Grows
<1>2. DOMAIN rs = 1 .. Len(rs) /\ DOMAIN rt = 1 .. Len(rt) /\ Len(rs) \in Nat /\ Len(rt) \in Nat
  BY <1>1
<1>3. ASSUME NEW i \in DOMAIN rt
      PROVE  RowOK(rt[i], at)
  <2>1. CASE i \in DOMAIN rs
    <3>1. RowOK(rs[i], as) /\ Turns(rs[i], rt[i])
      BY <2>1 DEF RowsOK, Grows
    <3>2. /\ rt[i].alarm = rs[i].alarm /\ rt[i].type = rs[i].type /\ rt[i].ident = rs[i].ident
          /\ rt[i].attempts = rs[i].attempts
      BY <3>1 DEF Turns, SameNews
    <3> PICK set, old \in BOOLEAN : (set <=> rt[i].settled) /\ (old <=> rs[i].settled)
      OBVIOUS
    <3>3. set => rt[i].status \notin Active
      BY <3>1 DEF Turns, RowOK
    <3>4. QED
      BY <3>1, <3>2, <3>3 DEF RowOK, Evolves
  <2>2. CASE i \notin DOMAIN rs
    <3>1. NewRow(rt[i], at)
      BY <2>2 DEF Grows
    <3>2. \E limit \in Limits : 0 <= limit
      <4>1. PICK limit \in Limits : limit \in Nat
        BY OutboxAssumption DEF OutboxAssumption
      <4>2. 0 <= limit
        BY <4>1
      <4>3. QED
        BY <4>2
    <3>3. QED
      BY <3>1, <3>2 DEF RowOK, NewRow
  <2>3. QED
    BY <2>1, <2>2
<1>4. ASSUME NEW i \in DOMAIN rt, NEW j \in DOMAIN rt,
             i < j, rt[i].alarm = rt[j].alarm, rt[i].type \in Resolution, rt[j].type \in Outage
      PROVE  rt[j].status \in Quiet
  <2>1. CASE j \in DOMAIN rs
    <3>1. i \in DOMAIN rs
      BY <1>2, <1>4, <2>1
    <3>2. Turns(rs[i], rt[i]) /\ Turns(rs[j], rt[j])
      BY <2>1, <3>1 DEF Grows
    <3>3. rs[j].status \in Quiet
      <4>1. /\ rs[i].alarm = rs[j].alarm
            /\ rs[i].type \in Resolution /\ rs[j].type \in Outage
        BY <1>4, <3>2 DEF Turns, SameNews
      <4>2. QED
        BY <1>4, <2>1, <3>1, <4>1 DEF RowsOK, Ordered
    <3>4. QED
      BY <3>2, <3>3 DEF Turns, Quiet
  <2>2. CASE j \notin DOMAIN rs
    <3>1. NewRow(rt[j], at)
      BY <2>2 DEF Grows
    <3>2. at[rt[j].alarm].status # "open"
      BY <1>3, <1>4 DEF RowOK
    <3>3. QED
      BY <1>4, <3>1, <3>2 DEF NewRow, Quiet
  <2>3. QED
    BY <2>1, <2>2
<1>5. QED
  BY <1>1, <1>3, <1>4 DEF RowsOK, Ordered
-----------------------------------------------------------------------------
(***************************************************************************)
(* The claim transaction, before it picks: reconciliation grows the queue. *)
(***************************************************************************)
LEMMA CapturesAreFinite ==
  ASSUME TypeOK
  PROVE  IsFiniteSet(Captures)
<1>1. /\ DOMAIN windows = 1 .. Len(windows) /\ Len(windows) \in Nat
      /\ DOMAIN alarms = 1 .. Len(alarms) /\ Len(alarms) \in Nat
  BY DEF TypeOK
<1>2. IsFiniteSet(DOMAIN windows) /\ IsFiniteSet(DOMAIN alarms)
  BY <1>1, FS_Interval
<1>3. DueWindows \subseteq DOMAIN windows
  BY DEF DueWindows
<1>4. IsFiniteSet(DueWindows)
  BY <1>2, <1>3, FS_Subset
<1>5. IsFiniteSet(DueWindows \X DOMAIN alarms)
  BY ONLY <1>2, <1>4, FS_Product, Zenon
<1>6. Captures \subseteq DueWindows \X DOMAIN alarms
  BY DEF Captures
<1>7. QED
  BY <1>5, <1>6, FS_Subset

LEMMA CaptureRowNew ==
  ASSUME TypeOK, NEW c \in Captures
  PROVE  CaptureRow(c) \in Message /\ NewRow(CaptureRow(c), alarms)
<1>1. PICK w \in DOMAIN windows, a \in DOMAIN alarms : c[1] = w /\ c[2] = a
  <2>1. c \in DueWindows \X DOMAIN alarms
    BY DEF Captures
  <2>2. c[1] \in DOMAIN windows /\ c[2] \in DOMAIN alarms
    BY <2>1 DEF DueWindows
  <2>3. QED
    BY <2>2
<1>2. alarms \in Seq(Alarm) /\ windows \in Seq(Window) /\ now \in Nat
  <2>1. now \in 1 .. MaxTime /\ MaxTime \in Nat
    BY OutboxAssumption DEF OutboxAssumption, TypeOK
  <2>2. QED
    BY <2>1 DEF TypeOK
<1>3. w \in Nat /\ windows[w].ident \in Identities
  <2>1. DOMAIN windows = 1 .. Len(windows) /\ Len(windows) \in Nat
    BY <1>2
  <2>2. windows[w] \in Window
    BY <1>2
  <2>3. QED
    BY <2>1, <2>2 DEF Window
<1>4. <<"maintenance", w>> \in Keys /\ "current_status" \in Types /\ "current_status" \notin Resolution
  BY <1>3 DEF Keys, Types, Outage, Resolution
<1>5. PICK p : p = alarms[a].probe
  OBVIOUS
<1>6. /\ Row(a, p, "current_status", <<"maintenance", w>>, windows[w].ident, TRUE) \in Message
      /\ NewRow(Row(a, p, "current_status", <<"maintenance", w>>, windows[w].ident, TRUE), alarms)
  BY <1>2, <1>3, <1>4, <1>5, EnqueueNew
<1>7. QED
  BY <1>1, <1>5, <1>6 DEF CaptureRow

LEMMA CaptureRowsGrow ==
  ASSUME TypeOK, RowsOK(rows, alarms),
         NEW S, S \subseteq Captures, NEW captured \in Listings(S)
  PROVE  Grows(rows, CapturedRows(captured), alarms)
<1> DEFINE f == [i \in DOMAIN rows |-> IF Captured(rows[i])
                                       THEN [rows[i] EXCEPT !.status = "suppressed"]
                                       ELSE rows[i]]
           g == [k \in DOMAIN captured |-> CaptureRow(captured[k])]
<1>1. rows \in Seq(Message) /\ DOMAIN rows = 1 .. Len(rows) /\ Len(rows) \in Nat
  BY DEF TypeOK
<1>2. ASSUME NEW i \in DOMAIN rows
      PROVE  f[i] \in Message /\ Turns(rows[i], f[i])
  <2>1. PICK r \in Message : r = rows[i]
    BY <1>1
  <2>2. r.settled => r.status \notin Active
    BY <2>1 DEF RowsOK, RowOK
  <2>3. CASE Captured(rows[i])
    <3>1. r.status \in {"pending", "retry"} /\ ~r.settled
      BY <2>1, <2>2, <2>3 DEF Captured, Active
    <3>2. PICK s : s = [r EXCEPT !.status = "suppressed"]
      OBVIOUS
    <3>3. /\ s \in Message
          /\ s.status = "suppressed" /\ s.attempts = r.attempts /\ s.settled = r.settled
          /\ SameNews(r, s)
      BY <3>2 DEF Message, SameNews
    <3>4. Turns(r, s)
      BY <3>1, <3>3 DEF Turns
    <3>5. QED
      BY <2>1, <2>3, <3>2, <3>3, <3>4
  <2>4. CASE ~Captured(rows[i])
    BY <1>1, <2>4, TurnsReflexive
  <2>5. QED
    BY <2>3, <2>4
<1>3. f \in Seq(Message) /\ Len(f) = Len(rows)
  BY <1>1, <1>2
<1>4. PICK n \in Nat : DOMAIN captured = 1 .. n /\ \A k \in 1 .. n : captured[k] \in S
  BY CapturesAreFinite, FS_Subset, ListingLength
<1>5. ASSUME NEW k \in 1 .. n
      PROVE  g[k] \in Message /\ NewRow(g[k], alarms)
  <2>1. captured[k] \in Captures
    BY <1>4
  <2>2. QED
    BY <1>4, <2>1, CaptureRowNew
<1>6. g \in Seq(Message) /\ DOMAIN g = 1 .. n
  BY <1>4, <1>5
<1>7. CapturedRows(captured) = f \o g
  BY DEF CapturedRows
<1> HIDE DEF f, g
<1>8. QED
  BY <1>1, <1>2, <1>3, <1>5, <1>6, <1>7, GrowsBySplit

LEMMA SummaryRowNew ==
  ASSUME TypeOK, NEW rs \in Seq(Message), NEW a \in Summarised(rs)
  PROVE  SummaryRow(rs, a) \in Message /\ NewRow(SummaryRow(rs, a), alarms)
<1>1. a \in DOMAIN alarms /\ Compatible(rs, a) # {}
  BY DEF Summarised, Reconcilable
<1>2. alarms \in Seq(Alarm) /\ now \in Nat /\ config.delivery \in Identities
  <2>1. now \in 1 .. MaxTime /\ MaxTime \in Nat
    BY OutboxAssumption DEF OutboxAssumption, TypeOK
  <2>2. QED
    BY <2>1 DEF TypeOK
<1>3. Latest(Compatible(rs, a)) \in Nat
  <2>1. DOMAIN rs = 1 .. Len(rs) /\ Len(rs) \in Nat
    OBVIOUS
  <2>2. Compatible(rs, a) \subseteq 1 .. Len(rs)
    BY <2>1 DEF Compatible, Unsettled
  <2>3. Latest(Compatible(rs, a)) \in 1 .. Len(rs)
    BY <1>1, <2>1, <2>2, LatestIs
  <2>4. QED
    BY <2>1, <2>3
<1>4. PICK key \in Keys : key = <<"reconcile", Latest(Compatible(rs, a))>>
  BY <1>3 DEF Keys
<1>5. PICK type \in Types :
        /\ type = IF alarms[a].status = "open" THEN "current_status" ELSE "resolved_summary"
        /\ type \in Resolution => alarms[a].status # "open"
        /\ type \in Outage => alarms[a].status = "open"
  BY DEF Types, Outage, Resolution
<1>6. PICK p : p = alarms[a].probe
  OBVIOUS
<1>7. /\ Row(a, p, type, key, config.delivery, FALSE) \in Message
      /\ NewRow(Row(a, p, type, key, config.delivery, FALSE), alarms)
  BY <1>1, <1>2, <1>5, <1>6, EnqueueNew
<1>8. SummaryRow(rs, a) = Row(a, p, type, key, config.delivery, FALSE)
  BY <1>4, <1>5, <1>6 DEF SummaryRow
<1>9. QED
  BY <1>7, <1>8

LEMMA SummariesAreFinite ==
  ASSUME TypeOK, NEW rs
  PROVE  IsFiniteSet(Summarised(rs))
<1>1. DOMAIN alarms = 1 .. Len(alarms) /\ Len(alarms) \in Nat
  BY DEF TypeOK
<1>2. IsFiniteSet(DOMAIN alarms)
  BY <1>1, FS_Interval
<1>3. Summarised(rs) \subseteq DOMAIN alarms
  BY DEF Summarised, Reconcilable
<1>4. QED
  BY <1>2, <1>3, FS_Subset

LEMMA ReconciledRowsGrow ==
  ASSUME TypeOK, NEW rs, RowsOK(rs, alarms),
         NEW S, S \subseteq Summarised(rs), NEW told \in Listings(S)
  PROVE  Grows(rs, ReconciledRows(rs, told), alarms)
<1> DEFINE settled(a) == NothingToTell(rs, a) \/ a \in Summarised(rs)
           f == [i \in DOMAIN rs |->
                   LET a == rs[i].alarm
                   IN  IF i \notin Unsettled(rs, a) \/ Suppressed(a) THEN rs[i]
                       ELSE IF i \notin Compatible(rs, a)
                            THEN [rs[i] EXCEPT !.status = "discarded", !.settled = TRUE]
                            ELSE [rs[i] EXCEPT !.settled = settled(a)]]
           g == [k \in DOMAIN told |-> SummaryRow(rs, told[k])]
<1>1. rs \in Seq(Message) /\ DOMAIN rs = 1 .. Len(rs) /\ Len(rs) \in Nat
  BY DEF RowsOK
<1>2. ASSUME NEW i \in DOMAIN rs
      PROVE  f[i] \in Message /\ Turns(rs[i], f[i])
  <2>1. PICK r \in Message : r = rs[i]
    BY <1>1
  <2>2. CASE i \notin Unsettled(rs, r.alarm) \/ Suppressed(r.alarm)
    BY <2>1, <2>2, TurnsReflexive
  <2>3. CASE i \in Unsettled(rs, r.alarm) /\ ~Suppressed(r.alarm) /\ i \notin Compatible(rs, r.alarm)
    <3>1. r.status = "suppressed" /\ ~r.settled
      BY <2>1, <2>3 DEF Unsettled
    <3>2. PICK s : s = [r EXCEPT !.status = "discarded", !.settled = TRUE]
      OBVIOUS
    <3>3. /\ s \in Message /\ s.status = "discarded" /\ s.attempts = r.attempts
          /\ SameNews(r, s)
      BY <3>2 DEF Message, SameNews
    <3>4. Turns(r, s)
      BY <3>1, <3>3 DEF Turns, Active
    <3>5. QED
      BY <2>1, <2>3, <3>2, <3>3, <3>4
  <2>4. CASE i \in Unsettled(rs, r.alarm) /\ ~Suppressed(r.alarm) /\ i \in Compatible(rs, r.alarm)
    <3>1. r.status = "suppressed" /\ ~r.settled
      BY <2>1, <2>4 DEF Unsettled
    <3>2. PICK set \in BOOLEAN : set = settled(r.alarm)
      OBVIOUS
    <3>3. PICK s : s = [r EXCEPT !.settled = set]
      OBVIOUS
    <3>4. /\ s \in Message /\ s.status = r.status /\ s.attempts = r.attempts
          /\ SameNews(r, s)
      BY <3>3 DEF Message, SameNews
    <3>5. Turns(r, s)
      BY <3>1, <3>4 DEF Turns, Active
    <3>6. f[i] = s
      BY <2>1, <2>4, <3>2, <3>3
    <3>7. QED
      BY <2>1, <3>4, <3>5, <3>6
  <2>5. QED
    BY <2>2, <2>3, <2>4
<1>3. f \in Seq(Message) /\ Len(f) = Len(rs)
  <2>1. f = [i \in DOMAIN rs |-> f[i]]
    BY Zenon
  <2> HIDE DEF f
  <2>2. QED
    BY <1>1, <1>2, <2>1
<1>4. PICK n \in Nat : DOMAIN told = 1 .. n /\ \A k \in 1 .. n : told[k] \in S
  BY SummariesAreFinite, FS_Subset, ListingLength
<1>5. ASSUME NEW k \in 1 .. n
      PROVE  g[k] \in Message /\ NewRow(g[k], alarms)
  BY <1>1, <1>4, SummaryRowNew
<1>6. g \in Seq(Message) /\ DOMAIN g = 1 .. n
  BY <1>4, <1>5
<1>7. ReconciledRows(rs, told) = f \o g
  BY Zenon DEF ReconciledRows
<1> HIDE DEF f, g
<1>8. QED
  BY <1>1, <1>2, <1>3, <1>5, <1>6, <1>7, GrowsBySplit
-----------------------------------------------------------------------------
(***************************************************************************)
(* What holds of the rows rs, the dispatches ws and the history ss.        *)
(***************************************************************************)
FirstSending(rs) ==
  \A i, k \in DOMAIN rs :
    rs[i].status = "sending" /\ rs[k].status \in Active /\ rs[i].alarm = rs[k].alarm => i <= k

NoneSending(rs) == \A i \in DOMAIN rs : rs[i].status # "sending"

JobsOK(rs, ws) ==
  /\ \A j \in ws : j.row \in DOMAIN rs /\ rs[j.row].status = "sending"
  /\ \A j, k \in ws : j.row = k.row => j = k
  /\ IsFiniteSet(ws) /\ Cardinality(ws) <= Concurrency

\* When a message was sent, everything before it was over.
Past(rs, ss) ==
  \A p \in DOMAIN ss, k \in DOMAIN rs :
    k < ss[p] /\ rs[k].alarm = rs[ss[p]].alarm => rs[k].status \notin Active

Handed(ss, i) == Cardinality({p \in DOMAIN ss : ss[p] = i})

\* Before an attempt is handed over it is counted.
Accounted(rs, ws, ss) ==
  /\ \A i \in DOMAIN rs : /\ rs[i].status \in Success => Handed(ss, i) > 0
                          /\ Handed(ss, i) <= rs[i].attempts
  /\ \A j \in ws : /\ j.phase = "sending" => Handed(ss, j.row) < rs[j.row].attempts
                   /\ j.phase = "accepted" => Handed(ss, j.row) > 0

LEMMA HandedType ==
  ASSUME NEW T, NEW ss \in Seq(T), NEW i
  PROVE  IsFiniteSet({p \in DOMAIN ss : ss[p] = i}) /\ Handed(ss, i) \in Nat
<1>1. DOMAIN ss = 1 .. Len(ss) /\ Len(ss) \in Nat
  OBVIOUS
<1>2. IsFiniteSet(DOMAIN ss)
  BY <1>1, FS_Interval
<1>3. IsFiniteSet({p \in DOMAIN ss : ss[p] = i})
  BY <1>2, FS_Subset
<1>4. QED
  BY <1>3, FS_CardinalityType DEF Handed

\* What is not in the history was not handed over.
LEMMA HandedNever ==
  ASSUME NEW T, NEW ss \in Seq(T), NEW i, i \notin T
  PROVE  Handed(ss, i) = 0
<1>1. \A p \in DOMAIN ss : ss[p] \in T
  OBVIOUS
<1>2. {p \in DOMAIN ss : ss[p] = i} = {}
  BY <1>1
<1>3. QED
  BY <1>2, FS_EmptySet DEF Handed

LEMMA GrowsKeepsQueue ==
  ASSUME NEW rs \in Seq(Message), NEW rt, NEW as, NEW ws, Grows(rs, rt, as)
  PROVE  /\ FirstSending(rs) => FirstSending(rt)
         /\ JobsOK(rs, ws) => JobsOK(rt, ws)
         /\ NoneSending(rs) => NoneSending(rt)
<1>1. rt \in Seq(Message) /\ DOMAIN rs \subseteq DOMAIN rt
  BY DEF Grows
<1>2. DOMAIN rs = 1 .. Len(rs) /\ DOMAIN rt = 1 .. Len(rt) /\ Len(rs) \in Nat /\ Len(rt) \in Nat
  BY <1>1
<1>3. ASSUME NEW i \in DOMAIN rt, rt[i].status = "sending"
      PROVE  i \in DOMAIN rs /\ rs[i] = rt[i]
  <2>1. i \in DOMAIN rs
    BY <1>3 DEF Grows, NewRow
  <2>2. Turns(rs[i], rt[i])
    BY <2>1 DEF Grows
  <2>3. QED
    BY <1>3, <2>1, <2>2 DEF Turns
<1>4. ASSUME NEW i \in DOMAIN rs, rt[i].status \in Active
      PROVE  rs[i] = rt[i]
  BY <1>4 DEF Grows, Turns, Active
<1>5. ASSUME NEW i \in DOMAIN rs, rs[i].status = "sending"
      PROVE  rs[i] = rt[i]
  BY <1>5 DEF Grows, Turns
<1>6. ASSUME FirstSending(rs), NEW i \in DOMAIN rt, NEW k \in DOMAIN rt,
             rt[i].status = "sending", rt[k].status \in Active, rt[i].alarm = rt[k].alarm
      PROVE  i <= k
  <2>1. i \in DOMAIN rs /\ rs[i] = rt[i]
    BY <1>3, <1>6
  <2>2. CASE k \in DOMAIN rs
    BY <1>4, <1>6, <2>1, <2>2 DEF FirstSending
  <2>3. CASE k \notin DOMAIN rs
    BY <1>2, <2>1, <2>3
  <2>4. QED
    BY <2>2, <2>3
<1>7. ASSUME JobsOK(rs, ws), NEW j \in ws
      PROVE  j.row \in DOMAIN rt /\ rt[j.row].status = "sending"
  BY <1>1, <1>5, <1>7 DEF JobsOK
<1>8. FirstSending(rs) => FirstSending(rt)
  BY <1>6 DEF FirstSending
<1>9. JobsOK(rs, ws) => JobsOK(rt, ws)
  BY <1>7 DEF JobsOK
<1>10. NoneSending(rs) => NoneSending(rt)
  BY <1>3 DEF NoneSending
<1>11. QED
  BY <1>8, <1>9, <1>10

LEMMA GrowsKeepsHistory ==
  ASSUME NEW rs \in Seq(Message), NEW rt, NEW as, NEW ws, Grows(rs, rt, as),
         NEW ss \in Seq(DOMAIN rs), \A j \in ws : j.row \in DOMAIN rs
  PROVE  /\ ss \in Seq(DOMAIN rt)
         /\ Past(rs, ss) => Past(rt, ss)
         /\ Accounted(rs, ws, ss) => Accounted(rt, ws, ss)
<1>1. rt \in Seq(Message) /\ DOMAIN rs \subseteq DOMAIN rt
  BY DEF Grows
<1>2. DOMAIN rs = 1 .. Len(rs) /\ DOMAIN rt = 1 .. Len(rt) /\ Len(rs) \in Nat /\ Len(rt) \in Nat
  BY <1>1
<1>3. \A p \in DOMAIN ss : ss[p] \in DOMAIN rs
  OBVIOUS
<1>4. ss \in Seq(DOMAIN rt)
  <2>1. Len(ss) \in Nat /\ ss \in [1 .. Len(ss) -> DOMAIN rs]
    OBVIOUS
  <2>2. ss \in [1 .. Len(ss) -> DOMAIN rt]
    BY <1>1, <2>1
  <2>3. QED
    BY <2>1, <2>2
<1>5. ASSUME NEW i \in DOMAIN rs
      PROVE  /\ rt[i].alarm = rs[i].alarm /\ rt[i].attempts = rs[i].attempts
             /\ rt[i].status \in Active => rs[i].status \in Active
             /\ rt[i].status \in Success => rs[i].status \in Success
  BY DEF Grows, Turns, SameNews, Active, Success
<1>6. ASSUME Past(rs, ss), NEW p \in DOMAIN ss, NEW k \in DOMAIN rt,
             k < ss[p], rt[k].alarm = rt[ss[p]].alarm
      PROVE  rt[k].status \notin Active
  <2>1. k \in DOMAIN rs
    BY <1>2, <1>3, <1>6
  <2>2. QED
    BY <1>3, <1>5, <1>6, <2>1 DEF Past
<1>7. ASSUME NEW i \in DOMAIN rt, i \notin DOMAIN rs
      PROVE  rt[i].status \notin Success /\ Handed(ss, i) <= rt[i].attempts
  <2>1. NewRow(rt[i], as)
    BY <1>7 DEF Grows
  <2>2. Handed(ss, i) = 0
    BY <1>7, HandedNever
  <2>3. QED
    BY <2>1, <2>2 DEF NewRow, Success
<1>8. ASSUME Accounted(rs, ws, ss)
      PROVE  Accounted(rt, ws, ss)
  <2>1. ASSUME NEW i \in DOMAIN rt
        PROVE  /\ rt[i].status \in Success => Handed(ss, i) > 0
               /\ Handed(ss, i) <= rt[i].attempts
    BY <1>5, <1>7, <1>8 DEF Accounted
  <2>2. ASSUME NEW j \in ws
        PROVE  /\ j.phase = "sending" => Handed(ss, j.row) < rt[j.row].attempts
               /\ j.phase = "accepted" => Handed(ss, j.row) > 0
    BY <1>5, <1>8 DEF Accounted
  <2>3. QED
    BY <2>1, <2>2 DEF Accounted
<1>9. QED
  BY <1>4, <1>6, <1>8 DEF Past
-----------------------------------------------------------------------------
(***************************************************************************)
(* Claims: the first rows of some alarms are marked.                       *)
(***************************************************************************)
\* Lowest takes no more than there are slots.
LEMMA LowestFew ==
  ASSUME NEW n \in Nat, NEW S, S \subseteq 1 .. n
  PROVE  /\ Lowest(S) \subseteq S /\ IsFiniteSet(Lowest(S))
         /\ Cardinality(Lowest(S)) <= Concurrency
<1> DEFINE L == Lowest(S)
<1>1. L \subseteq S /\ L \subseteq 1 .. n
  BY DEF Lowest
<1>2. IsFiniteSet(1 .. n)
  BY FS_Interval
<1>3. IsFiniteSet(L) /\ IsFiniteSet(S)
  BY <1>1, <1>2, FS_Subset
<1>4. Concurrency \in Nat
  BY OutboxAssumption DEF OutboxAssumption
<1>5. CASE L = {}
  <2>1. Cardinality(L) = 0
    BY <1>5, FS_EmptySet
  <2>2. QED
    BY <1>1, <1>3, <1>4, <2>1
<1>6. CASE L # {}
  <2>1. PICK m \in L : \A j \in L : j <= m
    BY <1>1, <1>6, LatestIs
  <2>2. m \in S /\ Cardinality({j \in S : j < m}) < Concurrency
    BY <2>1 DEF Lowest
  <2>3. L \ {m} \subseteq {j \in S : j < m}
    BY <1>1, <2>1
  <2>4. IsFiniteSet({j \in S : j < m})
    BY <1>3, FS_Subset
  <2>5. Cardinality(L \ {m}) <= Cardinality({j \in S : j < m})
    BY <2>3, <2>4, FS_Subset
  <2>6. Cardinality(L \ {m}) = Cardinality(L) - 1
    BY <1>3, <2>1, FS_RemoveElement
  <2>7. Cardinality(L) \in Nat /\ Cardinality({j \in S : j < m}) \in Nat
    BY <1>3, <2>4, FS_CardinalityType
  <2> HIDE DEF L
  <2>8. Cardinality(L) <= Concurrency
    BY <1>4, <2>2, <2>5, <2>6, <2>7
  <2>9. QED
    BY <1>1, <1>3, <2>8 DEF L
<1>7. QED
  BY <1>5, <1>6

\* rt is rs with the rows of picked marked as being sent.
Picks(rs, rt, picked) ==
  /\ rt \in Seq(Message) /\ DOMAIN rt = DOMAIN rs
  /\ \A i \in DOMAIN rs :
       /\ SameNews(rs[i], rt[i])
       /\ rt[i].attempts = rs[i].attempts /\ rt[i].settled = rs[i].settled
       /\ i \in picked => rt[i].status = "sending"
       /\ i \notin picked => rt[i] = rs[i]

LEMMA PicksRows ==
  ASSUME NEW rs \in Seq(Message), NEW picked,
         NEW rt, rt = [i \in DOMAIN rs |-> IF i \in picked THEN [rs[i] EXCEPT !.status = "sending"]
                                                       ELSE rs[i]]
  PROVE  Picks(rs, rt, picked)
<1>1. DOMAIN rs = 1 .. Len(rs) /\ Len(rs) \in Nat
  OBVIOUS
<1>2. DOMAIN rt = DOMAIN rs
  OBVIOUS
<1>3. ASSUME NEW i \in DOMAIN rs
      PROVE  /\ rt[i] \in Message /\ SameNews(rs[i], rt[i])
             /\ rt[i].attempts = rs[i].attempts /\ rt[i].settled = rs[i].settled
             /\ i \in picked => rt[i].status = "sending"
             /\ i \notin picked => rt[i] = rs[i]
  <2>1. PICK r \in Message : r = rs[i]
    OBVIOUS
  <2>2. CASE i \in picked
    <3>1. PICK s : s = [r EXCEPT !.status = "sending"]
      OBVIOUS
    <3>2. /\ s \in Message /\ s.status = "sending" /\ s.attempts = r.attempts
          /\ s.settled = r.settled /\ SameNews(r, s)
      BY <3>1 DEF Message, SameNews, Active
    <3>3. rt[i] = s
      BY <2>1, <2>2, <3>1
    <3>4. QED
      BY <2>1, <2>2, <3>2, <3>3
  <2>3. CASE i \notin picked
    BY <2>1, <2>3 DEF SameNews
  <2>4. QED
    BY <2>2, <2>3
<1>4. rt \in Seq(Message)
  <2>1. rt = [i \in 1 .. Len(rs) |-> rt[i]]
    BY <1>1
  <2>2. QED
    BY <1>1, <1>3, <2>1
<1>5. QED
  BY <1>2, <1>3, <1>4 DEF Picks

LEMMA PicksKeep ==
  ASSUME NEW rs, NEW as, RowsOK(rs, as), NoneSending(rs),
         NEW picked, picked = Lowest(Ready(rs)), NEW rt, Picks(rs, rt, picked),
         NEW ws, ws = {[row |-> i, phase |-> "claimed", at |-> now] : i \in picked}
  PROVE  /\ RowsOK(rt, as) /\ FirstSending(rt) /\ JobsOK(rt, ws)
         /\ \A ss : Past(rs, ss) /\ (\A p \in DOMAIN ss : ss[p] \in DOMAIN rs) => Past(rt, ss)
         /\ \A ss : Accounted(rs, {}, ss) => Accounted(rt, ws, ss)
<1>1. rs \in Seq(Message) /\ DOMAIN rs = 1 .. Len(rs) /\ Len(rs) \in Nat
  BY DEF RowsOK
<1>2. Ready(rs) \subseteq 1 .. Len(rs)
  BY <1>1 DEF Ready
<1>3. picked \subseteq Ready(rs) /\ IsFiniteSet(picked) /\ Cardinality(picked) <= Concurrency
  BY <1>1, <1>2, LowestFew
<1>4. \A i \in picked : /\ i \in DOMAIN rs /\ IsFirst(rs, i)
                       /\ rs[i].status \in {"pending", "retry"}
  BY <1>3 DEF Ready
<1>5. rt \in Seq(Message) /\ DOMAIN rt = DOMAIN rs
  BY DEF Picks
<1>6. ASSUME NEW i \in DOMAIN rs
      PROVE  /\ SameNews(rs[i], rt[i])
             /\ rt[i].attempts = rs[i].attempts /\ rt[i].settled = rs[i].settled
             /\ i \in picked => rt[i].status = "sending"
             /\ i \notin picked => rt[i] = rs[i]
  BY DEF Picks
<1>7. ASSUME NEW i \in DOMAIN rs
      PROVE  /\ rt[i].status \in Active => rs[i].status \in Active
             /\ rt[i].status \in Success => rs[i].status \in Success
             /\ rs[i].status \in Quiet => rt[i].status \in Quiet
             /\ rt[i].status = "sending" => i \in picked
  BY <1>4, <1>6 DEF Active, Success, Quiet, NoneSending
<1>8. ASSUME NEW i \in DOMAIN rs
      PROVE  RowOK(rt[i], as)
  <2>1. RowOK(rs[i], as)
    BY DEF RowsOK
  <2>2. CASE i \in picked
    <3>1. ~rs[i].settled
      BY <1>4, <2>1, <2>2 DEF RowOK, Active
    <3>2. /\ rt[i].alarm = rs[i].alarm /\ rt[i].type = rs[i].type /\ rt[i].ident = rs[i].ident
          /\ rt[i].attempts = rs[i].attempts
      BY <1>6 DEF SameNews
    <3>3. ~rt[i].settled
      BY <1>6, <3>1
    <3>4. QED
      BY <2>1, <3>2, <3>3 DEF RowOK
  <2>3. CASE i \notin picked
    BY <1>6, <2>1, <2>3
  <2>4. QED
    BY <2>2, <2>3
<1>9. Ordered(rt)
  <2>1. Ordered(rs)
    BY DEF RowsOK
  <2>2. QED
    BY <1>5, <1>6, <1>7, <2>1 DEF Ordered, SameNews
<1>10. RowsOK(rt, as)
  BY <1>5, <1>8, <1>9 DEF RowsOK
<1>11. FirstSending(rt)
  <2>1. ASSUME NEW i \in DOMAIN rs, NEW k \in DOMAIN rs,
               rt[i].status = "sending", rt[k].status \in Active, rt[i].alarm = rt[k].alarm
        PROVE  i <= k
    <3>1. IsFirst(rs, i) /\ rs[k].status \in Active
      BY <1>4, <1>7, <2>1
    <3>2. rs[i].alarm = rs[k].alarm
      BY <1>6, <2>1 DEF SameNews
    <3>3. QED
      BY <3>1, <3>2 DEF IsFirst
  <2>2. QED
    BY <1>5, <2>1 DEF FirstSending
<1>12. JobsOK(rt, ws)
  <2>1. ASSUME NEW j \in ws
        PROVE  j.row \in picked /\ j = [row |-> j.row, phase |-> "claimed", at |-> now]
    OBVIOUS
  <2>2. \A j \in ws : j.row \in DOMAIN rt /\ rt[j.row].status = "sending"
    BY <1>4, <1>5, <1>6, <2>1
  <2>3. \A j, k \in ws : j.row = k.row => j = k
    BY <2>1
  <2>4. IsFiniteSet(ws) /\ Cardinality(ws) <= Cardinality(picked)
    <3> DEFINE job == [i \in picked |-> [row |-> i, phase |-> "claimed", at |-> now]]
    <3>1. job \in Surjection(picked, ws)
      BY DEF Surjection
    <3>2. QED
      BY <1>3, <3>1, FS_Surjection
  <2>5. Cardinality(ws) <= Concurrency
    <3>1. Cardinality(ws) \in Nat /\ Cardinality(picked) \in Nat /\ Concurrency \in Nat
      BY <1>3, <2>4, FS_CardinalityType, OutboxAssumption DEF OutboxAssumption
    <3>2. QED
      BY <1>3, <2>4, <3>1
  <2>6. QED
    BY <2>2, <2>3, <2>4, <2>5 DEF JobsOK
<1>13. ASSUME NEW ss, Past(rs, ss), \A p \in DOMAIN ss : ss[p] \in DOMAIN rs
       PROVE  Past(rt, ss)
  BY <1>5, <1>6, <1>7, <1>13 DEF Past, SameNews
<1>14. ASSUME NEW ss, Accounted(rs, {}, ss)
       PROVE  Accounted(rt, ws, ss)
  <2>1. \A j \in ws : j.phase = "claimed"
    OBVIOUS
  <2>2. \A i \in DOMAIN rt : /\ rt[i].status \in Success => Handed(ss, i) > 0
                            /\ Handed(ss, i) <= rt[i].attempts
    BY <1>5, <1>6, <1>7, <1>14 DEF Accounted
  <2>3. QED
    BY <2>1, <2>2 DEF Accounted
<1>15. QED
  BY <1>10, <1>11, <1>12, <1>13, <1>14
-----------------------------------------------------------------------------
(***************************************************************************)
(* The ends of attempts: rows that are no longer being sent.               *)
(***************************************************************************)
Over(r, s) ==
  /\ r.status = "sending" /\ s.status # "sending"
  /\ SameNews(r, s) /\ s.attempts = r.attempts /\ ~s.settled

Ends(rs, rt) ==
  /\ rt \in Seq(Message) /\ DOMAIN rt = DOMAIN rs
  /\ \A i \in DOMAIN rs : rt[i] = rs[i] \/ Over(rs[i], rt[i])

LEMMA EndsKeep ==
  ASSUME NEW rs, NEW rt, NEW as, RowsOK(rs, as), Ends(rs, rt)
  PROVE  /\ RowsOK(rt, as)
         /\ FirstSending(rs) => FirstSending(rt)
         /\ \A ss : Past(rs, ss) /\ (\A p \in DOMAIN ss : ss[p] \in DOMAIN rs) => Past(rt, ss)
<1>1. /\ rs \in Seq(Message) /\ rt \in Seq(Message) /\ DOMAIN rt = DOMAIN rs
  BY DEF RowsOK, Ends
<1>2. ASSUME NEW i \in DOMAIN rs
      PROVE  /\ rt[i].alarm = rs[i].alarm /\ rt[i].type = rs[i].type /\ rt[i].ident = rs[i].ident
             /\ rt[i].attempts = rs[i].attempts
             /\ rt[i].status \in Active => rs[i].status \in Active
             /\ rs[i].status \in Quiet => rt[i].status \in Quiet
             /\ rt[i].status = "sending" => rt[i] = rs[i]
  BY DEF Ends, Over, SameNews, Active, Quiet
<1>3. ASSUME NEW i \in DOMAIN rs
      PROVE  RowOK(rt[i], as)
  <2>1. RowOK(rs[i], as)
    BY DEF RowsOK
  <2>2. CASE Over(rs[i], rt[i])
    <3>1. ~rt[i].settled
      BY <2>2 DEF Over
    <3>2. QED
      BY <1>2, <2>1, <3>1 DEF RowOK
  <2>3. CASE rt[i] = rs[i]
    BY <2>1, <2>3
  <2>4. QED
    BY <2>2, <2>3 DEF Ends
<1>4. Ordered(rt)
  <2>1. Ordered(rs)
    BY DEF RowsOK
  <2>2. QED
    BY <1>1, <1>2, <2>1 DEF Ordered
<1>5. FirstSending(rs) => FirstSending(rt)
  BY <1>1, <1>2 DEF FirstSending
<1>6. ASSUME NEW ss, Past(rs, ss), \A p \in DOMAIN ss : ss[p] \in DOMAIN rs
      PROVE  Past(rt, ss)
  BY <1>1, <1>2, <1>6 DEF Past
<1>7. QED
  BY <1>1, <1>3, <1>4, <1>5, <1>6 DEF RowsOK

\* Nothing was delivered that is not accounted for.
LEMMA EndsAccounted ==
  ASSUME NEW rs, NEW rt, NEW ws, NEW wt, NEW ss, Ends(rs, rt), Accounted(rs, ws, ss),
         wt \subseteq ws, \A j \in wt : j.row \in DOMAIN rs,
         \A i \in DOMAIN rs : rt[i].status \in Success => Handed(ss, i) > 0
  PROVE  Accounted(rt, wt, ss)
<1>1. DOMAIN rt = DOMAIN rs
  BY DEF Ends
<1>2. \A i \in DOMAIN rs : rt[i].attempts = rs[i].attempts
  BY DEF Ends, Over
<1>3. QED
  BY <1>1, <1>2 DEF Accounted

\* recover.
LEMMA RecoveredEnds ==
  ASSUME TypeOK, RowsOK(rows, alarms), NEW limit \in Limits
  PROVE  /\ Ends(rows, RecoveredRows(limit)) /\ NoneSending(RecoveredRows(limit))
         /\ \A i \in DOMAIN rows : RecoveredRows(limit)[i].status \in Success
                                  => rows[i].status \in Success
<1>1. rows \in Seq(Message) /\ DOMAIN rows = 1 .. Len(rows) /\ Len(rows) \in Nat
  BY DEF TypeOK
<1>2. now \in Nat
  <2>1. now \in 1 .. MaxTime /\ MaxTime \in Nat
    BY OutboxAssumption DEF OutboxAssumption, TypeOK
  <2>2. QED
    BY <2>1
<1>3. PICK rt : rt = RecoveredRows(limit)
  OBVIOUS
<1>4. DOMAIN rt = DOMAIN rows
  BY <1>3 DEF RecoveredRows
<1>5. ASSUME NEW i \in DOMAIN rows
      PROVE  /\ rt[i] \in Message /\ rt[i].status # "sending"
             /\ rt[i] = rows[i] \/ Over(rows[i], rt[i])
             /\ rt[i].status \in Success => rows[i].status \in Success
  <2>1. PICK r \in Message : r = rows[i]
    BY <1>1
  <2>2. r.settled => r.status \notin Active
    BY <2>1 DEF RowsOK, RowOK
  <2>3. CASE r.status # "sending"
    BY <1>3, <2>1, <2>3 DEF RecoveredRows
  <2>4. CASE r.status = "sending" /\ r.attempts >= limit
    <3>1. PICK t : t = [r EXCEPT !.status = "failed", !.next = Never]
      OBVIOUS
    <3>2. /\ t \in Message /\ t.status = "failed" /\ t.attempts = r.attempts
          /\ t.settled = r.settled /\ SameNews(r, t)
      BY <3>1 DEF Message, SameNews, Never
    <3>3. ~t.settled
      BY <2>2, <2>4, <3>2 DEF Active
    <3>4. rt[i] = t
      BY <1>3, <2>1, <2>4, <3>1 DEF RecoveredRows
    <3>5. QED
      BY <2>1, <2>4, <3>2, <3>3, <3>4 DEF Over, Success
  <2>5. CASE r.status = "sending" /\ ~(r.attempts >= limit)
    <3>1. PICK next \in Nat : next = now + Backoff(r.attempts)
      <4>1. r.attempts \in Nat
        BY DEF Message
      <4>2. Backoff(r.attempts) \in Nat
        BY <4>1, BackoffType
      <4>3. QED
        BY <1>2, <4>2
    <3>2. PICK t : t = [r EXCEPT !.status = "retry", !.next = next]
      OBVIOUS
    <3>3. /\ t \in Message /\ t.status = "retry" /\ t.attempts = r.attempts
          /\ t.settled = r.settled /\ SameNews(r, t)
      BY <3>2 DEF Message, SameNews, Active
    <3>4. ~t.settled
      BY <2>2, <2>5, <3>3 DEF Active
    <3>5. rt[i] = t
      BY <1>3, <2>1, <2>5, <3>1, <3>2 DEF RecoveredRows
    <3>6. QED
      BY <2>1, <2>5, <3>3, <3>4, <3>5 DEF Over, Success
  <2>6. QED
    BY <2>3, <2>4, <2>5
<1>6. rt \in Seq(Message)
  <2>1. rt = [i \in 1 .. Len(rows) |-> rt[i]]
    BY <1>1, <1>3, <1>4 DEF RecoveredRows
  <2>2. QED
    BY <1>1, <1>5, <2>1
<1>7. Ends(rows, rt) /\ NoneSending(rt)
  BY <1>4, <1>5, <1>6 DEF Ends, NoneSending
<1>8. QED
  BY <1>3, <1>5, <1>7

\* A dispatch that is over: its row, no longer being sent, becomes r.
LEMMA LeavingEnds ==
  ASSUME NEW rs \in Seq(Message), NEW i \in DOMAIN rs, NEW r \in Message, Over(rs[i], r),
         NEW rt, rt = [rs EXCEPT ![i] = r]
  PROVE  Ends(rs, rt)
<1>1. rt \in Seq(Message) /\ DOMAIN rt = DOMAIN rs
  OBVIOUS
<1>2. \A k \in DOMAIN rs : rt[k] = IF k = i THEN r ELSE rs[k]
  OBVIOUS
<1>3. QED
  BY <1>1, <1>2 DEF Ends

LEMMA JobsLeave ==
  ASSUME NEW rs, NEW ws, JobsOK(rs, ws), NEW j \in ws, NEW rt,
         DOMAIN rt = DOMAIN rs, \A k \in DOMAIN rs \ {j.row} : rt[k] = rs[k]
  PROVE  JobsOK(rt, ws \ {j})
<1>1. IsFiniteSet(ws \ {j}) /\ Cardinality(ws \ {j}) <= Cardinality(ws)
  BY FS_Subset DEF JobsOK
<1>2. Cardinality(ws \ {j}) <= Concurrency
  <2>1. /\ Cardinality(ws) \in Nat /\ Cardinality(ws \ {j}) \in Nat /\ Concurrency \in Nat
        /\ Cardinality(ws) <= Concurrency
    BY <1>1, FS_CardinalityType, OutboxAssumption DEF OutboxAssumption, JobsOK
  <2>2. QED
    BY <1>1, <2>1
<1>3. \A k \in ws \ {j} : k.row \in DOMAIN rt /\ rt[k.row].status = "sending"
  BY DEF JobsOK
<1>4. \A k, l \in ws \ {j} : k.row = l.row => k = l
  BY DEF JobsOK
<1>5. QED
  BY <1>1, <1>2, <1>3, <1>4 DEF JobsOK

\* A dispatch that goes on: job j becomes job k of the same row.
LEMMA JobsAdvance ==
  ASSUME NEW rs, NEW ws, JobsOK(rs, ws), NEW j \in ws, NEW k, k.row = j.row,
         NEW rt, DOMAIN rt = DOMAIN rs, \A i \in DOMAIN rs : rt[i].status = rs[i].status
  PROVE  JobsOK(rt, (ws \ {j}) \cup {k})
<1> DEFINE wt == (ws \ {j}) \cup {k}
<1>1. IsFiniteSet(ws \ {j}) /\ Cardinality(ws \ {j}) = Cardinality(ws) - 1
  BY FS_RemoveElement DEF JobsOK
<1>2. k \notin ws \ {j}
  BY DEF JobsOK
<1>3. IsFiniteSet(wt) /\ Cardinality(wt) = Cardinality(ws)
  <2>1. IsFiniteSet(wt) /\ Cardinality(wt) = Cardinality(ws \ {j}) + 1
    BY <1>1, <1>2, FS_AddElement
  <2>2. Cardinality(ws) \in Nat
    BY FS_CardinalityType DEF JobsOK
  <2>3. QED
    BY <1>1, <2>1, <2>2
<1>4. \A l \in wt : l.row \in DOMAIN rt /\ rt[l.row].status = "sending"
  BY DEF JobsOK
<1>5. \A l, m \in wt : l.row = m.row => l = m
  BY DEF JobsOK
<1> HIDE DEF wt
<1>6. JobsOK(rt, wt)
  BY <1>3, <1>4, <1>5 DEF JobsOK
<1>7. QED
  BY <1>6 DEF wt
-----------------------------------------------------------------------------
(***************************************************************************)
(* The inductive invariant.                                                *)
(***************************************************************************)
\* TypeOK without the rows and what refers to them.
Rest ==
  /\ now \in 1 .. MaxTime
  /\ up \in BOOLEAN /\ stopping \in BOOLEAN /\ guard \in BOOLEAN
  /\ config \in [probe : Probes \cup {Simulator}, delivery : Identities, limit : Limits]
  /\ phase \in {"off", "idle", "recovered"}
  /\ work \subseteq Job
  /\ device \in [Devices -> [active : BOOLEAN, ip : Addresses, version : Nat]]
  /\ latest \in [Devices \X (Probes \cup {Simulator}) ->
                   [at : Nat, outcome : Outcomes \cup {"none"}]]
  /\ alarms \in Seq(Alarm) /\ windows \in Seq(Window) /\ silences \in Seq(Silence)
  /\ faults \in 0 .. MaxFaults
  /\ \A s \in DOMAIN silences : silences[s].alarm \in DOMAIN alarms
  /\ ~up => phase = "off" /\ work = {} /\ ~stopping

\* Between recovery and claim nothing is on its way.
Recovered == phase = "recovered" => work = {} /\ NoneSending(rows)

\* In a restored copy nothing ever is.
Frozen == guard => work = {} /\ phase # "recovered"

Queue ==
  /\ RowsOK(rows, alarms) /\ sent \in Seq(DOMAIN rows)
  /\ FirstSending(rows) /\ JobsOK(rows, work)
  /\ Past(rows, sent) /\ Accounted(rows, work, sent)

IInv == Rest /\ Queue /\ Recovered /\ Frozen

LEMMA Types1 == IInv => TypeOK
BY DEF IInv, Rest, Queue, RowsOK, RowOK, JobsOK, TypeOK

LEMMA NowIsNat ==
  ASSUME Rest
  PROVE  now \in Nat
<1>1. now \in 1 .. MaxTime /\ MaxTime \in Nat
  BY OutboxAssumption DEF OutboxAssumption, Rest
<1>2. QED
  BY <1>1

LEMMA InitIInv == Init => IInv
<1> SUFFICES ASSUME Init PROVE IInv
  OBVIOUS
<1>1. Rest
  <2>1. device \in [Devices -> [active : BOOLEAN, ip : Addresses, version : Nat]]
    <3>1. ASSUME NEW r \in [active : {TRUE}, ip : Addresses, version : {1}]
          PROVE  r \in [active : BOOLEAN, ip : Addresses, version : Nat]
      <4>1. {TRUE} \subseteq BOOLEAN /\ {1} \subseteq Nat
        OBVIOUS
      <4>2. QED
        BY <4>1, Zenon
    <3>2. device \in [Devices -> [active : {TRUE}, ip : Addresses, version : {1}]]
      BY DEF Init
    <3>3. QED
      BY <3>1, <3>2
  <2>2. latest \in [Devices \X (Probes \cup {Simulator}) ->
                      [at : Nat, outcome : Outcomes \cup {"none"}]]
    BY DEF Init, Unmeasured, Never
  <2>3. config \in [probe : Probes \cup {Simulator}, delivery : Identities, limit : Limits]
    <3>1. Deliveries \subseteq Identities
      BY OutboxAssumption DEF OutboxAssumption, Identities
    <3>2. config \in [probe : Probes, delivery : Deliveries, limit : Limits]
      BY DEF Init
    <3>3. QED
      BY <3>1, <3>2
  <2>4. now \in 1 .. MaxTime /\ faults \in 0 .. MaxFaults
    <3>1. MaxTime \in Nat \ {0} /\ MaxFaults \in Nat
      BY OutboxAssumption DEF OutboxAssumption
    <3>2. QED
      BY <3>1 DEF Init
  <2>5. /\ up = FALSE /\ stopping = FALSE /\ guard = FALSE
        /\ phase = "off" /\ work = {}
        /\ alarms = <<>> /\ windows = <<>> /\ silences = <<>>
    BY DEF Init
  <2>6. /\ alarms \in Seq(Alarm) /\ windows \in Seq(Window) /\ silences \in Seq(Silence)
        /\ DOMAIN silences = {} /\ work \subseteq Job
    BY <2>5
  <2>7. QED
    BY <2>1, <2>2, <2>3, <2>4, <2>5, <2>6 DEF Rest
<1>2. Queue
  <2>1. rows = <<>> /\ sent = <<>> /\ work = {} /\ DOMAIN rows = {} /\ DOMAIN sent = {}
    BY DEF Init
  <2>2. RowsOK(rows, alarms) /\ sent \in Seq(DOMAIN rows) /\ FirstSending(rows)
    <3>1. rows \in Seq(Message) /\ sent \in Seq(DOMAIN rows)
      BY <2>1
    <3>2. QED
      BY <2>1, <3>1 DEF RowsOK, Ordered, FirstSending
  <2>3. JobsOK(rows, work)
    <3>1. 0 <= Concurrency
      BY OutboxAssumption DEF OutboxAssumption
    <3>2. QED
      BY <2>1, <3>1, FS_EmptySet DEF JobsOK
  <2>4. Past(rows, sent) /\ Accounted(rows, work, sent)
    BY <2>1 DEF Past, Accounted
  <2>5. QED
    BY <2>2, <2>3, <2>4 DEF Queue
<1>3. Recovered /\ Frozen
  BY DEF Init, Recovered, Frozen
<1>4. QED
  BY <1>1, <1>2, <1>3 DEF IInv

LEMMA EvolvesByNothing == \A as : Evolves(as, as)
BY DEF Evolves

\* A step that only lets the queue grow.
LEMMA GrowStep ==
  ASSUME Queue, Grows(rows, rows', alarms'), Evolves(alarms, alarms'), work' = work, sent' = sent
  PROVE  Queue' /\ (NoneSending(rows) => NoneSending(rows'))
<1>1. rows \in Seq(Message) /\ RowsOK(rows, alarms)
  BY DEF Queue, RowsOK
<1>2. RowsOK(rows', alarms')
  BY <1>1, GrowsKeepsRows
<1>3. /\ FirstSending(rows') /\ JobsOK(rows', work)
      /\ NoneSending(rows) => NoneSending(rows')
  BY <1>1, GrowsKeepsQueue DEF Queue
<1>4. /\ sent \in Seq(DOMAIN rows) /\ \A j \in work : j.row \in DOMAIN rows
      /\ Past(rows, sent) /\ Accounted(rows, work, sent)
  BY DEF Queue, JobsOK
<1>5. sent \in Seq(DOMAIN rows') /\ Past(rows', sent) /\ Accounted(rows', work, sent)
  BY <1>1, <1>4, GrowsKeepsHistory
<1>6. QED
  BY <1>2, <1>3, <1>5 DEF Queue

\* A step that leaves the queue alone.
LEMMA IdleStep ==
  ASSUME Queue, UNCHANGED <<rows, alarms, work, sent>>
  PROVE  Queue'
BY DEF Queue
-----------------------------------------------------------------------------
(***************************************************************************)
(* What a step does to a row that exists.                                  *)
(***************************************************************************)
LedgerRow(r, s) ==
  /\ SameNews(r, s)
  /\ r.status \in Success \cup {"failed", "discarded", "disabled"} => s = r
  /\ r.status = "suppressed" => s.status \in {"suppressed", "discarded"}
  /\ r.settled => s = r
  /\ r.attempts <= s.attempts
  /\ r.attempts < s.attempts => r.status = "sending" /\ s.status = "sending"

Ledger == \A i \in DOMAIN rows : i \in DOMAIN rows' /\ LedgerRow(rows[i], rows'[i])

Kept == \A i \in DOMAIN rows : i \in DOMAIN rows' /\ rows'[i] = rows[i]

\* What is proved of every action.
Good == IInv' /\ Ledger /\ (guard => Kept)

LEMMA LedgerReflexive ==
  ASSUME NEW r \in Message
  PROVE  LedgerRow(r, r)
<1>1. r.attempts \in Nat
  BY DEF Message
<1>2. QED
  BY <1>1 DEF LedgerRow, SameNews

LEMMA KeptIsLedger ==
  ASSUME Queue, Kept
  PROVE  Ledger
<1>1. \A i \in DOMAIN rows : rows[i] \in Message
  BY DEF Queue, RowsOK
<1>2. QED
  BY <1>1, LedgerReflexive DEF Ledger, Kept

LEMMA TurnsIsLedgerRow ==
  ASSUME NEW r \in Message, NEW s, Turns(r, s)
  PROVE  LedgerRow(r, s)
<1>1. CASE s = r
  BY <1>1, LedgerReflexive
<1>2. CASE s # r
  <2>1. r.attempts \in Nat /\ s.attempts = r.attempts
    BY DEF Message, Turns
  <2>2. QED
    BY <1>2, <2>1 DEF Turns, LedgerRow, Success
<1>3. QED
  BY <1>1, <1>2

\* Enqueueing leaves what is there alone.
LEMMA InsertKeeps ==
  ASSUME NEW rs \in Seq(Message), NEW r, NEW i \in DOMAIN rs
  PROVE  i \in DOMAIN Insert(rs, r) /\ Insert(rs, r)[i] = rs[i]
<1>1. DOMAIN rs = 1 .. Len(rs) /\ Len(rs) \in Nat
  OBVIOUS
<1>2. i \in DOMAIN Append(rs, r) /\ Append(rs, r)[i] = rs[i]
  BY <1>1
<1>3. QED
  BY <1>2 DEF Insert

\* An action of the API or of the monitoring core.
LEMMA RequestStep ==
  ASSUME IInv, Rest', Grows(rows, rows', alarms'), Kept, Evolves(alarms, alarms'),
         UNCHANGED <<process, guard, sent>>
  PROVE  Good
<1>1. work' = work /\ sent' = sent /\ phase' = phase /\ guard' = guard
  BY DEF process
<1>2. Queue' /\ (NoneSending(rows) => NoneSending(rows'))
  BY <1>1, GrowStep DEF IInv
<1>3. Recovered' /\ Frozen'
  BY <1>1, <1>2 DEF IInv, Recovered, Frozen
<1>4. Ledger
  BY KeptIsLedger DEF IInv
<1>5. QED
  BY <1>2, <1>3, <1>4 DEF IInv, Good

\* A step that touches neither rows nor alarms.
LEMMA QuietStep ==
  ASSUME IInv, Rest', UNCHANGED <<rows, alarms, work, sent>>, Recovered', Frozen'
  PROVE  Good
<1>1. Queue'
  BY IdleStep DEF IInv
<1>2. Kept
  BY DEF Kept
<1>3. Ledger
  BY <1>2, KeptIsLedger DEF IInv
<1>4. QED
  BY <1>1, <1>2, <1>3 DEF IInv, Good

LEMMA CreateMaintenanceGood ==
  ASSUME IInv, NEW d \in Devices, NEW starts \in 1 .. MaxTime, NEW ends \in 1 .. MaxTime,
         CreateMaintenance(d, starts, ends)
  PROVE  Good
<1> USE DEF CreateMaintenance, process, feed
<1>1. Rest
  BY DEF IInv
<1>2. windows' \in Seq(Window)
  <2>1. MaxTime \in Nat
    BY OutboxAssumption DEF OutboxAssumption
  <2>2. starts \in Nat /\ ends \in Nat /\ Never \in Nat
    BY <2>1 DEF Never
  <2>3. PICK ident \in Identities : ident = config.delivery
    BY <1>1 DEF Rest
  <2>4. [device |-> d, starts |-> starts, ends |-> ends, cancelled |-> Never,
         activated |-> FALSE, ident |-> ident] \in Window
    BY <2>2 DEF Window
  <2>5. QED
    BY <1>1, <2>3, <2>4 DEF Rest
<1>3. Rest'
  BY <1>1, <1>2 DEF Rest
<1>4. Recovered' /\ Frozen'
  BY DEF IInv, Recovered, Frozen
<1>5. QED
  BY <1>3, <1>4, QuietStep

LEMMA CancelMaintenanceGood ==
  ASSUME IInv, NEW w \in DOMAIN windows, CancelMaintenance(w)
  PROVE  Good
<1> USE DEF CancelMaintenance, process, feed
<1>1. Rest
  BY DEF IInv
<1>2. windows' \in Seq(Window)
  <2>1. PICK v \in Window : v = windows[w]
    BY <1>1 DEF Rest
  <2>2. PICK t \in Nat : t = now
    BY <1>1, NowIsNat
  <2>3. PICK u : u = [v EXCEPT !.cancelled = t]
    OBVIOUS
  <2>4. u \in Window
    BY <2>3 DEF Window
  <2>5. windows' = [windows EXCEPT ![w] = u]
    BY <2>1, <2>2, <2>3
  <2>6. windows \in Seq(Window)
    BY <1>1 DEF Rest
  <2>7. QED
    BY ONLY <2>4, <2>5, <2>6
<1>3. Rest'
  BY <1>1, <1>2 DEF Rest
<1>4. Recovered' /\ Frozen'
  BY DEF IInv, Recovered, Frozen
<1>5. QED
  BY <1>3, <1>4, QuietStep

LEMMA CancelSilenceGood ==
  ASSUME IInv, NEW s \in DOMAIN silences, CancelSilence(s)
  PROVE  Good
<1> USE DEF CancelSilence, process, feed
<1>1. Rest
  BY DEF IInv
<1>2. /\ silences' \in Seq(Silence) /\ DOMAIN silences' = DOMAIN silences
      /\ \A k \in DOMAIN silences : silences'[k].alarm = silences[k].alarm
  <2>1. PICK v \in Silence : v = silences[s]
    BY <1>1 DEF Rest
  <2>2. PICK t \in Nat : t = now
    BY <1>1, NowIsNat
  <2>3. PICK u : u = [v EXCEPT !.cancelled = t]
    OBVIOUS
  <2>4. u \in Silence /\ u.alarm = v.alarm
    BY <2>3 DEF Silence
  <2>5. silences' = [silences EXCEPT ![s] = u]
    BY <2>1, <2>2, <2>3
  <2>6. silences \in Seq(Silence)
    BY <1>1 DEF Rest
  <2>7. QED
    BY ONLY <2>1, <2>4, <2>5, <2>6
<1>3. Rest'
  BY <1>1, <1>2 DEF Rest
<1>4. Recovered' /\ Frozen'
  BY DEF IInv, Recovered, Frozen
<1>5. QED
  BY <1>3, <1>4, QuietStep

LEMMA SilenceAlarmGood ==
  ASSUME IInv, NEW a \in DOMAIN alarms, NEW ends \in 1 .. MaxTime, SilenceAlarm(a, ends)
  PROVE  Good
<1>1. Rest /\ now \in Nat /\ rows \in Seq(Message)
  BY NowIsNat DEF IInv, Queue, RowsOK
<1>2. ends \in Nat
  BY OutboxAssumption DEF OutboxAssumption
<1>3. a \in Nat /\ Len(silences) + 1 \in Nat
  <2>1. DOMAIN alarms = 1 .. Len(alarms) /\ Len(alarms) \in Nat /\ Len(silences) \in Nat
    BY <1>1 DEF Rest
  <2>2. QED
    BY <2>1
<1>4. PICK v : v = [alarm |-> a, starts |-> now, ends |-> ends, cancelled |-> Never]
  OBVIOUS
<1>5. v \in Silence /\ v.alarm = a
  BY <1>1, <1>2, <1>3, <1>4 DEF Silence, Never
<1>6. silences' = Append(silences, v)
  BY <1>4 DEF SilenceAlarm
<1>7. /\ silences' \in Seq(Silence)
      /\ \A s \in DOMAIN silences' : silences'[s].alarm \in DOMAIN alarms
  <2>1. silences \in Seq(Silence) /\ \A s \in DOMAIN silences : silences[s].alarm \in DOMAIN alarms
    BY <1>1 DEF Rest
  <2>2. QED
    BY <1>5, <1>6, <2>1
<1>8. UNCHANGED <<now, process, feed, windows, guard, sent, faults>>
  BY DEF SilenceAlarm
<1>9. Rest'
  BY <1>1, <1>7, <1>8 DEF Rest, process, feed
<1>10. PICK r \in Message : rows' = Insert(rows, r) /\ NewRow(r, alarms)
  <2>1. <<"silence", Len(silences) + 1>> \in Keys /\ "current_status" \in Types
    BY <1>3 DEF Keys, Types, Outage
  <2>2. PICK key \in Keys : key = <<"silence", Len(silences) + 1>>
    BY <2>1
  <2>3. alarms \in Seq(Alarm) /\ config.delivery \in Identities
    BY <1>1 DEF Rest
  <2>4. PICK p : p = alarms[a].probe
    OBVIOUS
  <2>5. "current_status" \in Types /\ "current_status" \notin Resolution
    BY DEF Types, Outage, Resolution
  <2>6. /\ Row(a, p, "current_status", key, config.delivery, TRUE) \in Message
        /\ NewRow(Row(a, p, "current_status", key, config.delivery, TRUE), alarms)
    BY <1>1, <2>3, <2>4, <2>5, EnqueueNew
  <2>7. QED
    BY <2>2, <2>4, <2>6 DEF SilenceAlarm
<1>11. alarms' = alarms
  BY <1>8 DEF feed
<1>12. Grows(rows, rows', alarms')
  BY <1>1, <1>10, <1>11, InsertGrows
<1>13. Kept
  BY <1>1, <1>10, InsertKeeps DEF Kept
<1>14. Evolves(alarms, alarms')
  BY <1>11, EvolvesByNothing
<1>15. QED
  BY <1>8, <1>9, <1>12, <1>13, <1>14, RequestStep

LEMMA MeasureGood ==
  ASSUME IInv, NEW d \in Devices, NEW outcome \in Outcomes, Measure(d, outcome)
  PROVE  Good
<1> DEFINE open == {a \in DOMAIN alarms : /\ alarms[a].status = "open"
                                          /\ alarms[a].device = d
                                          /\ alarms[a].ip = device[d].ip
                                          /\ alarms[a].probe = config.probe}
<1>1. Rest /\ now \in Nat /\ rows \in Seq(Message)
  BY NowIsNat DEF IInv, Queue, RowsOK
<1>2. /\ alarms \in Seq(Alarm) /\ config.delivery \in Identities
      /\ config.probe \in Probes \cup {Simulator}
  BY <1>1 DEF Rest
<1>3. UNCHANGED <<now, process, device, windows, silences, guard, sent, faults>>
  BY DEF Measure
<1>4. latest' \in [Devices \X (Probes \cup {Simulator}) ->
                    [at : Nat, outcome : Outcomes \cup {"none"}]]
  <2>1. PICK m : m = [at |-> now, outcome |-> outcome]
    OBVIOUS
  <2>2. m \in [at : Nat, outcome : Outcomes \cup {"none"}]
    BY <1>1, <2>1
  <2>3. latest' = [latest EXCEPT ![<<d, config.probe>>] = m]
    BY <2>1 DEF Measure
  <2>4. QED
    BY <1>1, <2>2, <2>3 DEF Rest
<1>5. ASSUME alarms' \in Seq(Alarm), Evolves(alarms, alarms'), Grows(rows, rows', alarms'), Kept
      PROVE  Good
  <2>1. \A s \in DOMAIN silences : silences[s].alarm \in DOMAIN alarms'
    BY <1>1, <1>5 DEF Rest, Evolves
  <2>2. Rest'
    BY <1>1, <1>3, <1>4, <1>5, <2>1 DEF Rest, process
  <2>3. QED
    BY <1>3, <1>5, <2>2, RequestStep
<1>6. CASE UNCHANGED <<alarms, rows>>
  <2>1. /\ alarms' \in Seq(Alarm) /\ Evolves(alarms, alarms')
        /\ Grows(rows, rows', alarms') /\ Kept
    BY <1>1, <1>2, <1>6, GrowsByNothing, EvolvesByNothing DEF Kept
  <2>2. QED
    BY <1>5, <2>1
<1>7. CASE \E a \in open :
             /\ alarms' = [alarms EXCEPT ![a].status = "resolved", ![a].ended = now]
             /\ rows' = Insert(rows, Row(a, config.probe, "resolved", <<"resolved", 0>>,
                                         config.delivery, Suppressed(a)))
  <2>1. PICK a \in open :
             /\ alarms' = [alarms EXCEPT ![a].status = "resolved", ![a].ended = now]
             /\ rows' = Insert(rows, Row(a, config.probe, "resolved", <<"resolved", 0>>,
                                         config.delivery, Suppressed(a)))
    BY <1>7
  <2>2. PICK v \in Alarm : v = alarms[a] /\ v.probe = config.probe
    BY <1>2
  <2>3. PICK t \in Nat : t = now
    BY <1>1
  <2>4. PICK u : u = [v EXCEPT !.status = "resolved", !.ended = t]
    OBVIOUS
  <2>5. u \in Alarm /\ u.probe = v.probe /\ u.status = "resolved"
    BY <2>4 DEF Alarm
  <2>6. a \in DOMAIN alarms
    OBVIOUS
  <2>7. alarms' = [alarms EXCEPT ![a] = u]
    BY <2>1, <2>2, <2>3, <2>4, <2>6
  <2>8. /\ alarms' \in Seq(Alarm) /\ DOMAIN alarms' = DOMAIN alarms
        /\ alarms'[a] = u /\ \A b \in DOMAIN alarms \ {a} : alarms'[b] = alarms[b]
    BY ONLY <1>2, <2>5, <2>6, <2>7
  <2>9. Evolves(alarms, alarms')
    BY <2>2, <2>5, <2>8 DEF Evolves
  <2>10. <<"resolved", 0>> \in Keys /\ "resolved" \in Types /\ "resolved" \notin Outage
    BY DEF Keys, Types, Resolution, Outage
  <2>11. PICK key \in Keys : key = <<"resolved", 0>>
    BY <2>10
  <2>12. PICK p : p = config.probe
    OBVIOUS
  <2>13. PICK hushed : hushed = Suppressed(a)
    OBVIOUS
  <2>14. PICK r : r = Row(a, p, "resolved", key, config.delivery, hushed)
    OBVIOUS
  <2>15. PICK as \in Seq(Alarm) : as = alarms'
    BY <2>8
  <2>16. a \in DOMAIN as /\ p = as[a].probe /\ as[a].status # "open"
    BY <2>2, <2>5, <2>6, <2>8, <2>12, <2>15
  <2>17. r \in Message /\ NewRow(r, as)
    BY <1>1, <1>2, <2>10, <2>14, <2>16, EnqueueNew
  <2>18. rows' = Insert(rows, r)
    BY <2>1, <2>11, <2>12, <2>13, <2>14, Zenon
  <2>19. Grows(rows, rows', alarms')
    BY <1>1, <2>15, <2>17, <2>18, InsertGrows
  <2>20. Kept
    BY <1>1, <2>18, InsertKeeps DEF Kept
  <2>21. QED
    BY <1>5, <2>8, <2>9, <2>19, <2>20
<1>8. CASE /\ alarms' = Append(alarms, [device |-> d, ip |-> device[d].ip,
                                        probe |-> config.probe, status |-> "open",
                                        opened |-> now, ended |-> Never])
           /\ LET a == Len(alarms) + 1
              IN  rows' = Insert(rows, Row(a, config.probe, "opened", <<"opened", 0>>,
                                           config.delivery, SuppressedFor(d, a, now)))
  <2>1. PICK ip \in Addresses : ip = device[d].ip
    BY <1>1 DEF Rest
  <2>2. PICK p \in Probes \cup {Simulator} : p = config.probe
    BY <1>2
  <2>3. PICK v : v = [device |-> d, ip |-> ip, probe |-> p, status |-> "open",
                      opened |-> now, ended |-> Never]
    OBVIOUS
  <2>4. v \in Alarm /\ v.probe = p /\ v.status = "open"
    BY <1>1, <2>3 DEF Alarm, Never
  <2>5. alarms' = Append(alarms, v)
    BY <1>8, <2>1, <2>2, <2>3, Zenon
  <2>6. PICK a : a = Len(alarms) + 1
    OBVIOUS
  <2>7. /\ alarms' \in Seq(Alarm) /\ DOMAIN alarms \subseteq DOMAIN alarms'
        /\ a \in DOMAIN alarms' /\ alarms'[a] = v
        /\ \A b \in DOMAIN alarms : alarms'[b] = alarms[b]
    BY <1>2, <2>4, <2>5, <2>6
  <2>8. Evolves(alarms, alarms')
    BY <2>7 DEF Evolves
  <2>9. <<"opened", 0>> \in Keys /\ "opened" \in Types /\ "opened" \notin Resolution
    BY DEF Keys, Types, Resolution, Outage
  <2>10. PICK key \in Keys : key = <<"opened", 0>>
    BY <2>9
  <2>11. PICK hushed : hushed = SuppressedFor(d, a, now)
    OBVIOUS
  <2>12. PICK r : r = Row(a, p, "opened", key, config.delivery, hushed)
    OBVIOUS
  <2>13. PICK as \in Seq(Alarm) : as = alarms'
    BY <2>7
  <2>14. a \in DOMAIN as /\ p = as[a].probe /\ as[a].status = "open"
    BY <2>4, <2>7, <2>13
  <2>15. r \in Message /\ NewRow(r, as)
    BY <1>1, <1>2, <2>9, <2>12, <2>14, EnqueueNew
  <2>16. rows' = Insert(rows, r)
    BY <1>8, <2>2, <2>6, <2>10, <2>11, <2>12
  <2>17. Grows(rows, rows', alarms')
    BY <1>1, <2>13, <2>15, <2>16, InsertGrows
  <2>18. Kept
    BY <1>1, <2>16, InsertKeeps DEF Kept
  <2>19. QED
    BY <1>5, <2>7, <2>8, <2>17, <2>18
<1>9. QED
  BY <1>6, <1>7, <1>8 DEF Measure

LEMMA UpdateDeviceGood ==
  ASSUME IInv, NEW d \in Devices, NEW ip \in Addresses, NEW act \in BOOLEAN,
         UpdateDevice(d, ip, act)
  PROVE  Good
<1>1. Rest /\ now \in Nat /\ rows \in Seq(Message)
  BY NowIsNat DEF IInv, Queue, RowsOK
<1>2. UNCHANGED <<now, process, windows, silences, rows, guard, sent, faults>>
  BY DEF UpdateDevice
<1>3. device' \in [Devices -> [active : BOOLEAN, ip : Addresses, version : Nat]]
  <2>1. device \in [Devices -> [active : BOOLEAN, ip : Addresses, version : Nat]]
    BY <1>1 DEF Rest
  <2>2. PICK n \in Nat : n = device[d].version + 1
    BY <2>1
  <2>3. PICK v : v = [active |-> act, ip |-> ip, version |-> n]
    OBVIOUS
  <2>4. v \in [active : BOOLEAN, ip : Addresses, version : Nat]
    BY <2>3, Zenon
  <2>5. device' = [device EXCEPT ![d] = v]
    BY <2>1, <2>2, <2>3 DEF UpdateDevice
  <2>6. QED
    BY <2>1, <2>4, <2>5, Zenon
<1>4. latest' \in [Devices \X (Probes \cup {Simulator}) ->
                    [at : Nat, outcome : Outcomes \cup {"none"}]]
  <2>1. Unmeasured \in [at : Nat, outcome : Outcomes \cup {"none"}]
    BY DEF Unmeasured, Never
  <2>2. QED
    BY <1>1, <2>1 DEF Rest, UpdateDevice
<1>5. alarms \in Seq(Alarm) /\ DOMAIN alarms = 1 .. Len(alarms) /\ Len(alarms) \in Nat
  BY <1>1 DEF Rest
<1>6. /\ DOMAIN alarms' = DOMAIN alarms
      /\ alarms' = [a \in DOMAIN alarms |-> alarms'[a]]
  BY DEF UpdateDevice
<1>7. ASSUME NEW a \in DOMAIN alarms
      PROVE  /\ alarms'[a] \in Alarm /\ alarms'[a].probe = alarms[a].probe
             /\ alarms[a].status # "open" => alarms'[a].status # "open"
  <2>1. PICK v \in Alarm : v = alarms[a]
    BY <1>5
  <2>2. PICK t \in Nat : t = now
    BY <1>1
  <2>3. PICK u : u = [v EXCEPT !.status = "closed", !.ended = t]
    OBVIOUS
  <2>4. u \in Alarm /\ u.probe = v.probe /\ u.status = "closed"
    BY <2>3 DEF Alarm
  <2>5. alarms'[a] = u \/ alarms'[a] = v
    BY <2>1, <2>2, <2>3 DEF UpdateDevice
  <2>6. QED
    BY <2>1, <2>4, <2>5
<1>8. alarms' \in Seq(Alarm)
  BY <1>5, <1>6, <1>7
<1>9. Evolves(alarms, alarms')
  BY <1>6, <1>7 DEF Evolves
<1>10. Rest'
  BY <1>1, <1>2, <1>3, <1>4, <1>6, <1>8 DEF Rest, process
<1>11. Grows(rows, rows', alarms') /\ Kept
  BY <1>1, <1>2, GrowsByNothing DEF Kept
<1>12. QED
  BY <1>2, <1>9, <1>10, <1>11, RequestStep
-----------------------------------------------------------------------------
(***************************************************************************)
(* The process, the clock and the worker's rounds.                         *)
(***************************************************************************)
\* Without jobs the accounts are about the rows alone.
LEMMA NoJobs ==
  ASSUME NEW rs
  PROVE  /\ JobsOK(rs, {})
         /\ \A ws, ss : Accounted(rs, ws, ss) => Accounted(rs, {}, ss)
<1>1. IsFiniteSet({}) /\ Cardinality({}) = 0
  BY FS_EmptySet
<1>2. 0 <= Concurrency
  BY OutboxAssumption DEF OutboxAssumption
<1>3. QED
  BY <1>1, <1>2 DEF JobsOK, Accounted

LEMMA TickGood ==
  ASSUME IInv, Tick
  PROVE  Good
<1> USE DEF Tick, process, feed
<1>1. Rest /\ now \in Nat /\ now \in 1 .. MaxTime
  BY NowIsNat DEF IInv, Rest
<1>2. now' \in 1 .. MaxTime
  BY <1>1, OutboxAssumption DEF OutboxAssumption
<1>3. Rest'
  BY <1>1, <1>2 DEF Rest
<1>4. Recovered' /\ Frozen'
  BY DEF IInv, Recovered, Frozen
<1>5. QED
  BY <1>3, <1>4, QuietStep

LEMMA StopBeginGood ==
  ASSUME IInv, StopBegin
  PROVE  Good
<1> USE DEF StopBegin, process, feed
<1>1. Rest'
  BY DEF IInv, Rest
<1>2. Recovered' /\ Frozen'
  BY DEF IInv, Recovered, Frozen
<1>3. QED
  BY <1>1, <1>2, QuietStep

LEMMA StopEndGood ==
  ASSUME IInv, StopEnd
  PROVE  Good
<1> USE DEF StopEnd, process, feed
<1>1. Rest'
  BY DEF IInv, Rest
<1>2. Recovered' /\ Frozen'
  BY DEF IInv, Recovered, Frozen
<1>3. QED
  BY <1>1, <1>2, QuietStep

LEMMA RestoreGood ==
  ASSUME IInv, Restore
  PROVE  Good
<1> USE DEF Restore, process, feed
<1>1. Rest'
  BY DEF IInv, Rest
<1>2. Recovered' /\ Frozen'
  BY DEF IInv, Rest, Recovered, Frozen
<1>3. QED
  BY <1>1, <1>2, QuietStep

LEMMA ClaimFailsGood ==
  ASSUME IInv, ClaimFails
  PROVE  Good
<1> USE DEF ClaimFails, process, feed
<1>1. faults' \in 0 .. MaxFaults
  BY OutboxAssumption DEF OutboxAssumption, IInv, Rest
<1>2. Rest'
  BY <1>1 DEF IInv, Rest
<1>3. Recovered' /\ Frozen'
  BY DEF IInv, Recovered, Frozen
<1>4. QED
  BY <1>2, <1>3, QuietStep

\* The process dies: what was in flight is lost, the rows stay as they are.
LEMMA CrashGood ==
  ASSUME IInv, Crash
  PROVE  Good
<1>1. /\ work' = {} /\ phase' = "off" /\ up' = FALSE /\ stopping' = FALSE
      /\ UNCHANGED <<now, config, feed, windows, silences, rows, guard, sent, faults>>
  BY DEF Crash
<1>2. Rest'
  BY <1>1 DEF feed, IInv, Rest
<1>3. Queue'
  BY <1>1, NoJobs DEF feed, IInv, Queue
<1>4. Recovered' /\ Frozen'
  BY <1>1 DEF Recovered, Frozen
<1>5. Kept
  BY <1>1 DEF Kept
<1>6. Ledger
  BY <1>5, KeptIsLedger DEF IInv
<1>7. QED
  BY <1>2, <1>3, <1>4, <1>5, <1>6 DEF IInv, Good

\* A row whose attempt is over keeps to the ledger.
LEMMA EndsIsLedger ==
  ASSUME Queue, Ends(rows, rows')
  PROVE  Ledger
<1>1. ASSUME NEW i \in DOMAIN rows
      PROVE  i \in DOMAIN rows' /\ LedgerRow(rows[i], rows'[i])
  <2>1. /\ rows[i] \in Message /\ RowOK(rows[i], alarms) /\ i \in DOMAIN rows'
        /\ rows'[i] = rows[i] \/ Over(rows[i], rows'[i])
    BY DEF Queue, RowsOK, Ends
  <2>2. CASE rows'[i] = rows[i]
    BY <2>1, <2>2, LedgerReflexive
  <2>3. CASE Over(rows[i], rows'[i])
    <3>1. rows[i].attempts \in Nat /\ rows'[i].attempts = rows[i].attempts
      BY <2>1, <2>3 DEF Message, Over
    <3>2. rows[i].status = "sending" /\ rows[i].status \in Active
      BY <2>3 DEF Over, Active
    <3>3. rows[i].settled => FALSE
      BY <2>1, <3>2, Zenon DEF RowOK
    <3>4. rows[i].attempts <= rows'[i].attempts /\ ~(rows[i].attempts < rows'[i].attempts)
      BY <3>1
    <3>5. /\ rows[i].status \notin Success \cup {"failed", "discarded", "disabled"}
          /\ rows[i].status # "suppressed"
      BY <3>2 DEF Success
    <3>6. SameNews(rows[i], rows'[i])
      BY <2>3 DEF Over
    <3>7. QED
      BY <2>1, <3>3, <3>4, <3>5, <3>6, Zenon DEF LedgerRow
  <2>4. QED
    BY <2>1, <2>2, <2>3
<1>2. QED
  BY <1>1 DEF Ledger

\* The rows a crash or a lost result left behind are taken up again.
LEMMA RecoverStep ==
  ASSUME IInv, NEW limit \in Limits, rows' = RecoveredRows(limit),
         work = {}, UNCHANGED <<work, alarms, sent>>
  PROVE  Queue' /\ NoneSending(rows') /\ Ledger
<1>1. /\ Ends(rows, rows') /\ NoneSending(rows')
      /\ \A i \in DOMAIN rows : rows'[i].status \in Success => rows[i].status \in Success
  BY Types1, RecoveredEnds DEF IInv, Queue
<1>2. /\ sent \in Seq(DOMAIN rows) /\ \A p \in DOMAIN sent : sent[p] \in DOMAIN rows
      /\ RowsOK(rows, alarms) /\ Past(rows, sent) /\ Accounted(rows, work, sent)
  BY DEF IInv, Queue
<1>3. RowsOK(rows', alarms) /\ Past(rows', sent)
  BY <1>1, <1>2, EndsKeep
<1>4. \A i \in DOMAIN rows : rows'[i].status \in Success => Handed(sent, i) > 0
  BY <1>1, <1>2 DEF Accounted
<1>5. Accounted(rows', {}, sent)
  BY <1>1, <1>2, <1>4, EndsAccounted
<1>6. FirstSending(rows')
  BY <1>1 DEF FirstSending, NoneSending
<1>7. DOMAIN rows' = DOMAIN rows
  BY <1>1 DEF Ends
<1>8. Queue'
  BY <1>2, <1>3, <1>5, <1>6, <1>7, NoJobs DEF Queue
<1>9. QED
  BY <1>1, <1>8, EndsIsLedger DEF IInv

LEMMA TickRecoverGood ==
  ASSUME IInv, TickRecover
  PROVE  Good
<1>1. /\ up /\ ~guard /\ work = {} /\ phase' = "recovered" /\ rows' = RecoveredRows(config.limit)
      /\ UNCHANGED <<now, up, config, stopping, work, feed, windows, silences, guard, sent, faults>>
  BY DEF TickRecover
<1>2. config.limit \in Limits
  BY DEF IInv, Rest
<1>3. Queue' /\ NoneSending(rows') /\ Ledger
  BY <1>1, <1>2, RecoverStep DEF feed
<1>4. Rest'
  BY <1>1 DEF feed, IInv, Rest
<1>5. Recovered' /\ Frozen'
  BY <1>1, <1>3 DEF Recovered, Frozen
<1>6. QED
  BY <1>1, <1>3, <1>4, <1>5 DEF IInv, Good

LEMMA BootGood ==
  ASSUME IInv, NEW p \in Probes, NEW ident \in Deliveries, NEW limit \in Limits,
         Boot(p, ident, limit)
  PROVE  Good
<1>1. /\ ~up /\ up' = TRUE /\ phase' = "idle"
      /\ config' = IF guard THEN [probe |-> Simulator, delivery |-> Off, limit |-> limit]
                            ELSE [probe |-> p, delivery |-> ident, limit |-> limit]
      /\ rows' = IF guard THEN rows ELSE RecoveredRows(limit)
      /\ UNCHANGED <<now, stopping, work, feed, windows, silences, guard, sent, faults>>
  BY DEF Boot
<1>2. Rest /\ work = {}
  BY <1>1 DEF IInv, Rest
<1>3. config' \in [probe : Probes \cup {Simulator}, delivery : Identities, limit : Limits]
  BY <1>1, OutboxAssumption DEF OutboxAssumption, Identities
<1>4. Rest'
  BY <1>1, <1>2, <1>3 DEF feed, Rest
<1>5. Recovered' /\ Frozen'
  BY <1>1, <1>2 DEF Recovered, Frozen
<1>6. CASE guard
  <2>1. rows' = rows /\ UNCHANGED <<alarms, work, sent>>
    BY <1>1, <1>6 DEF feed
  <2>2. QED
    BY <1>4, <1>5, <2>1, QuietStep
<1>7. CASE ~guard
  <2>1. Queue' /\ NoneSending(rows') /\ Ledger
    BY <1>1, <1>2, <1>7, RecoverStep DEF feed
  <2>2. QED
    BY <1>4, <1>5, <1>7, <2>1 DEF IInv, Good
<1>8. QED
  BY <1>6, <1>7

LEMMA ClaimGood ==
  ASSUME IInv, Claim
  PROVE  Good
<1>1. /\ up /\ phase = "recovered" /\ phase' = "idle"
      /\ UNCHANGED <<now, up, config, stopping, feed, silences, guard, sent, faults>>
  BY DEF Claim
<1>2. PICK captured \in Listings({c \in Captures : ~Known(rows, CaptureRow(c))}) :
        LET rs == CapturedRows(captured)
        IN \E told \in Listings({a \in Summarised(rs) : ~Known(rs, SummaryRow(rs, a))}) :
             LET new    == ReconciledRows(rs, told)
                 picked == Lowest(Ready(new))
             IN  /\ rows' = [i \in DOMAIN new |->
                               IF i \in picked THEN [new[i] EXCEPT !.status = "sending"]
                                               ELSE new[i]]
                 /\ work' = {[row |-> i, phase |-> "claimed", at |-> now] : i \in picked}
  BY Zenon DEF Claim
<1>3. PICK rs : rs = CapturedRows(captured)
  OBVIOUS
<1>4. PICK told \in Listings({a \in Summarised(rs) : ~Known(rs, SummaryRow(rs, a))}) :
        LET new    == ReconciledRows(rs, told)
            picked == Lowest(Ready(new))
        IN  /\ rows' = [i \in DOMAIN new |->
                          IF i \in picked THEN [new[i] EXCEPT !.status = "sending"]
                                          ELSE new[i]]
            /\ work' = {[row |-> i, phase |-> "claimed", at |-> now] : i \in picked}
  BY <1>2, <1>3, Zenon
<1>5. PICK new : new = ReconciledRows(rs, told)
  OBVIOUS
<1>6. PICK picked : picked = Lowest(Ready(new))
  OBVIOUS
<1>7. /\ rows' = [i \in DOMAIN new |->
                    IF i \in picked THEN [new[i] EXCEPT !.status = "sending"] ELSE new[i]]
      /\ work' = {[row |-> i, phase |-> "claimed", at |-> now] : i \in picked}
  BY <1>4, <1>5, <1>6, Zenon
<1>8. Rest /\ TypeOK /\ RowsOK(rows, alarms) /\ rows \in Seq(Message)
      /\ NoneSending(rows) /\ work = {} /\ ~guard
  BY <1>1, Types1 DEF IInv, Queue, RowsOK, Recovered, Frozen
<1>9. Grows(rows, rs, alarms)
  <2>1. {c \in Captures : ~Known(rows, CaptureRow(c))} \subseteq Captures
    OBVIOUS
  <2>2. QED
    BY <1>3, <1>8, <2>1, CaptureRowsGrow
<1>10. RowsOK(rs, alarms)
  BY <1>8, <1>9, GrowsKeepsRows, EvolvesByNothing
<1>11. Grows(rs, new, alarms)
  <2>1. {a \in Summarised(rs) : ~Known(rs, SummaryRow(rs, a))} \subseteq Summarised(rs)
    OBVIOUS
  <2>2. QED
    BY <1>5, <1>8, <1>10, <2>1, ReconciledRowsGrow
<1>12. Grows(rows, new, alarms)
  BY <1>9, <1>11, GrowsTransitive
<1>13. RowsOK(new, alarms) /\ new \in Seq(Message) /\ NoneSending(new)
  BY <1>8, <1>12, GrowsKeepsRows, GrowsKeepsQueue, EvolvesByNothing DEF Grows
<1>14. sent \in Seq(DOMAIN new) /\ Past(new, sent) /\ Accounted(new, {}, sent)
  <2>1. /\ sent \in Seq(DOMAIN rows) /\ Past(rows, sent) /\ Accounted(rows, {}, sent)
    BY <1>8 DEF IInv, Queue
  <2>2. QED
    BY <1>8, <1>12, <2>1, GrowsKeepsHistory
<1>15. Picks(new, rows', picked)
  BY <1>7, <1>13, PicksRows
<1>16. /\ RowsOK(rows', alarms) /\ FirstSending(rows') /\ JobsOK(rows', work')
       /\ Past(rows', sent) /\ Accounted(rows', work', sent)
  <2>1. \A p \in DOMAIN sent : sent[p] \in DOMAIN new
    BY <1>14
  <2>2. PICK wt : wt = work'
    OBVIOUS
  <2>3. wt = {[row |-> i, phase |-> "claimed", at |-> now] : i \in picked}
    BY <1>7, <2>2
  <2>4. PICK rt : rt = rows'
    OBVIOUS
  <2>5. Picks(new, rt, picked)
    BY <1>15, <2>4
  <2>6. /\ RowsOK(rt, alarms) /\ FirstSending(rt) /\ JobsOK(rt, wt)
        /\ \A ss : Past(new, ss) /\ (\A p \in DOMAIN ss : ss[p] \in DOMAIN new) => Past(rt, ss)
        /\ \A ss : Accounted(new, {}, ss) => Accounted(rt, wt, ss)
    BY <1>6, <1>13, <2>3, <2>5, PicksKeep
  <2>7. QED
    BY <1>14, <2>1, <2>2, <2>4, <2>6
<1>17. DOMAIN rows' = DOMAIN new
  BY <1>15 DEF Picks
<1>18. Queue'
  BY <1>1, <1>14, <1>16, <1>17 DEF feed, Queue
<1>19. work' \subseteq Job
  <2>1. picked \subseteq Nat
    <3>1. DOMAIN new = 1 .. Len(new) /\ Len(new) \in Nat
      BY <1>13
    <3>2. Lowest(Ready(new)) \subseteq DOMAIN new
      BY DEF Lowest, Ready
    <3>3. QED
      BY <1>6, <3>1, <3>2
  <2>2. now \in Nat
    BY <1>8, NowIsNat
  <2>3. QED
    BY <1>7, <2>1, <2>2 DEF Job
<1>20. windows' \in Seq(Window)
  <2>1. windows \in Seq(Window) /\ DOMAIN windows = 1 .. Len(windows) /\ Len(windows) \in Nat
    BY <1>8 DEF Rest
  <2>2. windows' = [w \in DOMAIN windows |->
                      IF w \in DueWindows THEN [windows[w] EXCEPT !.activated = TRUE]
                                          ELSE windows[w]]
    BY DEF Claim
  <2>3. ASSUME NEW w \in DOMAIN windows
        PROVE  windows'[w] \in Window
    <3>1. PICK v \in Window : v = windows[w]
      BY <2>1
    <3>2. PICK u : u = [v EXCEPT !.activated = TRUE]
      OBVIOUS
    <3>3. u \in Window
      BY <3>2 DEF Window
    <3>4. windows'[w] = u \/ windows'[w] = v
      BY <2>2, <3>1, <3>2
    <3>5. QED
      BY <3>3, <3>4
  <2>4. windows' = [w \in 1 .. Len(windows) |-> windows'[w]]
    BY <2>1, <2>2
  <2>5. QED
    BY <2>1, <2>3, <2>4
<1>21. Rest'
  BY <1>1, <1>8, <1>19, <1>20 DEF feed, Rest
<1>22. Recovered' /\ Frozen'
  BY <1>1, <1>8 DEF Recovered, Frozen
<1>23. Ledger
  <2>1. ASSUME NEW i \in DOMAIN rows
        PROVE  i \in DOMAIN rows' /\ LedgerRow(rows[i], rows'[i])
    <3>1. i \in DOMAIN new /\ Turns(rows[i], new[i])
      BY <1>12 DEF Grows
    <3>2. rows[i] \in Message /\ i \in DOMAIN rows'
      BY <1>8, <1>17, <3>1
    <3>3. CASE i \notin picked
      BY <1>15, <3>1, <3>2, <3>3, TurnsIsLedgerRow DEF Picks
    <3>4. CASE i \in picked
      <4>1. new[i].status \in {"pending", "retry"}
        BY <1>6, <3>4 DEF Lowest, Ready
      <4>2. new[i] = rows[i]
        BY <3>1, <4>1 DEF Turns
      <4>3. SameNews(rows[i], rows'[i]) /\ rows'[i].attempts = rows[i].attempts
        BY <1>15, <3>1, <4>2 DEF Picks
      <4>4. rows[i].settled => FALSE
        <5>1. RowOK(rows[i], alarms)
          BY <1>8 DEF RowsOK
        <5>2. rows[i].status \in Active
          BY <4>1, <4>2 DEF Active
        <5>3. QED
          BY <5>1, <5>2, Zenon DEF RowOK
      <4>5. rows[i].attempts <= rows'[i].attempts /\ ~(rows[i].attempts < rows'[i].attempts)
        BY <3>2, <4>3 DEF Message
      <4>6. /\ rows[i].status \notin Success \cup {"failed", "discarded", "disabled"}
            /\ rows[i].status # "suppressed"
        BY <4>1, <4>2 DEF Success
      <4>7. LedgerRow(rows[i], rows'[i])
        BY <4>3, <4>4, <4>5, <4>6, Zenon DEF LedgerRow
      <4>8. QED
        BY <3>2, <4>7
    <3>5. QED
      BY <3>3, <3>4
  <2>2. QED
    BY <2>1 DEF Ledger
<1>24. QED
  BY <1>8, <1>18, <1>21, <1>22, <1>23 DEF IInv, Good
-----------------------------------------------------------------------------
(***************************************************************************)
(* Dispatches.                                                             *)
(***************************************************************************)
LEMMA JobFacts ==
  ASSUME IInv, NEW j \in work
  PROVE  /\ up /\ ~guard /\ phase # "recovered"
         /\ j \in Job /\ j.row \in DOMAIN rows /\ rows[j.row] \in Message
         /\ rows[j.row].status = "sending" /\ (rows[j.row].settled => FALSE)
<1>1. up /\ ~guard /\ phase # "recovered" /\ j \in Job
  BY DEF IInv, Rest, Recovered, Frozen
<1>2. j.row \in DOMAIN rows /\ rows[j.row].status = "sending"
  BY DEF IInv, Queue, JobsOK
<1>3. rows[j.row] \in Message /\ RowOK(rows[j.row], alarms)
  BY <1>2 DEF IInv, Queue, RowsOK
<1>4. rows[j.row].status \in Active
  BY <1>2 DEF Active
<1>5. rows[j.row].settled => FALSE
  BY <1>3, <1>4, Zenon DEF RowOK
<1>6. QED
  BY <1>1, <1>2, <1>3, <1>5

\* A dispatch ends: its row becomes r.
LEMMA LeaveStep ==
  ASSUME IInv, NEW j \in work, NEW r \in Message, Over(rows[j.row], r),
         rows' = [rows EXCEPT ![j.row] = r], work' = work \ {j},
         r.status \in Success => Handed(sent, j.row) > 0,
         UNCHANGED <<now, up, config, phase, stopping, feed, windows, silences, guard, sent, faults>>
  PROVE  Good
<1>1. up /\ ~guard /\ phase # "recovered" /\ j.row \in DOMAIN rows
  BY JobFacts
<1>2. /\ RowsOK(rows, alarms) /\ rows \in Seq(Message) /\ sent \in Seq(DOMAIN rows)
      /\ FirstSending(rows) /\ JobsOK(rows, work)
      /\ Past(rows, sent) /\ Accounted(rows, work, sent)
  BY DEF IInv, Queue, RowsOK
<1>3. PICK rt : rt = rows'
  OBVIOUS
<1>4. rt = [rows EXCEPT ![j.row] = r]
  BY <1>3
<1>5. Ends(rows, rt)
  BY <1>1, <1>2, <1>4, LeavingEnds
<1>6. DOMAIN rt = DOMAIN rows /\ \A k \in DOMAIN rows : rt[k] = IF k = j.row THEN r ELSE rows[k]
  BY <1>1, <1>2, <1>4
<1>7. \A p \in DOMAIN sent : sent[p] \in DOMAIN rows
  BY <1>2
<1>8. RowsOK(rt, alarms) /\ FirstSending(rt) /\ Past(rt, sent)
  BY <1>2, <1>5, <1>7, EndsKeep
<1>9. JobsOK(rt, work \ {j})
  BY <1>2, <1>6, JobsLeave
<1>10. Accounted(rt, work \ {j}, sent)
  <2>1. \A i \in DOMAIN rows : rt[i].status \in Success => Handed(sent, i) > 0
    BY <1>2, <1>6 DEF Accounted
  <2>2. work \ {j} \subseteq work /\ \A k \in work \ {j} : k.row \in DOMAIN rows
    BY <1>2 DEF JobsOK
  <2>3. QED
    BY <1>2, <1>5, <2>1, <2>2, EndsAccounted
<1>11. Queue'
  BY <1>2, <1>3, <1>6, <1>8, <1>9, <1>10 DEF feed, Queue
<1>12. Rest'
  BY <1>1 DEF feed, IInv, Rest
<1>13. Recovered' /\ Frozen'
  BY <1>1 DEF Recovered, Frozen
<1>14. Ledger
  BY <1>3, <1>5, EndsIsLedger DEF IInv
<1>15. QED
  BY <1>1, <1>11, <1>12, <1>13, <1>14 DEF IInv, Good

\* Leave, with a status that does not say that the message was delivered
\* unless it was.
LEMMA LeaveGood ==
  ASSUME IInv, NEW j \in work, NEW status, NEW next \in Nat, Leave(j, status, next),
         status \in {"retry", "accepted", "mock_sent", "failed", "discarded"},
         status \in Success => j.phase = "accepted",
         UNCHANGED <<now, up, config, phase, stopping, feed, windows, silences, guard, sent, faults>>
  PROVE  Good
<1>1. PICK q \in Message : q = rows[j.row]
  BY JobFacts
<1>2. q.status = "sending" /\ (q.settled => FALSE) /\ j.row \in DOMAIN rows
  BY <1>1, JobFacts
<1>3. PICK r : r = [q EXCEPT !.status = status, !.next = next]
  OBVIOUS
<1>4. /\ r \in Message /\ r.status = status /\ r.attempts = q.attempts
      /\ r.settled = q.settled /\ SameNews(q, r)
  BY <1>3 DEF Message, SameNews, Active, Success
<1>5. rows' = [rows EXCEPT ![j.row] = r] /\ work' = work \ {j}
  BY <1>1, <1>2, <1>3 DEF Leave
<1>6. ~r.settled
  BY <1>2, <1>4
<1>7. Over(rows[j.row], r)
  BY <1>1, <1>2, <1>4, <1>6 DEF Over
<1>8. r.status \in Success => Handed(sent, j.row) > 0
  BY <1>4 DEF IInv, Queue, Accounted
<1>9. QED
  BY <1>4, <1>5, <1>7, <1>8, LeaveStep

LEMMA CompleteOkGood ==
  ASSUME IInv, NEW j \in work, CompleteOk(j)
  PROVE  Good
<1>1. PICK status : status = IF rows[j.row].ident \in Routes THEN "accepted" ELSE "mock_sent"
  OBVIOUS
<1>2. /\ Leave(j, status, Never) /\ j.phase = "accepted"
      /\ UNCHANGED <<now, up, config, phase, stopping, feed, windows, silences, guard, sent, faults>>
  BY <1>1, Zenon DEF CompleteOk
<1>3. status \in {"accepted", "mock_sent"} /\ Never \in Nat
  BY <1>1 DEF Never
<1>4. QED
  BY <1>2, <1>3, LeaveGood

LEMMA CompleteErrorGood ==
  ASSUME IInv, NEW j \in work, CompleteError(j)
  PROVE  Good
<1>1. UNCHANGED <<now, up, config, phase, stopping, feed, windows, silences, guard, sent, faults>>
  BY DEF CompleteError
<1>2. CASE Leave(j, "failed", Never)
  <2>1. Never \in Nat /\ "failed" \notin Success
    BY DEF Never, Success
  <2>2. QED
    BY <1>1, <1>2, <2>1, LeaveGood
<1>3. CASE Leave(j, "retry", now + Backoff(rows[j.row].attempts))
  <2>1. rows[j.row].attempts \in Nat /\ now \in Nat
    BY JobFacts, NowIsNat DEF Message, IInv
  <2>2. PICK next \in Nat : next = now + Backoff(rows[j.row].attempts)
    <3>1. Backoff(rows[j.row].attempts) \in Nat
      BY <2>1, BackoffType
    <3>2. QED
      BY <2>1, <3>1
  <2>3. Leave(j, "retry", next)
    BY <1>3, <2>2
  <2>4. "retry" \notin Success
    BY DEF Success
  <2>5. QED
    BY <1>1, <2>3, <2>4, LeaveGood
<1>4. QED
  BY <1>2, <1>3 DEF CompleteError

\* A transaction of the dispatch fails; its row waits for the next tick.
LEMMA LoseResultGood ==
  ASSUME IInv, NEW j \in work, LoseResult(j)
  PROVE  Good
<1>1. /\ work' = work \ {j} /\ faults < MaxFaults /\ faults' = faults + 1
      /\ UNCHANGED <<now, up, config, phase, stopping, feed, windows, silences, rows, guard, sent>>
  BY DEF LoseResult
<1>2. up /\ ~guard /\ phase # "recovered"
  BY JobFacts
<1>3. JobsOK(rows, work \ {j})
  BY JobsLeave DEF IInv, Queue
<1>4. Accounted(rows, work \ {j}, sent)
  BY DEF IInv, Queue, Accounted
<1>5. Queue'
  BY <1>1, <1>3, <1>4 DEF feed, IInv, Queue
<1>6. faults' \in 0 .. MaxFaults
  BY <1>1, OutboxAssumption DEF OutboxAssumption, IInv, Rest
<1>7. Rest'
  BY <1>1, <1>2, <1>6 DEF feed, IInv, Rest
<1>8. Recovered' /\ Frozen'
  BY <1>1, <1>2 DEF Recovered, Frozen
<1>9. Kept
  BY <1>1 DEF Kept
<1>10. Ledger
  BY <1>9, KeptIsLedger DEF IInv
<1>11. QED
  BY <1>2, <1>5, <1>7, <1>8, <1>10 DEF IInv, Good

\* The attempt is counted, then the message leaves.
LEMMA StartGood ==
  ASSUME IInv, NEW j \in work, StartSending(j), j.phase = "claimed",
         rows[j.row].attempts < config.limit,
         UNCHANGED <<now, up, config, phase, stopping, feed, windows, silences, guard, sent, faults>>
  PROVE  Good
<1>1. up /\ ~guard /\ phase # "recovered" /\ j.row \in DOMAIN rows /\ j \in Job
  BY JobFacts
<1>2. /\ RowsOK(rows, alarms) /\ rows \in Seq(Message) /\ sent \in Seq(DOMAIN rows)
      /\ FirstSending(rows) /\ JobsOK(rows, work)
      /\ Past(rows, sent) /\ Accounted(rows, work, sent)
  BY DEF IInv, Queue, RowsOK
<1>3. PICK i \in DOMAIN rows : i = j.row
  BY <1>1
<1>4. PICK q \in Message : q = rows[i]
  BY <1>2
<1>5. q.status = "sending" /\ (q.settled => FALSE)
  BY <1>3, <1>4, JobFacts
<1>6. PICK n \in Nat : n = q.attempts + 1 /\ q.attempts \in Nat /\ q.attempts < n
  BY DEF Message
<1>7. PICK r : r = [q EXCEPT !.attempts = n]
  OBVIOUS
<1>8. /\ r \in Message /\ r.status = q.status /\ r.settled = q.settled /\ r.attempts = n
      /\ SameNews(q, r)
  BY <1>7 DEF Message, SameNews
<1>9. PICK rt : rt = rows'
  OBVIOUS
<1>10. rt = [rows EXCEPT ![i] = r]
  BY <1>3, <1>4, <1>6, <1>7, <1>9 DEF StartSending
<1>11. /\ rt \in Seq(Message) /\ DOMAIN rt = DOMAIN rows
       /\ \A k \in DOMAIN rows : rt[k] = IF k = i THEN r ELSE rows[k]
  BY ONLY <1>2, <1>8, <1>10, i \in DOMAIN rows
<1>12. \A k \in DOMAIN rows : /\ rt[k].status = rows[k].status
                             /\ rt[k].alarm = rows[k].alarm /\ rt[k].type = rows[k].type
  BY <1>4, <1>8, <1>11 DEF SameNews
<1>13. ASSUME NEW k \in DOMAIN rows
       PROVE  RowOK(rt[k], alarms)
  <2>1. RowOK(rows[k], alarms)
    BY <1>2 DEF RowsOK
  <2>2. CASE k # i
    BY <1>11, <2>1, <2>2
  <2>3. CASE k = i
    <3>1. RowOK(q, alarms) /\ rt[k] = r
      BY <1>4, <1>11, <2>1, <2>3
    <3>2. \E limit \in Limits : r.attempts <= limit
      <4>1. PICK limit \in Limits : limit = config.limit /\ limit \in Nat
        BY OutboxAssumption DEF OutboxAssumption, IInv, Rest
      <4>2. q.attempts < limit
        BY <1>3, <1>4, <4>1
      <4>3. r.attempts <= limit
        BY <1>6, <1>8, <4>1, <4>2
      <4>4. QED
        BY <4>3
    <3>3. /\ r.alarm = q.alarm /\ r.type = q.type /\ r.ident = q.ident
      BY <1>8 DEF SameNews
    <3>4. r.settled => FALSE
      BY <1>5, <1>8
    <3>5. RowOK(r, alarms)
      BY <3>1, <3>2, <3>3, <3>4 DEF RowOK
    <3>6. QED
      BY <3>1, <3>5
  <2>4. QED
    BY <2>2, <2>3
<1>14. Ordered(rt) /\ FirstSending(rt) /\ Past(rt, sent)
  <2>1. \A p \in DOMAIN sent : sent[p] \in DOMAIN rows
    BY <1>2
  <2>2. Ordered(rows)
    BY <1>2 DEF RowsOK
  <2>3. Ordered(rt)
    BY <1>11, <1>12, <2>2 DEF Ordered
  <2>4. FirstSending(rt)
    BY <1>2, <1>11, <1>12 DEF FirstSending
  <2>5. Past(rt, sent)
    BY <1>2, <1>11, <1>12, <2>1 DEF Past
  <2>6. QED
    BY <2>3, <2>4, <2>5
<1>15. PICK k : k = [j EXCEPT !.phase = "sending"]
  OBVIOUS
<1>16. k \in Job /\ k.row = i /\ k.phase = "sending"
  BY <1>1, <1>3, <1>15 DEF Job
<1>17. work' = (work \ {j}) \cup {k}
  BY <1>15 DEF StartSending
<1>18. JobsOK(rt, work')
  <2>1. JobsOK(rt, (work \ {j}) \cup {k})
    BY <1>2, <1>3, <1>11, <1>12, <1>16, JobsAdvance
  <2>2. QED
    BY <1>17, <2>1
<1>19. Accounted(rt, work', sent)
  <2>1. ASSUME NEW l \in DOMAIN rt
        PROVE  /\ rt[l].status \in Success => Handed(sent, l) > 0
               /\ Handed(sent, l) <= rt[l].attempts
    <3>1. Handed(sent, l) \in Nat
      BY <1>2, HandedType
    <3>2. /\ rows[l].status \in Success => Handed(sent, l) > 0
          /\ Handed(sent, l) <= rows[l].attempts
      BY <1>2, <1>11 DEF Accounted
    <3>3. CASE l = i
      BY <1>4, <1>6, <1>8, <1>11, <3>1, <3>2, <3>3
    <3>4. CASE l # i
      BY <1>11, <3>2, <3>4
    <3>5. QED
      BY <3>3, <3>4
  <2>2. ASSUME NEW l \in work'
        PROVE  /\ l.phase = "sending" => Handed(sent, l.row) < rt[l.row].attempts
               /\ l.phase = "accepted" => Handed(sent, l.row) > 0
    <3>1. CASE l = k
      <4>1. Handed(sent, i) \in Nat /\ Handed(sent, i) <= q.attempts
        BY <1>2, <1>4, HandedType DEF Accounted
      <4>2. Handed(sent, i) < n /\ rt[i].attempts = n
        BY <1>6, <1>8, <1>11, <4>1
      <4>3. QED
        BY <1>16, <3>1, <4>2
    <3>2. CASE l \in work /\ l # j
      <4>1. l.row \in DOMAIN rows /\ l.row # i
        BY <1>2, <1>3, <3>2 DEF JobsOK
      <4>2. rt[l.row] = rows[l.row]
        BY <1>11, <4>1
      <4>3. QED
        BY <1>2, <3>2, <4>2 DEF Accounted
    <3>3. QED
      BY <1>17, <3>1, <3>2
  <2>3. QED
    BY <2>1, <2>2 DEF Accounted
<1>20. Queue'
  <2>1. RowsOK(rt, alarms)
    BY <1>11, <1>13, <1>14 DEF RowsOK
  <2>2. QED
    BY <1>2, <1>9, <1>11, <1>14, <1>18, <1>19, <2>1 DEF feed, Queue
<1>21. Rest'
  <2>1. work' \subseteq Job
    BY <1>16, <1>17 DEF IInv, Rest
  <2>2. QED
    BY <1>1, <2>1 DEF feed, IInv, Rest
<1>22. Recovered' /\ Frozen'
  BY <1>1 DEF Recovered, Frozen
<1>23. Ledger
  <2>1. ASSUME NEW l \in DOMAIN rows
        PROVE  LedgerRow(rows[l], rt[l])
    <3>1. CASE l # i
      BY <1>2, <1>11, <3>1, LedgerReflexive
    <3>2. CASE l = i
      <4>1. q.attempts <= r.attempts
        BY <1>6, <1>8
      <4>2. /\ q.status \notin Success \cup {"failed", "discarded", "disabled"}
            /\ q.status # "suppressed"
        BY <1>5 DEF Success
      <4>3. LedgerRow(q, r)
        BY <1>5, <1>8, <4>1, <4>2, Zenon DEF LedgerRow
      <4>4. QED
        BY <1>4, <1>11, <3>2, <4>3
    <3>3. QED
      BY <3>1, <3>2
  <2>2. QED
    BY <1>9, <1>11, <2>1 DEF Ledger
<1>24. QED
  BY <1>1, <1>20, <1>21, <1>22, <1>23 DEF IInv, Good

LEMMA PreflightGood ==
  ASSUME IInv, NEW j \in work, Preflight(j)
  PROVE  Good
<1>1. /\ j.phase = "claimed"
      /\ UNCHANGED <<now, up, config, phase, stopping, feed, windows, silences, guard, sent, faults>>
  BY DEF Preflight
<1>2. Never \in Nat /\ "failed" \notin Success /\ "discarded" \notin Success
  BY DEF Never, Success
<1>3. CASE Leave(j, "discarded", Never)
  BY <1>1, <1>2, <1>3, LeaveGood
<1>4. CASE Leave(j, "failed", Never)
  BY <1>1, <1>2, <1>4, LeaveGood
<1>5. CASE /\ rows' = [rows EXCEPT ![j.row].status = "suppressed", ![j.row].next = Never,
                                   ![j.row].settled = FALSE]
           /\ work' = work \ {j}
  <2>1. PICK q \in Message : q = rows[j.row]
    BY JobFacts
  <2>2. q.status = "sending" /\ j.row \in DOMAIN rows
    BY <2>1, JobFacts
  <2>3. PICK r : r = [q EXCEPT !.status = "suppressed", !.next = Never, !.settled = FALSE]
    OBVIOUS
  <2>4. /\ r \in Message /\ r.status = "suppressed" /\ r.attempts = q.attempts
        /\ ~r.settled /\ SameNews(q, r)
    BY <1>2, <2>3 DEF Message, SameNews
  <2>5. rows' = [rows EXCEPT ![j.row] = r]
    BY <1>5, <2>1, <2>2, <2>3
  <2>6. Over(rows[j.row], r) /\ r.status \notin Success
    BY <2>1, <2>2, <2>4 DEF Over, Success
  <2>7. QED
    BY <1>1, <1>5, <2>4, <2>5, <2>6, LeaveStep
<1>6. CASE StartSending(j) /\ rows[j.row].attempts < config.limit
  BY <1>1, <1>6, StartGood
<1>7. QED
  BY <1>3, <1>4, <1>5, <1>6, Zenon DEF Preflight

LEMMA HandedAppend ==
  ASSUME NEW T, NEW ss \in Seq(T), NEW i \in T, NEW k
  PROVE  Handed(Append(ss, i), k) = IF k = i THEN Handed(ss, k) + 1 ELSE Handed(ss, k)
<1> DEFINE n == Len(ss)
           at == {p \in DOMAIN ss : ss[p] = k}
<1>1. n \in Nat /\ DOMAIN ss = 1 .. n
  OBVIOUS
<1>2. PICK st : st = Append(ss, i)
  OBVIOUS
<1>3. /\ DOMAIN st = 1 .. n + 1 /\ st[n + 1] = i
      /\ \A p \in 1 .. n : st[p] = ss[p]
  BY <1>1, <1>2
<1>4. IsFiniteSet(at) /\ n + 1 \notin at
  <2>1. IsFiniteSet(at)
    BY HandedType
  <2>2. n + 1 \notin DOMAIN ss
    BY <1>1
  <2>3. QED
    BY <2>1, <2>2
<1>5. CASE k = i
  <2>1. {p \in DOMAIN st : st[p] = k} = at \cup {n + 1}
    BY <1>1, <1>3, <1>5
  <2>2. Cardinality(at \cup {n + 1}) = Cardinality(at) + 1
    BY <1>4, FS_AddElement
  <2>3. QED
    BY <1>2, <1>5, <2>1, <2>2 DEF Handed
<1>6. CASE k # i
  <2>1. {p \in DOMAIN st : st[p] = k} = at
    BY <1>1, <1>3, <1>6
  <2>2. QED
    BY <1>2, <1>6, <2>1 DEF Handed
<1>7. QED
  BY <1>5, <1>6

LEMMA AcceptGood ==
  ASSUME IInv, NEW j \in work, Accept(j)
  PROVE  Good
<1>1. /\ j.phase = "sending" /\ sent' = Append(sent, j.row)
      /\ work' = (work \ {j}) \cup {[j EXCEPT !.phase = "accepted"]}
      /\ UNCHANGED <<now, up, config, phase, stopping, feed, windows, silences, rows, guard, faults>>
  BY DEF Accept
<1>2. /\ up /\ ~guard /\ phase # "recovered" /\ j \in Job
      /\ j.row \in DOMAIN rows /\ rows[j.row].status = "sending"
  BY JobFacts
<1>3. /\ RowsOK(rows, alarms) /\ rows \in Seq(Message) /\ sent \in Seq(DOMAIN rows)
      /\ FirstSending(rows) /\ JobsOK(rows, work)
      /\ Past(rows, sent) /\ Accounted(rows, work, sent)
  BY DEF IInv, Queue, RowsOK
<1>4. PICK i \in DOMAIN rows : i = j.row
  BY <1>2
<1>5. PICK st : st = Append(sent, i)
  OBVIOUS
<1>6. /\ st \in Seq(DOMAIN rows) /\ DOMAIN st = 1 .. Len(sent) + 1 /\ st[Len(sent) + 1] = i
      /\ DOMAIN sent = 1 .. Len(sent) /\ Len(sent) \in Nat
      /\ \A p \in DOMAIN sent : st[p] = sent[p]
  BY <1>3, <1>5
<1>7. sent' = st
  BY <1>1, <1>4, <1>5
<1>8. PICK k : k = [j EXCEPT !.phase = "accepted"]
  OBVIOUS
<1>9. k \in Job /\ k.row = i /\ k.phase = "accepted"
  BY <1>2, <1>4, <1>8 DEF Job
<1>10. work' = (work \ {j}) \cup {k}
  BY <1>1, <1>8
<1>11. JobsOK(rows, (work \ {j}) \cup {k})
  BY <1>3, <1>4, <1>9, JobsAdvance
<1>12. Past(rows, st)
  <2>1. ASSUME NEW p \in DOMAIN st, NEW l \in DOMAIN rows,
               l < st[p], rows[l].alarm = rows[st[p]].alarm
        PROVE  rows[l].status \notin Active
    <3>1. CASE p \in DOMAIN sent
      BY <1>3, <1>6, <2>1, <3>1 DEF Past
    <3>2. CASE p = Len(sent) + 1
      <4>1. st[p] = i /\ l < i /\ rows[l].alarm = rows[i].alarm
        BY <1>6, <2>1, <3>2
      <4>2. DOMAIN rows = 1 .. Len(rows) /\ Len(rows) \in Nat
        BY <1>3
      <4>3. ~(i <= l)
        BY <4>1, <4>2
      <4>4. QED
        BY <1>2, <1>3, <1>4, <4>1, <4>3 DEF FirstSending
    <3>3. QED
      BY <1>6, <3>1, <3>2
  <2>2. QED
    BY <2>1 DEF Past
<1>13. \A l : Handed(st, l) = IF l = i THEN Handed(sent, l) + 1 ELSE Handed(sent, l)
  BY <1>3, <1>5, HandedAppend
<1>14. \A l : Handed(sent, l) \in Nat
  BY <1>3, HandedType
<1>15. Handed(sent, i) < rows[i].attempts /\ rows[i].attempts \in Nat
  <2>1. rows[i] \in Message
    BY <1>3
  <2>2. QED
    BY <1>1, <1>3, <1>4, <2>1 DEF Accounted, Message
<1>16. Accounted(rows, (work \ {j}) \cup {k}, st)
  <2>1. ASSUME NEW l \in DOMAIN rows
        PROVE  /\ rows[l].status \in Success => Handed(st, l) > 0
               /\ Handed(st, l) <= rows[l].attempts
    <3>1. /\ rows[l].status \in Success => Handed(sent, l) > 0
          /\ Handed(sent, l) <= rows[l].attempts
      BY <1>3 DEF Accounted
    <3>2. CASE l = i
      BY <1>13, <1>14, <1>15, <3>2
    <3>3. CASE l # i
      BY <1>13, <3>1, <3>3
    <3>4. QED
      BY <3>2, <3>3
  <2>2. ASSUME NEW l \in (work \ {j}) \cup {k}
        PROVE  /\ l.phase = "sending" => Handed(st, l.row) < rows[l.row].attempts
               /\ l.phase = "accepted" => Handed(st, l.row) > 0
    <3>1. CASE l = k
      <4>1. Handed(st, i) = Handed(sent, i) + 1 /\ Handed(sent, i) \in Nat
        BY <1>13, <1>14
      <4>2. Handed(st, i) > 0
        BY <4>1
      <4>3. QED
        BY <1>9, <3>1, <4>2
    <3>2. CASE l \in work /\ l # j
      <4>1. l.row # i
        BY <1>3, <1>4, <3>2 DEF JobsOK
      <4>2. Handed(st, l.row) = Handed(sent, l.row)
        BY <1>13, <4>1
      <4>3. QED
        BY <1>3, <3>2, <4>2 DEF Accounted
    <3>3. QED
      BY <3>1, <3>2
  <2>3. QED
    BY <2>1, <2>2 DEF Accounted
<1>17. Queue'
  BY <1>1, <1>3, <1>6, <1>7, <1>10, <1>11, <1>12, <1>16 DEF feed, Queue
<1>18. Rest'
  <2>1. work' \subseteq Job
    BY <1>9, <1>10 DEF IInv, Rest
  <2>2. QED
    BY <1>1, <1>2, <2>1 DEF feed, IInv, Rest
<1>19. Recovered' /\ Frozen'
  BY <1>1, <1>2 DEF Recovered, Frozen
<1>20. Kept
  BY <1>1 DEF Kept
<1>21. Ledger
  BY <1>20, KeptIsLedger DEF IInv
<1>22. QED
  BY <1>2, <1>17, <1>18, <1>19, <1>21 DEF IInv, Good
-----------------------------------------------------------------------------
(***************************************************************************)
(* Every step is good.                                                     *)
(***************************************************************************)
LEMMA NextGood ==
  ASSUME IInv, Next
  PROVE  Good
<1>1. CASE \E d \in Devices, outcome \in Outcomes : Measure(d, outcome)
  BY <1>1, MeasureGood
<1>2. CASE \E d \in Devices, ip \in Addresses, act \in BOOLEAN : UpdateDevice(d, ip, act)
  BY <1>2, UpdateDeviceGood
<1>3. CASE \E d \in Devices, starts, ends \in 1 .. MaxTime : CreateMaintenance(d, starts, ends)
  BY <1>3, CreateMaintenanceGood
<1>4. CASE \E w \in DOMAIN windows : CancelMaintenance(w)
  BY <1>4, CancelMaintenanceGood
<1>5. CASE \E a \in DOMAIN alarms, ends \in 1 .. MaxTime : SilenceAlarm(a, ends)
  BY <1>5, SilenceAlarmGood
<1>6. CASE \E s \in DOMAIN silences : CancelSilence(s)
  BY <1>6, CancelSilenceGood
<1>7. CASE TickRecover \/ Claim \/ ClaimFails
  BY <1>7, TickRecoverGood, ClaimGood, ClaimFailsGood
<1>8. CASE \E j \in work : Dispatch(j)
  BY <1>8, PreflightGood, AcceptGood, CompleteOkGood, CompleteErrorGood DEF Dispatch
<1>9. CASE \E j \in work : LoseResult(j)
  BY <1>9, LoseResultGood
<1>10. CASE \E p \in Probes, ident \in Deliveries, limit \in Limits : Boot(p, ident, limit)
  BY <1>10, BootGood
<1>11. CASE StopBegin \/ StopEnd \/ Crash \/ Restore \/ Tick
  BY <1>11, StopBeginGood, StopEndGood, CrashGood, RestoreGood, TickGood
<1>12. QED
  BY <1>1, <1>2, <1>3, <1>4, <1>5, <1>6, <1>7, <1>8, <1>9, <1>10, <1>11, Zenon DEF Next

LEMMA StutterGood ==
  ASSUME IInv, UNCHANGED vars
  PROVE  Good
<1>1. UNCHANGED <<now, up, config, phase, stopping, work, device, latest, alarms, windows,
                  silences, rows, guard, sent, faults>>
  BY DEF vars, process, feed
<1>2. Rest'
  BY <1>1 DEF IInv, Rest
<1>3. Recovered' /\ Frozen'
  BY <1>1 DEF IInv, Recovered, Frozen
<1>4. QED
  BY <1>1, <1>2, <1>3, QuietStep

LEMMA StepGood == IInv /\ [Next]_vars => Good
BY NextGood, StutterGood

LEMMA Invariance == Spec => []IInv
<1>1. IInv /\ [Next]_vars => IInv'
  BY StepGood DEF Good
<1>2. QED
  BY InitIInv, <1>1, PTL DEF Spec
-----------------------------------------------------------------------------
(***************************************************************************)
(* The theorems.                                                           *)
(***************************************************************************)
\* Types are kept, every reference is good, and a process that is down has
\* nothing in flight.
THEOREM TypeCorrect == Spec => []TypeOK
BY Types1, Invariance, PTL

\* Of one alarm at most one message is on its way, the first that is still to
\* go, whatever is claimed, retried, recovered, lost or configured.
THEOREM OneMessageAtATime == Spec => []OneAtATime
<1>1. IInv => OneAtATime
  BY DEF IInv, Queue, FirstSending, JobsOK, OneAtATime
<1>2. QED
  BY <1>1, Invariance, PTL

\* No message about a simulated alarm is addressed to a mail server.
THEOREM SimulationStaysInside == Spec => []MockStaysMock
<1>1. IInv => MockStaysMock
  BY DEF IInv, Queue, RowsOK, RowOK, MockStaysMock
<1>2. QED
  BY <1>1, Invariance, PTL

\* What is said to be delivered was handed to a server, and nothing is handed
\* over more often than its attempts count.
THEOREM AttemptsAccount == Spec => []AttemptsAccountForSends
<1>1. IInv => AttemptsAccountForSends
  <2> SUFFICES ASSUME IInv PROVE AttemptsAccountForSends
    OBVIOUS
  <2>1. Accounted(rows, work, sent) /\ RowsOK(rows, alarms)
    BY DEF IInv, Queue
  <2>2. QED
    BY <2>1 DEF Accounted, Handed, RowsOK, RowOK, AttemptsAccountForSends
<1>2. QED
  BY <1>1, Invariance, PTL

\* A restored copy never works off the queue it was restored with.
THEOREM RestoredQueueStays == Spec => RestoredQueueIsFrozen
<1>1. IInv /\ [Next]_vars => [guard => \A i \in DOMAIN rows : rows'[i] = rows[i]]_vars
  BY StepGood DEF Good, Kept
<1>2. QED
  BY <1>1, Invariance, PTL DEF Spec, RestoredQueueIsFrozen

\* No row disappears, is rewritten, or comes back once it is decided.
THEOREM NothingIsRewritten == Spec => OutboxIsALedger
<1> DEFINE L == \A i \in DOMAIN rows :
                  LET r == rows[i]
                      s == rows'[i]
                  IN  /\ i \in DOMAIN rows'
                      /\ <<r.alarm, r.type, r.key, r.ident, r.created>> =
                           <<s.alarm, s.type, s.key, s.ident, s.created>>
                      /\ r.status \in Success \cup {"failed", "discarded", "disabled"} => s = r
                      /\ r.status = "suppressed" => s.status \in {"suppressed", "discarded"}
                      /\ r.settled => s = r
                      /\ r.attempts <= s.attempts
                      /\ r.attempts < s.attempts => r.status = "sending" /\ s.status = "sending"
<1>1. Ledger => L
  BY Zenon DEF Ledger, LedgerRow, SameNews
<1>2. IInv /\ [Next]_vars => L
  BY <1>1, StepGood DEF Good
<1> HIDE DEF L
<1>3. Spec => [][L]_vars
  BY <1>2, Invariance, PTL DEF Spec
<1>4. QED
  BY <1>3 DEF L, OutboxIsALedger

\* NewsInOrder of the rows rs and the history ss; what rows say never changes.
InOrder(rs, ss) ==
  \A p, q \in DOMAIN ss :
    /\ p < q
    /\ rs[ss[p]].alarm = rs[ss[q]].alarm
    /\ rs[ss[p]].type \in Resolution
    => rs[ss[q]].type \in Resolution

LEMMA InOrderKept ==
  ASSUME NEW rs, NEW rt, NEW ss, InOrder(rs, ss), \A p \in DOMAIN ss : ss[p] \in DOMAIN rs,
         \A i \in DOMAIN rs : rt[i].alarm = rs[i].alarm /\ rt[i].type = rs[i].type
  PROVE  InOrder(rt, ss)
BY DEF InOrder

\* No outage is told after its end.  When a message is accepted, what was
\* queued before it about the alarm is over (Past), and of what is queued
\* after a resolution no outage message leaves (Ordered).
THEOREM NewsKeepsItsOrder == Spec => []NewsInOrder
<1>1. Init => NewsInOrder
  BY DEF Init, NewsInOrder
<1>2. ASSUME IInv, NewsInOrder, Good, Next
      PROVE  NewsInOrder'
  <2>1. /\ rows \in Seq(Message) /\ DOMAIN rows = 1 .. Len(rows) /\ Len(rows) \in Nat
        /\ sent \in Seq(DOMAIN rows) /\ \A p \in DOMAIN sent : sent[p] \in DOMAIN rows
        /\ Ordered(rows) /\ Past(rows, sent) /\ FirstSending(rows)
    BY <1>2 DEF IInv, Queue, RowsOK
  <2>2. ASSUME NEW i \in DOMAIN rows
        PROVE  rows'[i].alarm = rows[i].alarm /\ rows'[i].type = rows[i].type
    <3>1. SameNews(rows[i], rows'[i])
      BY <1>2 DEF Good, Ledger, LedgerRow
    <3>2. QED
      BY <3>1 DEF SameNews
  <2>3. CASE sent' = sent
    <3>1. InOrder(rows, sent)
      BY <1>2 DEF NewsInOrder, InOrder
    <3>2. InOrder(rows', sent)
      BY <2>1, <2>2, <3>1, InOrderKept
    <3>3. QED
      BY <2>3, <3>2 DEF NewsInOrder, InOrder
  <2>4. CASE \E j \in work : Accept(j)
    <3>1. PICK j \in work : Accept(j)
      BY <2>4
    <3>2. PICK i \in DOMAIN rows : i = j.row /\ rows[i].status = "sending"
      BY <1>2, JobFacts
    <3>3. PICK st : st = sent'
      OBVIOUS
    <3>4. st = Append(sent, i)
      BY <3>1, <3>2, <3>3 DEF Accept
    <3>5. /\ DOMAIN st = 1 .. Len(sent) + 1 /\ st[Len(sent) + 1] = i
          /\ DOMAIN sent = 1 .. Len(sent) /\ Len(sent) \in Nat
          /\ \A p \in DOMAIN sent : st[p] = sent[p]
      BY <2>1, <3>4
    <3>6. ASSUME NEW p \in DOMAIN st, NEW q \in DOMAIN st, p < q,
                 rows[st[p]].alarm = rows[st[q]].alarm, rows[st[p]].type \in Resolution
          PROVE  rows[st[q]].type \in Resolution
      <4>1. p \in DOMAIN sent /\ st[p] = sent[p] /\ sent[p] \in DOMAIN rows
        BY <2>1, <3>5, <3>6
      <4>2. CASE q \in DOMAIN sent
        BY <1>2, <3>5, <3>6, <4>1, <4>2 DEF NewsInOrder
      <4>3. CASE q = Len(sent) + 1
        <5>1. PICK k \in DOMAIN rows : k = sent[p]
          BY <4>1
        <5>2. /\ st[q] = i /\ rows[k].alarm = rows[i].alarm
              /\ rows[k].type \in Resolution
          BY <3>5, <3>6, <4>1, <4>3, <5>1
        <5>3. i \in 1 .. Len(rows) /\ k \in 1 .. Len(rows)
          BY <2>1
        <5>4. rows[i].status \in Active /\ rows[i].status \notin Quiet
          BY <3>2 DEF Active, Quiet
        <5>5. ~(i < k)
          BY <2>1, <4>1, <5>1, <5>2, <5>4 DEF Past
        <5>6. CASE i = k
          BY <5>2, <5>6
        <5>7. CASE k < i
          <6>1. rows[i].type \notin Outage
            BY <2>1, <5>2, <5>4, <5>7 DEF Ordered
          <6>2. rows[i].type \in Outage \cup Resolution
            <7>1. rows[i] \in Message
              BY <2>1
            <7>2. QED
              BY <7>1 DEF Message
          <6>3. QED
            BY <5>2, <6>1, <6>2
        <5>8. QED
          BY <5>3, <5>5, <5>6, <5>7
      <4>4. QED
        BY <3>5, <4>2, <4>3
    <3>7. \A p \in DOMAIN st : st[p] \in DOMAIN rows
      <4>1. \A p \in DOMAIN st : p \in DOMAIN sent \/ p = Len(sent) + 1
        BY <3>5
      <4>2. QED
        BY <2>1, <3>2, <3>5, <4>1
    <3>8. InOrder(rows, st)
      BY <3>6 DEF InOrder
    <3>9. InOrder(rows', st)
      BY <2>2, <3>7, <3>8, InOrderKept
    <3>10. InOrder(rows', sent')
      BY <3>3, <3>9, Zenon
    <3>11. QED
      BY <3>10, Zenon DEF NewsInOrder, InOrder
  <2>5. sent' = sent \/ \E j \in work : Accept(j)
    <3>1. ASSUME NEW j \in work, Dispatch(j)
          PROVE  sent' = sent \/ \E k \in work : Accept(k)
      BY <3>1 DEF Dispatch, Preflight, CompleteOk, CompleteError
    <3>2. QED
      BY <1>2, <3>1 DEF Next, Measure, UpdateDevice, CreateMaintenance, CancelMaintenance,
         SilenceAlarm, CancelSilence, TickRecover, Claim, ClaimFails, LoseResult, Boot,
         StopBegin, StopEnd, Crash, Restore, Tick
  <2>6. QED
    BY <2>3, <2>4, <2>5
<1>3. ASSUME IInv, NewsInOrder, UNCHANGED vars
      PROVE  NewsInOrder'
  BY <1>3 DEF vars, NewsInOrder
<1>4. IInv /\ NewsInOrder /\ [Next]_vars => NewsInOrder'
  BY <1>2, <1>3, StepGood
<1>5. QED
  BY <1>1, <1>4, Invariance, PTL DEF Spec
-----------------------------------------------------------------------------
(***************************************************************************)
(* The alarms table is an alarm feed.                                      *)
(***************************************************************************)
\* An open alarm speaks of its device as it is.
Tracks ==
  \A a \in DOMAIN alarms :
    alarms[a].status = "open" =>
      device[alarms[a].device].active /\ device[alarms[a].device].ip = alarms[a].ip

\* What a reader of the feed sees of an alarm.
Shown(a) == [device |-> a.device, ip |-> a.ip, mode |-> a.probe, status |-> a.status]

ShownAlarm == [device : Devices, ip : Addresses, mode : Probes \cup {Simulator},
               status : {"open", "resolved", "closed"}]

LEMMA OneMore ==
  ASSUME NEW S, NEW F \in Seq(S), NEW G \in Seq(S), Len(G) = Len(F) + 1,
         \A k \in 1 .. Len(F) : G[k] = F[k]
  PROVE  G = Append(F, G[Len(F) + 1])
<1>. DEFINE x == G[Len(F) + 1]
           A == Append(F, x)
<1>1. Len(F) \in Nat
  OBVIOUS
<1>2. x \in S
  BY <1>1
<1>3. A \in Seq(S) /\ Len(A) = Len(F) + 1
  BY <1>2
<1>4. \A k \in 1 .. Len(F) + 1 : A[k] = G[k]
  BY <1>1, <1>2
<1>5. QED
  BY <1>3, <1>4

LEMMA FeedAlarmsIs ==
  ASSUME alarms \in Seq(Alarm)
  PROVE  /\ FeedAlarms = [a \in 1 .. Len(alarms) |-> Shown(alarms[a])]
         /\ FeedAlarms \in Seq(ShownAlarm) /\ Len(FeedAlarms) = Len(alarms)
         /\ DOMAIN FeedAlarms = DOMAIN alarms
<1>1. /\ DOMAIN alarms = 1 .. Len(alarms) /\ Len(alarms) \in Nat
      /\ \A a \in DOMAIN alarms : alarms[a] \in Alarm
  OBVIOUS
<1>2. \A a \in DOMAIN alarms : Shown(alarms[a]) \in ShownAlarm
  BY <1>1 DEF Alarm, Shown, ShownAlarm
<1>3. FeedAlarms = [a \in 1 .. Len(alarms) |-> Shown(alarms[a])]
  BY <1>1 DEF FeedAlarms, Shown
<1>4. QED
  BY <1>1, <1>2, <1>3

\* One more alarm, of d at its address with a mode it has no open alarm of.
LEMMA MeasureOpens ==
  ASSUME IInv, Tracks, NEW d \in Devices, NEW p \in Probes \cup {Simulator},
         device[d].active, UNCHANGED device,
         \A a \in DOMAIN alarms :
           ~(/\ alarms[a].status = "open" /\ alarms[a].device = d
             /\ alarms[a].ip = device[d].ip /\ alarms[a].probe = p),
         alarms' = Append(alarms, [device |-> d, ip |-> device[d].ip, probe |-> p,
                                   status |-> "open", opened |-> now, ended |-> Never])
  PROVE  Feed!Raise(d, p) /\ Tracks'
<1>1. Rest /\ now \in Nat
  BY NowIsNat DEF IInv
<1>2. alarms \in Seq(Alarm) /\ device[d].ip \in Addresses
  BY <1>1 DEF Rest
<1>3. PICK ip \in Addresses : ip = device[d].ip
  BY <1>2
<1>4. PICK v : v = [device |-> d, ip |-> ip, probe |-> p, status |-> "open",
                    opened |-> now, ended |-> Never]
  OBVIOUS
<1>5. v \in Alarm
  BY <1>1, <1>4 DEF Alarm, Never
<1>6. Shown(v) = [device |-> d, ip |-> ip, mode |-> p, status |-> "open"]
  BY <1>4 DEF Shown
<1>7. alarms' = Append(alarms, v)
  BY <1>3, <1>4, Zenon
<1>8. PICK as \in Seq(Alarm) : as = alarms'
  BY <1>2, <1>5, <1>7
<1>9. /\ Len(as) = Len(alarms) + 1 /\ Len(alarms) \in Nat
      /\ as[Len(alarms) + 1] = v
      /\ \A a \in 1 .. Len(alarms) : as[a] = alarms[a]
      /\ DOMAIN as = 1 .. Len(alarms) + 1 /\ DOMAIN alarms = 1 .. Len(alarms)
  BY <1>2, <1>5, <1>7, <1>8
<1>10. PICK G : G = [a \in 1 .. Len(as) |-> Shown(as[a])]
  OBVIOUS
<1>11. G = FeedAlarms'
  <2>1. DOMAIN as = 1 .. Len(as)
    BY <1>8
  <2>2. QED
    BY <1>8, <1>10, <2>1 DEF FeedAlarms, Shown
<1>12. PICK F \in Seq(ShownAlarm) : F = FeedAlarms
  BY <1>2, FeedAlarmsIs
<1>13. Len(F) = Len(alarms) /\ F = [a \in 1 .. Len(alarms) |-> Shown(alarms[a])]
  BY <1>2, <1>12, FeedAlarmsIs
<1>. PICK n \in Nat : n = Len(alarms)
  BY <1>9
<1>. /\ Len(F) = n /\ Len(as) = n + 1 /\ as[n + 1] = v
     /\ \A a \in 1 .. n : as[a] = alarms[a] /\ F[a] = Shown(alarms[a])
     /\ \A a \in 1 .. n + 1 : G[a] = Shown(as[a])
  BY <1>9, <1>10, <1>13
<1>14. G \in Seq(ShownAlarm) /\ Len(G) = Len(as)
  <2>1. \A a \in 1 .. Len(as) : as[a] \in Alarm
    BY <1>8
  <2>2. \A a \in 1 .. Len(as) : Shown(as[a]) \in ShownAlarm
    BY <2>1 DEF Alarm, Shown, ShownAlarm
  <2>3. QED
    BY <1>8, <1>10, <2>2
<1>15. G = Append(F, G[Len(F) + 1])
  <2>1. ASSUME NEW k \in 1 .. Len(F)
        PROVE  G[k] = F[k]
    <3>1. k \in 1 .. n /\ k \in 1 .. n + 1
      OBVIOUS
    <3>2. QED
      BY <3>1
  <2>2. QED
    BY <1>9, <1>13, <1>14, <2>1, OneMore
<1>16. G[Len(F) + 1] = Shown(v)
  <2>1. n + 1 \in 1 .. n + 1
    OBVIOUS
  <2>2. QED
    BY <2>1
<1>17. UNCHANGED FeedTarget
  BY DEF FeedTarget
<1>18. FeedTarget[d].active /\ FeedTarget[d].ip = ip
  BY <1>3 DEF FeedTarget
<1>19. \A a \in DOMAIN F : ~(Feed!IsOpenOf(F[a], d) /\ F[a].mode = p)
  <2>1. SUFFICES ASSUME NEW a \in DOMAIN F, F[a].device = d, F[a].status = "open", F[a].mode = p
                 PROVE  FALSE
    BY DEF Feed!IsOpenOf
  <2>2. /\ a \in DOMAIN alarms /\ alarms[a].device = d
        /\ alarms[a].status = "open" /\ alarms[a].probe = p
    BY <1>9, <1>13, <2>1 DEF Shown
  <2>3. alarms[a].ip = device[d].ip
    BY <2>2 DEF Tracks
  <2>4. QED
    BY <2>2, <2>3
<1>20. Feed!Raise(d, p)
  BY <1>6, <1>11, <1>12, <1>15, <1>16, <1>17, <1>18, <1>19 DEF Feed!Raise
<1>21. Tracks'
  <2>1. ASSUME NEW a \in DOMAIN as, as[a].status = "open"
        PROVE  device[as[a].device].active /\ device[as[a].device].ip = as[a].ip
    <3>1. CASE a \in 1 .. Len(alarms)
      BY <1>9, <2>1, <3>1 DEF Tracks
    <3>2. CASE a = Len(alarms) + 1
      <4>1. as[a] = v
        BY <1>9, <3>2
      <4>2. v.device = d /\ v.ip = device[d].ip
        BY <1>3, <1>4
      <4>3. QED
        BY <4>1, <4>2
    <3>3. a \in 1 .. Len(alarms) \/ a = Len(alarms) + 1
      BY ONLY <1>9
    <3>4. QED
      BY <3>1, <3>2, <3>3
  <2>2. QED
    BY <1>8, <2>1 DEF Tracks
<1>22. QED
  BY <1>20, <1>21

LEMMA MeasureResolves ==
  ASSUME IInv, Tracks, NEW a \in DOMAIN alarms, alarms[a].status = "open", UNCHANGED device,
         alarms' = [alarms EXCEPT ![a].status = "resolved", ![a].ended = now]
  PROVE  Feed!Resolve(a) /\ a \in DOMAIN FeedAlarms /\ Tracks'
<1>1. Rest
  BY DEF IInv
<1>2. alarms \in Seq(Alarm) /\ alarms[a] \in Alarm
  BY <1>1 DEF Rest
<1>3. /\ alarms'[a] = [alarms[a] EXCEPT !.status = "resolved", !.ended = now]
      /\ DOMAIN alarms' = DOMAIN alarms
      /\ \A b \in DOMAIN alarms \ {a} : alarms'[b] = alarms[b]
  OBVIOUS
<1>4. /\ Shown(alarms'[a]) = [Shown(alarms[a]) EXCEPT !.status = "resolved"]
      /\ alarms'[a].status = "resolved"
  BY <1>2, <1>3 DEF Shown, Alarm
<1>5. /\ DOMAIN FeedAlarms = DOMAIN alarms
      /\ FeedAlarms = [b \in DOMAIN alarms |-> Shown(alarms[b])]
      /\ FeedAlarms' = [b \in DOMAIN alarms |-> Shown(alarms'[b])]
  BY <1>3 DEF FeedAlarms, Shown
<1>6. FeedAlarms' = [FeedAlarms EXCEPT ![a].status = "resolved"]
  BY <1>3, <1>4, <1>5
<1>7. /\ FeedAlarms[a].status = "open" /\ FeedAlarms[a].ip = alarms[a].ip
      /\ FeedAlarms[a].device = alarms[a].device
  BY <1>5 DEF Shown
<1>8. /\ alarms[a].device \in Devices /\ device[alarms[a].device].active \in BOOLEAN
      /\ device[alarms[a].device].active
      /\ device[alarms[a].device].ip = alarms[a].ip
  BY <1>1, <1>2 DEF Rest, Alarm, Tracks
<1>9. FeedTarget[FeedAlarms[a].device] = [active |-> TRUE, ip |-> FeedAlarms[a].ip]
  BY <1>7, <1>8 DEF FeedTarget
<1>10. UNCHANGED FeedTarget
  BY DEF FeedTarget
<1>11. Feed!Resolve(a)
  BY <1>6, <1>7, <1>9, <1>10 DEF Feed!Resolve, Feed!IsOpenOf
<1>12. Tracks'
  BY <1>3, <1>4 DEF Tracks
<1>13. QED
  BY <1>5, <1>11, <1>12

LEMMA UpdateRetargets ==
  ASSUME IInv, Tracks, NEW d \in Devices, NEW ip \in Addresses, NEW act \in BOOLEAN,
         UpdateDevice(d, ip, act)
  PROVE  Feed!Next /\ Tracks'
<1>. DEFINE t == [active |-> act, ip |-> ip]
<1>1. Rest
  BY DEF IInv
<1>2. /\ \A a \in DOMAIN alarms : alarms[a] \in Alarm
      /\ device \in [Devices -> [active : BOOLEAN, ip : Addresses, version : Nat]]
  BY <1>1 DEF Rest
<1>3. /\ \A e \in Devices \ {d} : device'[e] = device[e]
      /\ device'[d].active = act /\ device'[d].ip = ip
  BY <1>2 DEF UpdateDevice
<1>4. FeedTarget' = [FeedTarget EXCEPT ![d] = t]
  BY <1>3 DEF FeedTarget
<1>5. t # FeedTarget[d] /\ \A e \in Devices \ {d} : FeedTarget[e].ip # t.ip
  <2>1. FeedTarget[d].active = device[d].active /\ FeedTarget[d].ip = device[d].ip
    BY DEF FeedTarget
  <2>2. ip # device[d].ip \/ act # device[d].active
    BY DEF UpdateDevice
  <2>3. \A e \in Devices \ {d} : FeedTarget[e].ip # t.ip
    BY DEF UpdateDevice, FeedTarget
  <2>4. QED
    BY <2>1, <2>2, <2>3
<1>6. /\ DOMAIN alarms' = DOMAIN alarms
      /\ \A a \in DOMAIN alarms :
           alarms'[a] = IF alarms[a].device = d /\ alarms[a].status = "open"
                        THEN [alarms[a] EXCEPT !.status = "closed", !.ended = now]
                        ELSE alarms[a]
  BY DEF UpdateDevice
<1>7. \A a \in DOMAIN alarms :
        /\ Shown([alarms[a] EXCEPT !.status = "closed", !.ended = now]) =
             [Shown(alarms[a]) EXCEPT !.status = "closed"]
        /\ [alarms[a] EXCEPT !.status = "closed", !.ended = now].status = "closed"
  BY <1>2 DEF Shown, Alarm
<1>8. /\ DOMAIN FeedAlarms = DOMAIN alarms
      /\ \A a \in DOMAIN alarms : /\ FeedAlarms[a] = Shown(alarms[a])
                                  /\ FeedAlarms[a].device = alarms[a].device
                                  /\ FeedAlarms[a].status = alarms[a].status
      /\ FeedAlarms' = [a \in DOMAIN alarms |-> Shown(alarms'[a])]
  BY <1>6 DEF FeedAlarms, Shown
<1>9. FeedAlarms' = [a \in DOMAIN FeedAlarms |->
                       IF Feed!IsOpenOf(FeedAlarms[a], d)
                       THEN [FeedAlarms[a] EXCEPT !.status = "closed"] ELSE FeedAlarms[a]]
  <2>1. ASSUME NEW a \in DOMAIN alarms
        PROVE  Shown(alarms'[a]) = IF Feed!IsOpenOf(FeedAlarms[a], d)
                                   THEN [FeedAlarms[a] EXCEPT !.status = "closed"]
                                   ELSE FeedAlarms[a]
    <3>1. Feed!IsOpenOf(FeedAlarms[a], d) <=> (alarms[a].device = d /\ alarms[a].status = "open")
      BY <1>8 DEF Feed!IsOpenOf
    <3>2. QED
      BY <1>6, <1>7, <1>8, <3>1
  <2>2. QED
    BY <1>8, <2>1, Zenon
<1>10. t \in Feed!Targets /\ Feed!Retarget(d, t)
  BY <1>4, <1>5, <1>9 DEF Feed!Targets, Feed!Retarget
<1>11. Tracks'
  <2>1. ASSUME NEW a \in DOMAIN alarms', alarms'[a].status = "open"
        PROVE  device'[alarms'[a].device].active /\ device'[alarms'[a].device].ip = alarms'[a].ip
    <3>1. a \in DOMAIN alarms
      BY <1>6, <2>1
    <3>2. alarms'[a] = alarms[a] /\ alarms[a].device # d
      BY <1>6, <1>7, <2>1, <3>1
    <3>3. alarms[a].device \in Devices
      BY <1>2, <3>1 DEF Alarm
    <3>4. device'[alarms[a].device] = device[alarms[a].device]
      BY <1>3, <3>2, <3>3
    <3>5. QED
      BY <2>1, <3>1, <3>2, <3>4 DEF Tracks
  <2>2. QED
    BY <2>1 DEF Tracks
<1>12. QED
  BY <1>10, <1>11 DEF Feed!Next

LEMMA FeedStep ==
  ASSUME IInv, Tracks, [Next]_vars
  PROVE  Tracks' /\ (Feed!Next \/ UNCHANGED <<FeedTarget, FeedAlarms>>)
<1>1. CASE UNCHANGED <<device, alarms>>
  BY <1>1 DEF Tracks, FeedTarget, FeedAlarms
<1>2. ASSUME NEW d \in Devices, NEW outcome \in Outcomes, Measure(d, outcome)
      PROVE  Tracks' /\ (Feed!Next \/ UNCHANGED <<FeedTarget, FeedAlarms>>)
  <2>1. UNCHANGED device /\ device[d].active
    BY <1>2 DEF Measure
  <2>2. PICK p \in Probes \cup {Simulator} : p = config.probe
    BY DEF IInv, Rest
  <2>3. CASE UNCHANGED alarms
    BY <1>1, <2>1, <2>3
  <2>4. CASE /\ {a \in DOMAIN alarms : /\ alarms[a].status = "open" /\ alarms[a].device = d
                                       /\ alarms[a].ip = device[d].ip
                                       /\ alarms[a].probe = config.probe} = {}
             /\ alarms' = Append(alarms, [device |-> d, ip |-> device[d].ip,
                                          probe |-> config.probe, status |-> "open",
                                          opened |-> now, ended |-> Never])
    <3>1. \A a \in DOMAIN alarms :
            ~(/\ alarms[a].status = "open" /\ alarms[a].device = d
              /\ alarms[a].ip = device[d].ip /\ alarms[a].probe = p)
      BY <2>2, <2>4
    <3>2. alarms' = Append(alarms, [device |-> d, ip |-> device[d].ip, probe |-> p,
                                    status |-> "open", opened |-> now, ended |-> Never])
      BY <2>2, <2>4
    <3>3. Feed!Raise(d, p) /\ Tracks'
      BY <2>1, <3>1, <3>2, MeasureOpens
    <3>4. QED
      BY <3>3 DEF Feed!Next
  <2>5. ASSUME NEW a \in DOMAIN alarms, alarms[a].status = "open",
               alarms' = [alarms EXCEPT ![a].status = "resolved", ![a].ended = now]
        PROVE  Tracks' /\ Feed!Next
    <3>1. Feed!Resolve(a) /\ a \in DOMAIN FeedAlarms /\ Tracks'
      BY <2>1, <2>5, MeasureResolves
    <3>2. QED
      BY <3>1 DEF Feed!Next
  <2>6. QED
    BY <1>2, <2>3, <2>4, <2>5 DEF Measure
<1>3. ASSUME NEW d \in Devices, NEW ip \in Addresses, NEW act \in BOOLEAN, UpdateDevice(d, ip, act)
      PROVE  Tracks' /\ (Feed!Next \/ UNCHANGED <<FeedTarget, FeedAlarms>>)
  BY <1>3, UpdateRetargets
<1>4. ASSUME NEW j \in work, Dispatch(j)
      PROVE  UNCHANGED <<device, alarms>>
  BY <1>4 DEF Dispatch, Preflight, Accept, CompleteOk, CompleteError, feed
<1>5. CASE UNCHANGED vars
  BY <1>1, <1>5 DEF vars, feed
<1>6. CASE Next
  <2>1. \/ \E d \in Devices, outcome \in Outcomes : Measure(d, outcome)
        \/ \E d \in Devices, ip \in Addresses, act \in BOOLEAN : UpdateDevice(d, ip, act)
        \/ UNCHANGED <<device, alarms>>
    BY <1>4, <1>6 DEF Next, CreateMaintenance, CancelMaintenance, SilenceAlarm, CancelSilence,
       TickRecover, Claim, ClaimFails, LoseResult, Boot, StopBegin, StopEnd, Crash, Restore,
       Tick, feed
  <2>2. QED
    BY <1>1, <1>2, <1>3, <2>1
<1>7. QED
  BY <1>5, <1>6

\* The alarms that are notified about implement AlarmFeed, as those of the
\* monitoring core do: what the outbox assumes of them is what Monitor provides.
THEOREM ImplementsFeed == Spec => FeedSpec
<1>1. Init => Feed!Init /\ Tracks
  <2>1. ASSUME Init
        PROVE  Feed!Init /\ Tracks
    <3>1. /\ alarms = <<>>
          /\ device \in [Devices -> [active : {TRUE}, ip : Addresses, version : {1}]]
      BY <2>1 DEF Init
    <3>2. FeedAlarms = <<>> /\ Tracks
      BY <3>1 DEF FeedAlarms, Tracks
    <3>3. FeedTarget \in [Devices -> Feed!Targets]
      BY <3>1 DEF FeedTarget, Feed!Targets
    <3>4. QED
      BY <3>2, <3>3 DEF Feed!Init
  <2>2. QED
    BY <2>1
<1>2. IInv /\ Tracks /\ [Next]_vars => Tracks' /\ [Feed!Next]_<<FeedTarget, FeedAlarms>>
  BY FeedStep
<1>3. QED
  BY <1>1, <1>2, Invariance, PTL DEF Spec, FeedSpec, Feed!Spec
=============================================================================
