--------------------------- MODULE RetentionProofs ---------------------------
(***************************************************************************)
(* Proofs about the cleanup command, for any number of devices, batches of *)
(* any size and histories of any length: the last measurement of every     *)
(* group survives, so no id is given twice and every device keeps its      *)
(* present state; and so does what open alarms and pending streaks rest    *)
(* on.                                                                     *)
(***************************************************************************)
EXTENDS Retention, FiniteSetTheorems, TLAPS

\* Measurements that GROUP BY puts together.
SameGroup(i, j) ==
  /\ log[i].device = log[j].device /\ log[i].version = log[j].version
  /\ log[i].ip = log[j].ip /\ log[i].current = log[j].current

\* Ids grow with the history.
Ascending == \A i, j \in DOMAIN log : i < j => log[i].id < log[j].id

\* The last of each group has its row.
TopOf(i, j) == SameGroup(i, j) /\ \A k \in DOMAIN log : SameGroup(i, k) => k <= j
TopsAreKept == \A i \in DOMAIN log : \E j \in kept : TopOf(i, j)

IInv == TypeOK /\ Ascending /\ TopsAreKept
-----------------------------------------------------------------------------
LEMMA Limits ==
  ASSUME RetentionAssumption
  PROVE  MaxBatches \in Nat /\ MaxBatches > 0 /\ MaxTime \in Nat
BY DEF RetentionAssumption

LEMMA Measurements ==
  ASSUME TypeOK
  PROVE  /\ log \in Seq(Entry) /\ kept \subseteq DOMAIN log
         /\ Len(log) \in Nat /\ DOMAIN log = 1 .. Len(log)
         /\ \A i \in DOMAIN log : i \in Nat /\ log[i] \in Entry /\ log[i].id \in Nat
<1>1. log \in Seq(Entry) /\ kept \subseteq DOMAIN log
  BY DEF TypeOK
<1>2. Len(log) \in Nat /\ DOMAIN log = 1 .. Len(log)
  BY <1>1
<1>3. \A i \in DOMAIN log : i \in Nat /\ log[i] \in Entry
  BY <1>1, <1>2
<1>4. \A x \in Entry : x.id \in Nat
  BY DEF Entry
<1>. QED BY <1>1, <1>2, <1>3, <1>4

LEMMA LastIsKept ==
  ASSUME IInv, Len(log) > 0
  PROVE  Len(log) \in kept
<1>1. log \in Seq(Entry) /\ kept \subseteq DOMAIN log
  BY Measurements DEF IInv
<1>2. Len(log) \in Nat /\ DOMAIN log = 1 .. Len(log)
  BY <1>1
<1>3. PICK j \in kept : TopOf(Len(log), j)
  BY <1>2 DEF IInv, TopsAreKept
<1>4. Len(log) <= j
  BY <1>2, <1>3 DEF TopOf, SameGroup
<1>. QED BY <1>1, <1>2, <1>4

\* The id SQLite gives is greater than every id it ever gave.
LEMMA NewIdIsNew ==
  ASSUME IInv
  PROVE  NewId \in Nat \ {0} /\ \A i \in DOMAIN log : log[i].id < NewId
<1>1. log \in Seq(Entry) /\ kept \subseteq DOMAIN log /\ Ascending
  BY Measurements DEF IInv
<1>2. Len(log) \in Nat /\ DOMAIN log = 1 .. Len(log)
  BY <1>1
<1>3. \A i \in DOMAIN log : log[i].id \in Nat
  BY Measurements DEF IInv
<1>4. CASE kept = {}
  <2>1. Len(log) = 0
    BY <1>2, <1>4, LastIsKept
  <2>. QED BY <1>2, <1>4, <2>1 DEF NewId
<1>5. CASE kept # {}
  <2>1. Len(log) \in kept /\ Len(log) \in DOMAIN log
    BY <1>1, <1>2, <1>5, LastIsKept
  <2>2. \A i \in DOMAIN log : log[i].id <= log[Len(log)].id
    BY <1>1, <1>2, <1>3, <2>1 DEF Ascending
  <2>. DEFINE ids == {log[i].id : i \in kept}
              top == CHOOSE n \in ids : \A i \in kept : log[i].id <= n
  <2>3. log[Len(log)].id \in ids /\ \A i \in kept : log[i].id <= log[Len(log)].id
    BY <1>1, <2>1, <2>2
  <2>4. top \in ids /\ \A i \in kept : log[i].id <= top
    BY <2>3
  <2>5. top \in Nat /\ log[Len(log)].id <= top
    BY <1>1, <1>3, <2>1, <2>4
  <2>6. NewId = 1 + top
    BY <1>5 DEF NewId
  <2>. HIDE DEF top
  <2>. QED BY <1>3, <2>1, <2>2, <2>5, <2>6
<1>. QED BY <1>4, <1>5
-----------------------------------------------------------------------------
(* Saving a measurement.                                                   *)

LEMMA EvaluationKeepsTypes ==
  ASSUME TypeOK, NEW d \in Devices, NEW outcome \in Outcomes, NEW c \in Check,
         \/ UNCHANGED <<streak, alarms>>
         \/ NoReply(d, c)
         \/ Answer(d, c, outcome)
  PROVE  /\ streak' \in [Devices -> [version : Nat, count : Nat, first : Nat]]
         /\ alarms' \subseteq [device : Devices, ip : Addresses, first : Nat, opened : Nat]
<1>1. CASE UNCHANGED <<streak, alarms>>
  BY <1>1 DEF TypeOK
<1>2. CASE NoReply(d, c)
  <2>. DEFINE old == IF streak[d].version = c.version THEN streak[d].count ELSE 0
              row == [version |-> c.version, count |-> old + 1,
                      first |-> IF old = 0 THEN now ELSE streak[d].first]
              new == [device |-> d, ip |-> c.ip, first |-> row.first, opened |-> now]
  <2>1. old \in Nat /\ c.version \in Nat /\ c.ip \in Addresses /\ now \in Nat
        /\ streak[d].first \in Nat
    BY DEF TypeOK, Check
  <2>2. row \in [version : Nat, count : Nat, first : Nat]
    BY <2>1
  <2>3. new \in [device : Devices, ip : Addresses, first : Nat, opened : Nat]
    BY <2>1
  <2>4. streak' = [streak EXCEPT ![d] = row] /\ alarms' \subseteq alarms \cup {new}
    BY <1>2 DEF NoReply
  <2>. HIDE DEF row, new
  <2>. QED BY <2>2, <2>3, <2>4 DEF TypeOK
<1>3. CASE Answer(d, c, outcome)
  BY <1>3 DEF Answer, TypeOK, Check
<1>. QED BY <1>1, <1>2, <1>3

LEMMA SaveKeeps ==
  ASSUME NoCheckAssumption, RetentionAssumption, IInv,
         NEW d \in Devices, NEW outcome \in Outcomes, Save(d, outcome)
  PROVE  IInv'
<1>. DEFINE c == flight[d]
            e == [id |-> NewId, device |-> d, ip |-> c.ip, version |-> c.version,
                  current |-> IsCurrent(d, c), outcome |-> outcome, at |-> now]
            n == Len(log) + 1
<1>1. c \in Check /\ log \in Seq(Entry) /\ kept \subseteq DOMAIN log /\ now \in Nat
  BY Measurements DEF IInv, TypeOK, Save, NoCheckAssumption
<1>2. IsCurrent(d, c) \in BOOLEAN
  BY DEF IsCurrent
<1>3. e \in Entry
  BY <1>1, <1>2, NewIdIsNew DEF Entry, Check
<1>4. log' = Append(log, e) /\ kept' = kept \cup {n}
  BY DEF Save
<1>. HIDE DEF e
<1>5. /\ log' \in Seq(Entry) /\ Len(log) \in Nat
      /\ DOMAIN log = 1 .. Len(log) /\ DOMAIN log' = 1 .. n
      /\ log'[n] = e /\ \A i \in DOMAIN log : log'[i] = log[i]
  BY <1>1, <1>3, <1>4
<1>6. TypeOK'
  <2>1. kept' \subseteq DOMAIN log'
    BY <1>1, <1>4, <1>5
  <2>2. /\ streak' \in [Devices -> [version : Nat, count : Nat, first : Nat]]
        /\ alarms' \subseteq [device : Devices, ip : Addresses, first : Nat, opened : Nat]
    BY <1>1, EvaluationKeepsTypes DEF IInv, Save
  <2>3. flight' \in [Devices -> Check \cup {NoCheck}]
    BY DEF IInv, TypeOK, Save, Check
  <2>. QED BY <1>5, <2>1, <2>2, <2>3 DEF IInv, TypeOK, Save
<1>7. Ascending'
  <2>1. e.id = NewId
    BY DEF e
  <2>2. \A i \in DOMAIN log : log[i].id < e.id
    BY <2>1, NewIdIsNew
  <2>. QED BY <1>5, <2>2 DEF IInv, Ascending
<1>8. TopsAreKept'
  <2>. HIDE DEF n
  <2>1. n \in DOMAIN log' /\ n \in kept' /\ \A k \in DOMAIN log' : k <= n
    BY <1>4, <1>5 DEF n
  <2>2. \A i \in DOMAIN log' : i = n \/ i \in DOMAIN log
    BY <1>5 DEF n
  <2>. SUFFICES ASSUME NEW i \in DOMAIN log', NEW m, m = n
                PROVE  \E j \in kept' : TopOf(i, j)'
    BY DEF TopsAreKept
  <2>3. CASE SameGroup(i, m)'
    <3>1. TopOf(i, m)'
      BY <2>1, <2>3 DEF TopOf
    <3>. QED BY <2>1, <3>1
  <2>4. CASE ~SameGroup(i, m)'
    <3>1. i \in DOMAIN log
      BY <2>2, <2>4 DEF SameGroup
    <3>2. PICK j \in kept : TopOf(i, j)
      BY <3>1 DEF IInv, TopsAreKept
    <3>3. \A k \in DOMAIN log : SameGroup(i, k)' <=> SameGroup(i, k)
      BY <1>5, <3>1 DEF SameGroup
    <3>4. TopOf(i, j)'
      BY <1>1, <2>2, <2>4, <3>2, <3>3 DEF TopOf
    <3>. QED BY <1>4, <3>2, <3>4
  <2>. QED BY <2>3, <2>4
<1>. QED BY <1>6, <1>7, <1>8 DEF IInv
-----------------------------------------------------------------------------
(* A batch.                                                                *)

LEMMA BatchKeeps ==
  ASSUME RetentionAssumption, IInv, Batch
  PROVE  IInv'
<1>1. log' = log /\ kept' \subseteq kept /\ log \in Seq(Entry) /\ kept \subseteq DOMAIN log
      /\ kept \ kept' \subseteq Candidates(job.cutoff)
  BY Measurements DEF Batch, monitor, FirstOf, IInv
<1>2. TypeOK'
  <2>1. job' \in [cutoff : Nat, left : 0 .. MaxBatches]
    <3>1. job \in [cutoff : Nat, left : 0 .. MaxBatches] /\ MaxBatches \in Nat
      BY Limits DEF IInv, TypeOK
    <3>2. job.left > 0 /\ job' = [job EXCEPT !.left = @ - 1]
      BY DEF Batch
    <3>3. job.left - 1 \in 0 .. MaxBatches
      BY <3>1, <3>2
    <3>. QED BY <3>1, <3>2, <3>3
  <2>. QED BY <1>1, <2>1 DEF IInv, TypeOK, Batch, monitor, vars
<1>3. Ascending'
  BY <1>1 DEF IInv, Ascending
<1>4. ASSUME NEW i \in DOMAIN log, NEW j \in kept, TopOf(i, j)
      PROVE  j \in kept'
  <2>1. \A k \in kept : SameGroup(j, k) => k <= j
    BY <1>1, <1>4 DEF TopOf, SameGroup
  <2>2. \A k \in DOMAIN log : k \in Nat /\ log[k].id \in Nat
    BY Measurements DEF IInv
  <2>3. ASSUME NEW k \in kept, SameGroup(j, k) PROVE log[k].id <= log[j].id
    <3>1. k \in DOMAIN log /\ j \in DOMAIN log /\ k <= j
      BY <1>1, <1>4, <2>1, <2>3
    <3>2. k = j \/ log[k].id < log[j].id
      BY <2>2, <3>1 DEF IInv, Ascending
    <3>. QED BY <2>2, <3>1, <3>2
  <2>4. IsLatest(j)
    BY <2>3 DEF IsLatest, SameGroup
  <2>5. j \notin Candidates(job.cutoff)
    BY <2>4 DEF Candidates, Protected
  <2>. QED BY <1>1, <2>5
<1>5. TopsAreKept'
  BY <1>1, <1>4 DEF IInv, TopsAreKept, TopOf, SameGroup
<1>. QED BY <1>2, <1>3, <1>5 DEF IInv
-----------------------------------------------------------------------------
(* Everything else leaves the measurements alone.                          *)

LEMMA SameMeasurements ==
  ASSUME IInv, UNCHANGED <<log, kept>>, TypeOK'
  PROVE  IInv'
BY DEF IInv, Ascending, TopsAreKept, TopOf, SameGroup

LEMMA OthersKeepTypes ==
  ASSUME RetentionAssumption, NoCheckAssumption, TypeOK,
         \/ \E d \in Devices : StartCheck(d)
         \/ \E d \in Devices, ip \in Addresses, act \in BOOLEAN : UpdateDevice(d, ip, act)
         \/ Stop \/ Restart \/ Tick
         \/ \E cutoff \in 1 .. MaxTime : Begin(cutoff)
         \/ Finish \/ Kill
  PROVE  TypeOK' /\ UNCHANGED <<log, kept>>
<1>1. ASSUME NEW d \in Devices, StartCheck(d) PROVE TypeOK' /\ UNCHANGED <<log, kept>>
  <2>1. [ip |-> device[d].ip, version |-> device[d].version, stale |-> FALSE] \in Check
    BY DEF TypeOK, Check
  <2>2. flight' \in [Devices -> Check \cup {NoCheck}]
    BY <1>1, <2>1 DEF TypeOK, StartCheck
  <2>. QED BY <1>1, <2>2 DEF TypeOK, StartCheck
<1>2. ASSUME NEW d \in Devices, NEW ip \in Addresses, NEW act \in BOOLEAN,
             UpdateDevice(d, ip, act)
      PROVE  TypeOK' /\ UNCHANGED <<log, kept>>
  <2>1. UNCHANGED <<now, flight, log, kept, job>> /\ alarms' \subseteq alarms
    BY <1>2 DEF UpdateDevice
  <2>2. device' \in [Devices -> [active : BOOLEAN, ip : Addresses, version : Nat]]
    <3>1. device' = [device EXCEPT ![d] = [active |-> act, ip |-> ip,
                                           version |-> device[d].version + 1]]
      BY <1>2 DEF UpdateDevice
    <3>2. device[d].version + 1 \in Nat
      BY DEF TypeOK
    <3>. QED BY <3>1, <3>2 DEF TypeOK
  <2>3. streak' \in [Devices -> [version : Nat, count : Nat, first : Nat]]
    <3>1. streak' = [streak EXCEPT ![d] = [streak[d] EXCEPT !.count = 0, !.first = 0]]
      BY <1>2 DEF UpdateDevice
    <3>2. [streak[d] EXCEPT !.count = 0, !.first = 0] \in [version : Nat, count : Nat, first : Nat]
      BY DEF TypeOK
    <3>. QED BY <3>1, <3>2 DEF TypeOK
  <2>. QED BY <2>1, <2>2, <2>3 DEF TypeOK
<1>3. ASSUME Stop \/ Restart PROVE TypeOK' /\ UNCHANGED <<log, kept>>
  <2>1. UNCHANGED <<now, device, alarms, log, kept, job>>
    BY <1>3 DEF Stop, Restart
  <2>2. streak' \in [Devices -> [version : Nat, count : Nat, first : Nat]]
    <3>1. streak' = [d \in Devices |-> [streak[d] EXCEPT !.count = 0, !.first = 0]]
      BY <1>3 DEF Stop, Restart
    <3>2. \A d \in Devices : [streak[d] EXCEPT !.count = 0, !.first = 0]
                              \in [version : Nat, count : Nat, first : Nat]
      BY DEF TypeOK
    <3>. QED BY <3>1, <3>2
  <2>3. flight' \in [Devices -> Check \cup {NoCheck}]
    <3>1. \A d \in Devices : flight[d] \in Check => [flight[d] EXCEPT !.stale = TRUE] \in Check
      BY DEF Check
    <3>2. \A d \in Devices : flight[d] = NoCheck \/ flight[d] \in Check
      BY DEF TypeOK
    <3>3. CASE Stop
      <4>1. flight' = [d \in Devices |-> IF flight[d] = NoCheck THEN NoCheck
                                         ELSE [flight[d] EXCEPT !.stale = TRUE]]
        BY <3>3 DEF Stop
      <4>. QED BY <3>1, <3>2, <4>1
    <3>4. CASE Restart
      BY <3>4 DEF Restart
    <3>. QED BY <1>3, <3>3, <3>4
  <2>. QED BY <2>1, <2>2, <2>3 DEF TypeOK
<1>4. ASSUME Tick PROVE TypeOK' /\ UNCHANGED <<log, kept>>
  BY <1>4 DEF TypeOK, Tick, monitor
<1>5. ASSUME NEW cutoff \in 1 .. MaxTime, Begin(cutoff) PROVE TypeOK' /\ UNCHANGED <<log, kept>>
  <2>1. cutoff \in Nat /\ MaxBatches \in 0 .. MaxBatches
    BY Limits
  <2>2. job' = [cutoff |-> cutoff, left |-> MaxBatches] /\ UNCHANGED <<now, monitor, kept>>
    BY <1>5 DEF Begin
  <2>. QED BY <2>1, <2>2 DEF TypeOK, monitor
<1>6. ASSUME Finish \/ Kill PROVE TypeOK' /\ UNCHANGED <<log, kept>>
  <2>1. 0 \in Nat /\ 0 \in 0 .. MaxBatches
    BY Limits
  <2>2. job' = [cutoff |-> 0, left |-> 0] /\ UNCHANGED <<now, monitor, kept>>
    BY <1>6 DEF Finish, Kill
  <2>. QED BY <2>1, <2>2 DEF TypeOK, monitor
<1>. QED BY <1>1, <1>2, <1>3, <1>4, <1>5, <1>6

LEMMA InitHolds ==
  ASSUME RetentionAssumption, Init
  PROVE  IInv
<1>1. TypeOK
  BY DEF Init, TypeOK, RetentionAssumption
<1>2. DOMAIN log = {}
  BY DEF Init
<1>. QED BY <1>1, <1>2 DEF IInv, Ascending, TopsAreKept

\* The inductive invariant: ids grow with the history, and the last measurement
\* of every group has its row.
THEOREM TopsStay == Spec => []IInv
<1>. USE RetentionAssumption, NoCheckAssumption
<1>1. Init => IInv
  BY InitHolds
<1>2. IInv /\ [Next]_vars => IInv'
  <2>. SUFFICES ASSUME IInv, [Next]_vars PROVE IInv'
    OBVIOUS
  <2>1. CASE \E d \in Devices, outcome \in Outcomes : Save(d, outcome)
    BY <2>1, SaveKeeps
  <2>2. CASE Batch
    BY <2>2, BatchKeeps
  <2>3. CASE UNCHANGED vars
    <3>1. TypeOK' /\ UNCHANGED <<log, kept>>
      BY <2>3 DEF vars, monitor, IInv, TypeOK
    <3>. QED BY <3>1, SameMeasurements
  <2>4. CASE \/ \E d \in Devices : StartCheck(d)
             \/ \E d \in Devices, ip \in Addresses, act \in BOOLEAN : UpdateDevice(d, ip, act)
             \/ Stop \/ Restart \/ Tick
             \/ \E cutoff \in 1 .. MaxTime : Begin(cutoff)
             \/ Finish \/ Kill
    BY <2>4, OthersKeepTypes, SameMeasurements DEF IInv
  <2>. QED BY <2>1, <2>2, <2>3, <2>4 DEF Next
<1>. QED BY <1>1, <1>2, PTL DEF Spec
-----------------------------------------------------------------------------
(* What follows from the invariant.                                        *)

\* Every variable of the cleanup keeps its type, and the command its limits.
THEOREM TypeCorrect == Spec => []TypeOK
BY TopsStay, PTL DEF IInv

\* SQLite never gives a measurement the id of a deleted one.
THEOREM IdsStayUnique == Spec => []IdsAreNeverReused
<1>1. IInv => IdsAreNeverReused
  <2>. SUFFICES ASSUME IInv, NEW i \in DOMAIN log, NEW j \in DOMAIN log, i # j
                PROVE  log[i].id # log[j].id
    BY DEF IdsAreNeverReused
  <2>1. i \in Nat /\ j \in Nat /\ log[i].id \in Nat /\ log[j].id \in Nat
    BY Measurements DEF IInv
  <2>2. i < j \/ j < i
    BY <2>1
  <2>. QED BY <2>1, <2>2 DEF IInv, Ascending
<1>. QED BY <1>1, TopsStay, PTL

\* The last current measurement of a device is never cleaned away.
THEOREM PresentStays == Spec => []CurrentIsFound
<1>1. IInv => CurrentIsFound
  <2>. SUFFICES ASSUME IInv, NEW d \in Devices, NEW i \in Present(d, DOMAIN log)
                PROVE  \E j \in Present(d, kept) : log[j].id >= log[i].id
    BY DEF CurrentIsFound
  <2>1. log \in Seq(Entry) /\ kept \subseteq DOMAIN log /\ i \in DOMAIN log
    BY Measurements DEF IInv, Present
  <2>2. PICK j \in kept : TopOf(i, j)
    BY <2>1 DEF IInv, TopsAreKept
  <2>3. j \in Present(d, kept)
    BY <2>2 DEF TopOf, SameGroup, Present
  <2>4. i <= j /\ j \in DOMAIN log
    BY <2>1, <2>2 DEF TopOf, SameGroup
  <2>5. i \in Nat /\ j \in Nat /\ log[i].id \in Nat /\ log[j].id \in Nat
    BY <2>1, <2>4, Measurements DEF IInv
  <2>6. log[j].id >= log[i].id
    BY <2>1, <2>4, <2>5 DEF IInv, Ascending
  <2>. QED BY <2>3, <2>6
<1>. QED BY <1>1, TopsStay, PTL
-----------------------------------------------------------------------------
(* What alarms and streaks rest on.                                        *)

\* The clock has passed the cutoff and every measurement; what was measured
\* at this very time is too young for any cutoff.
Timely ==
  /\ job.cutoff <= now
  /\ \A i \in DOMAIN log : log[i].at <= now /\ (log[i].at = now => i \in kept)

\* One version of a device has one address, in the measurements, in the check
\* that is in flight, and in the alarms.
OneAddress(ip, version, d) ==
  version <= device[d].version /\ (version = device[d].version => ip = device[d].ip)

TargetsAgree ==
  /\ \A i \in DOMAIN log : OneAddress(log[i].ip, log[i].version, log[i].device)
  /\ \A d \in Devices : flight[d] # NoCheck => OneAddress(flight[d].ip, flight[d].version, d)
  /\ \A a \in alarms : a.ip = device[a.device].ip

\* Measurement e is of version v of device d, at t or later.
Since(e, d, v, t) == e.device = d /\ e.version = v /\ e.at >= t

\* The current no_reply measurements from the first of a streak on.
Readings(d) ==
  {i \in DOMAIN log : /\ Since(log[i], d, streak[d].version, streak[d].first)
                      /\ log[i].current /\ log[i].outcome = "no_reply"}

\* A streak that counts is one of the present target, all that was measured
\* since its beginning is kept, and it counts no more than that.
StreakRests(d) ==
  LET row == streak[d]
  IN  row.count > 0 =>
        /\ row.version = device[d].version /\ row.first <= now
        /\ \A i \in DOMAIN log : Since(log[i], d, row.version, row.first) => i \in kept
        /\ Cardinality(Readings(d)) >= row.count

StreaksRest == \A d \in Devices : StreakRests(d)

EvidenceInv == Timely /\ TargetsAgree /\ StreaksRest /\ EvidenceIsKept

LEMMA ReadingsFinite ==
  ASSUME TypeOK, NEW d
  PROVE  IsFiniteSet(Readings(d)) /\ Cardinality(Readings(d)) \in Nat
<1>1. IsFiniteSet(DOMAIN log)
  BY Measurements, FS_Interval
<1>2. Readings(d) \subseteq DOMAIN log
  BY DEF Readings
<1>. QED BY <1>1, <1>2, FS_Subset, FS_CardinalityType

\* A streak row that is as it was keeps what it rests on.
LEMMA StreakStays ==
  ASSUME TypeOK, NEW d \in Devices, StreakRests(d),
         streak'[d] = streak[d], device'[d].version = device[d].version,
         now' \in Nat, now <= now', log' = log,
         \A i \in DOMAIN log : i \in kept /\ Since(log[i], d, streak[d].version, streak[d].first)
                                 => i \in kept'
  PROVE  StreakRests(d)'
<1>1. Readings(d)' = Readings(d)
  BY DEF Readings
<1>2. now \in Nat /\ streak[d].first \in Nat
  BY DEF TypeOK
<1>3. streak[d].first <= now => streak[d].first <= now'
  BY <1>2
<1>. QED BY <1>1, <1>3 DEF StreakRests

-----------------------------------------------------------------------------
(* A batch deletes no evidence.                                            *)

LEMMA BatchSpares ==
  ASSUME RetentionAssumption, TypeOK, EvidenceInv, Batch
  PROVE  EvidenceInv'
<1>1. /\ UNCHANGED <<now, device, flight, streak, alarms, log>> /\ job'.cutoff = job.cutoff
      /\ kept' \subseteq kept /\ kept \ kept' \subseteq Candidates(job.cutoff)
  BY DEF Batch, monitor, FirstOf, TypeOK
<1>2. ASSUME NEW i \in kept, \/ log[i].at >= job.cutoff
                             \/ IsEvidence(i) \/ IsStreak(i)
      PROVE  i \in kept'
  <2>1. i \in DOMAIN log /\ job.cutoff \in Nat /\ log[i].at \in Nat
    BY Measurements DEF TypeOK, Entry
  <2>2. i \notin Candidates(job.cutoff)
    BY <1>2, <2>1 DEF Candidates, Protected
  <2>. QED BY <1>1, <2>2
<1>3. Timely'
  <2>1. job.cutoff <= now /\ \A i \in DOMAIN log : log[i].at <= now /\ (log[i].at = now => i \in kept)
    BY DEF EvidenceInv, Timely
  <2>2. \A i \in DOMAIN log : log[i].at = now => i \in kept'
    BY <1>2, <2>1
  <2>. QED BY <1>1, <2>1, <2>2 DEF Timely
<1>4. TargetsAgree'
  BY <1>1 DEF EvidenceInv, TargetsAgree, OneAddress
<1>5. StreaksRest'
  <2>. SUFFICES ASSUME NEW d \in Devices PROVE StreakRests(d)'
    BY DEF StreaksRest
  <2>1. CASE streak[d].count > 0
    <3>1. ASSUME NEW i \in kept, Since(log[i], d, streak[d].version, streak[d].first)
          PROVE  i \in kept'
      BY <1>2, <2>1, <3>1 DEF IsStreak, Since
    <3>2. now \in Nat /\ now' \in Nat /\ now <= now'
      BY <1>1 DEF TypeOK
    <3>. QED BY <1>1, <3>1, <3>2, StreakStays DEF EvidenceInv, StreaksRest
  <2>2. CASE ~(streak[d].count > 0)
    BY <1>1, <2>2 DEF StreakRests
  <2>. QED BY <2>1, <2>2
<1>6. EvidenceIsKept'
  <2>. SUFFICES ASSUME NEW a \in alarms, NEW i \in DOMAIN log,
                       log[i].device = a.device, log[i].version = device[a.device].version,
                       log[i].at >= a.first
                PROVE  i \in kept'
    BY <1>1 DEF EvidenceIsKept
  <2>1. i \in kept
    BY DEF EvidenceInv, EvidenceIsKept
  <2>2. log[i].ip = a.ip
    BY DEF EvidenceInv, TargetsAgree, OneAddress
  <2>. QED BY <1>2, <2>1, <2>2 DEF IsEvidence
<1>. QED BY <1>3, <1>4, <1>5, <1>6 DEF EvidenceInv
-----------------------------------------------------------------------------
(* A measurement is evidence from the start.                               *)

\* The row a current no_reply makes of the streak of its device.
NextRow(d, c) ==
  LET old == IF streak[d].version = c.version THEN streak[d].count ELSE 0
  IN  [version |-> c.version, count |-> old + 1,
       first |-> IF old = 0 THEN now ELSE streak[d].first]

LEMMA SaveAdds ==
  ASSUME NoCheckAssumption, IInv, NEW d \in Devices, NEW outcome \in Outcomes, Save(d, outcome)
  PROVE  LET c == flight[d]
             n == Len(log) + 1
         IN  /\ c \in Check /\ c # NoCheck
             /\ UNCHANGED <<now, device, job>> /\ flight' = [flight EXCEPT ![d] = NoCheck]
             /\ kept' = kept \cup {n}
             /\ n \notin DOMAIN log /\ n \in DOMAIN log'
             /\ \A i \in DOMAIN log : i \in DOMAIN log' /\ log'[i] = log[i]
             /\ \A i \in DOMAIN log' : i \in DOMAIN log \/ i = n
             /\ log'[n].device = d /\ log'[n].ip = c.ip /\ log'[n].version = c.version
             /\ log'[n].current = IsCurrent(d, c) /\ log'[n].outcome = outcome
             /\ log'[n].at = now
<1>. DEFINE c == flight[d]
            n == Len(log) + 1
            e == [id |-> NewId, device |-> d, ip |-> c.ip, version |-> c.version,
                  current |-> IsCurrent(d, c), outcome |-> outcome, at |-> now]
<1>1. c \in Check /\ c # NoCheck /\ log \in Seq(Entry) /\ now \in Nat
  BY Measurements DEF IInv, TypeOK, Save
<1>2. e \in Entry
  <2>1. IsCurrent(d, c) \in BOOLEAN
    BY DEF IsCurrent
  <2>. QED BY <1>1, <2>1, NewIdIsNew DEF Entry, Check
<1>3. /\ log' = Append(log, e) /\ kept' = kept \cup {n}
      /\ UNCHANGED <<now, device, job>> /\ flight' = [flight EXCEPT ![d] = NoCheck]
  BY DEF Save
<1>. HIDE DEF e
<1>4. /\ Len(log) \in Nat /\ DOMAIN log = 1 .. Len(log) /\ DOMAIN log' = 1 .. n
      /\ log'[n] = e /\ \A i \in DOMAIN log : log'[i] = log[i]
  BY <1>1, <1>2, <1>3
<1>5. /\ n \notin DOMAIN log /\ n \in DOMAIN log'
      /\ \A i \in DOMAIN log : i \in DOMAIN log'
      /\ \A i \in DOMAIN log' : i \in DOMAIN log \/ i = n
  BY <1>4
<1>6. /\ e.device = d /\ e.ip = c.ip /\ e.version = c.version
      /\ e.current = IsCurrent(d, c) /\ e.outcome = outcome /\ e.at = now
  BY DEF e
<1>. QED BY <1>1, <1>3, <1>4, <1>5, <1>6

\* What is read of a streak only grows with the history.
LEMMA ReadingsGrow ==
  ASSUME NoCheckAssumption, IInv, NEW d \in Devices, NEW outcome \in Outcomes,
         Save(d, outcome), NEW e \in Devices,
         streak'[e].version = streak[e].version, streak'[e].first = streak[e].first
  PROVE  /\ Cardinality(Readings(e)') \in Nat
         /\ Cardinality(Readings(e)') >= Cardinality(Readings(e))
         /\ Len(log) + 1 \in Readings(e)' =>
              Cardinality(Readings(e)') >= Cardinality(Readings(e)) + 1
<1>. DEFINE n   == Len(log) + 1
            old == Readings(e)
            new == Readings(e)'
<1>1. old \subseteq new /\ new \subseteq old \cup {n} /\ n \notin old
  BY SaveAdds DEF Readings
<1>2. IsFiniteSet(old) /\ Cardinality(old) \in Nat
  BY ReadingsFinite DEF IInv
<1>. HIDE DEF n, old, new
<1>3. CASE n \in new
  <2>1. new = old \cup {n}
    BY <1>1, <1>3
  <2>2. Cardinality(new) = Cardinality(old) + 1
    BY <1>1, <1>2, <2>1, FS_AddElement
  <2>. QED BY <1>2, <2>2 DEF n, old, new
<1>4. CASE n \notin new
  <2>1. new = old
    BY <1>1, <1>4
  <2>. QED BY <1>2, <1>4, <2>1 DEF n, old, new
<1>. QED BY <1>3, <1>4

\* The streak of another device, or of one whose measurement is not evaluated.
LEMMA StreakGrows ==
  ASSUME NoCheckAssumption, IInv, NEW d \in Devices, NEW outcome \in Outcomes,
         Save(d, outcome), NEW e \in Devices, StreakRests(e), streak'[e] = streak[e]
  PROVE  StreakRests(e)'
<1>1. /\ UNCHANGED <<now, device>>
      /\ kept' = kept \cup {Len(log) + 1}
      /\ \A i \in DOMAIN log : log'[i] = log[i]
      /\ \A i \in DOMAIN log' : i \in DOMAIN log \/ i = Len(log) + 1
  BY SaveAdds
<1>2. streak[e].count \in Nat /\ Cardinality(Readings(e)) \in Nat
  BY ReadingsFinite DEF IInv, TypeOK
<1>3. Cardinality(Readings(e)') \in Nat /\ Cardinality(Readings(e)') >= Cardinality(Readings(e))
  BY ReadingsGrow
<1>4. Cardinality(Readings(e)) >= streak[e].count => Cardinality(Readings(e)') >= streak'[e].count
  BY <1>2, <1>3
<1>5. /\ kept \subseteq kept'
      /\ \A i \in DOMAIN log' : i \in kept' \/ (i \in DOMAIN log /\ log'[i] = log[i])
  BY <1>1
<1>. QED BY <1>1, <1>4, <1>5 DEF StreakRests

\* The streak that the measurement is added to.
LEMMA StreakCounts ==
  ASSUME NoCheckAssumption, IInv, Timely, NEW d \in Devices, Save(d, "no_reply"),
         StreakRests(d), IsCurrent(d, flight[d]), streak'[d] = NextRow(d, flight[d])
  PROVE  StreakRests(d)'
<1>. DEFINE c == flight[d]
            n == Len(log) + 1
            row == streak'[d]
<1>1. "no_reply" \in Outcomes
  BY DEF Outcomes
<1>2. /\ UNCHANGED <<now, device>>
      /\ kept' = kept \cup {n}
      /\ n \notin DOMAIN log /\ n \in DOMAIN log'
      /\ \A i \in DOMAIN log : i \in DOMAIN log' /\ log'[i] = log[i]
      /\ \A i \in DOMAIN log' : i \in DOMAIN log \/ i = n
      /\ log'[n].device = d /\ log'[n].version = c.version
      /\ log'[n].current /\ log'[n].outcome = "no_reply" /\ log'[n].at = now
  BY <1>1, SaveAdds
<1>3. /\ now \in Nat /\ streak[d].count \in Nat /\ streak[d].first \in Nat
      /\ \A i \in DOMAIN log : log[i].at \in Nat /\ log[i].at <= now
      /\ \A i \in DOMAIN log : log[i].at = now => i \in kept
  BY Measurements DEF IInv, TypeOK, Timely, Entry
<1>4. device[d].version = c.version
  BY DEF IsCurrent
<1>. HIDE DEF n, c
<1>5. CASE streak[d].version = c.version /\ streak[d].count > 0
  <2>1. /\ row.version = c.version /\ row.count = streak[d].count + 1
        /\ row.first = streak[d].first
    BY <1>3, <1>5 DEF NextRow, c
  <2>2. /\ row.first <= now
        /\ \A i \in DOMAIN log : Since(log[i], d, c.version, row.first) => i \in kept
        /\ Cardinality(Readings(d)) >= streak[d].count
    BY <1>5, <2>1 DEF StreakRests
  <2>3. n \in Readings(d)'
    BY <1>2, <2>1, <2>2 DEF Readings, Since
  <2>4. /\ Cardinality(Readings(d)') \in Nat
        /\ Cardinality(Readings(d)') >= Cardinality(Readings(d)) + 1
    BY <1>1, <1>5, <2>1, <2>3, ReadingsGrow DEF n
  <2>5. Cardinality(Readings(d)) \in Nat
    BY ReadingsFinite DEF IInv
  <2>6. Cardinality(Readings(d)') >= row.count
    BY <1>3, <2>1, <2>2, <2>4, <2>5
  <2>. HIDE DEF row
  <2>7. \A i \in DOMAIN log' : Since(log'[i], d, row.version, row.first) => i \in kept'
    BY <1>2, <2>1, <2>2
  <2>. QED BY <1>2, <1>4, <2>1, <2>2, <2>6, <2>7 DEF StreakRests, row
<1>6. CASE ~(streak[d].version = c.version /\ streak[d].count > 0)
  <2>1. row.version = c.version /\ row.count = 1 /\ row.first = now
    BY <1>3, <1>6 DEF NextRow, c
  <2>2. n \in Readings(d)'
    BY <1>2, <1>3, <2>1 DEF Readings, Since
  <2>3. Readings(d)' \subseteq DOMAIN log \cup {n}
    BY <1>2 DEF Readings
  <2>4. IsFiniteSet(DOMAIN log \cup {n})
    <3>1. IsFiniteSet(DOMAIN log)
      BY Measurements, FS_Interval DEF IInv
    <3>. QED BY <3>1, FS_AddElement
  <2>5. /\ {n} \subseteq Readings(d)' /\ IsFiniteSet(Readings(d)')
        /\ Cardinality({n}) = 1 /\ Cardinality(Readings(d)') \in Nat
    BY <2>2, <2>3, <2>4, FS_Subset, FS_Singleton, FS_CardinalityType
  <2>6. Cardinality(Readings(d)') >= 1
    <3>1. Cardinality({n}) <= Cardinality(Readings(d)')
      BY <2>5, FS_Subset
    <3>. QED BY <2>5, <3>1
  <2>. HIDE DEF row
  <2>7. ASSUME NEW i \in DOMAIN log', Since(log'[i], d, row.version, row.first)
        PROVE  i \in kept'
    BY <1>2, <1>3, <2>1, <2>7 DEF Since
  <2>. QED BY <1>2, <1>3, <1>4, <2>1, <2>6, <2>7 DEF StreakRests, row
<1>. QED BY <1>5, <1>6

\* What the alarm rules make of a measurement.
LEMMA SaveRules ==
  ASSUME IInv, NEW d \in Devices, NEW outcome \in Outcomes, Save(d, outcome)
  PROVE  LET c == flight[d]
         IN  /\ \A e \in Devices \ {d} : streak'[e] = streak[e]
             /\ \/ UNCHANGED <<streak, alarms>>
                \/ /\ outcome = "no_reply" /\ IsCurrent(d, c)
                   /\ streak'[d] = NextRow(d, c)
                   /\ \A a \in alarms' \ alarms : /\ a.device = d /\ a.ip = c.ip
                                                  /\ a.first = NextRow(d, c).first
                \/ streak'[d].count = 0 /\ alarms' \subseteq alarms
<1>. DEFINE c == flight[d]
<1>1. streak \in [Devices -> [version : Nat, count : Nat, first : Nat]]
  BY DEF IInv, TypeOK
<1>2. CASE UNCHANGED <<streak, alarms>>
  BY <1>2
<1>3. CASE outcome = "no_reply" /\ IsCurrent(d, c) /\ NoReply(d, c)
  <2>1. /\ streak' = [streak EXCEPT ![d] = NextRow(d, c)]
        /\ \A a \in alarms' \ alarms :
             a = [device |-> d, ip |-> c.ip, first |-> NextRow(d, c).first, opened |-> now]
    BY <1>3 DEF NoReply, NextRow
  <2>. QED BY <1>1, <1>3, <2>1
<1>4. CASE Answer(d, c, outcome)
  <2>1. /\ streak' = [streak EXCEPT ![d] = [version |-> c.version, count |-> 0, first |-> 0]]
        /\ alarms' \subseteq alarms
    BY <1>4 DEF Answer
  <2>. QED BY <1>1, <2>1
<1>. QED BY <1>2, <1>3, <1>4 DEF Save

LEMMA SaveSpares ==
  ASSUME NoCheckAssumption, IInv, EvidenceInv,
         NEW d \in Devices, NEW outcome \in Outcomes, Save(d, outcome)
  PROVE  EvidenceInv'
<1>. DEFINE c == flight[d]
            n == Len(log) + 1
<1>1. /\ c \in Check /\ c # NoCheck
      /\ UNCHANGED <<now, device, job>> /\ flight' = [flight EXCEPT ![d] = NoCheck]
      /\ kept' = kept \cup {n}
      /\ n \in DOMAIN log'
      /\ \A i \in DOMAIN log : i \in DOMAIN log' /\ log'[i] = log[i]
      /\ \A i \in DOMAIN log' : i \in DOMAIN log \/ i = n
      /\ log'[n].device = d /\ log'[n].ip = c.ip /\ log'[n].version = c.version
      /\ log'[n].outcome = outcome /\ log'[n].at = now
  BY SaveAdds
<1>2. now \in Nat /\ flight \in [Devices -> Check \cup {NoCheck}]
  BY DEF IInv, TypeOK
<1>3. /\ \A e \in Devices \ {d} : streak'[e] = streak[e]
      /\ \/ UNCHANGED <<streak, alarms>>
         \/ /\ outcome = "no_reply" /\ IsCurrent(d, c)
            /\ streak'[d] = NextRow(d, c)
            /\ \A a \in alarms' \ alarms : /\ a.device = d /\ a.ip = c.ip
                                           /\ a.first = NextRow(d, c).first
         \/ streak'[d].count = 0 /\ alarms' \subseteq alarms
  BY SaveRules
<1>. HIDE DEF n, c
<1>4. Timely'
  BY <1>1, <1>2 DEF EvidenceInv, Timely
<1>5. TargetsAgree'
  <2>1. OneAddress(c.ip, c.version, d)
    BY <1>1 DEF EvidenceInv, TargetsAgree, c
  <2>2. \A ip, v, e : OneAddress(ip, v, e)' <=> OneAddress(ip, v, e)
    BY <1>1 DEF OneAddress
  <2>3. \A i \in DOMAIN log' : OneAddress(log'[i].ip, log'[i].version, log'[i].device)
    BY <1>1, <2>1 DEF EvidenceInv, TargetsAgree
  <2>4. \A e \in Devices : flight'[e] # NoCheck =>
          OneAddress(flight'[e].ip, flight'[e].version, e)
    BY <1>1, <1>2 DEF EvidenceInv, TargetsAgree
  <2>5. \A a \in alarms' : a \in alarms \/ (a.ip = c.ip /\ a.device = d /\ IsCurrent(d, c))
    BY <1>3
  <2>6. \A a \in alarms' : a.ip = device[a.device].ip
    BY <2>5 DEF EvidenceInv, TargetsAgree, IsCurrent
  <2>. QED BY <1>1, <2>3, <2>4, <2>6 DEF TargetsAgree, OneAddress
<1>6. StreaksRest'
  <2>1. ASSUME NEW e \in Devices, streak'[e] = streak[e] PROVE StreakRests(e)'
    BY <2>1, StreakGrows DEF EvidenceInv, StreaksRest
  <2>2. StreakRests(d)'
    <3>1. CASE outcome = "no_reply" /\ IsCurrent(d, c) /\ streak'[d] = NextRow(d, c)
      BY <3>1, StreakCounts DEF EvidenceInv, StreaksRest, c
    <3>2. CASE streak'[d].count = 0
      BY <3>2 DEF StreakRests
    <3>3. CASE UNCHANGED <<streak, alarms>>
      BY <2>1, <3>3
    <3>. QED BY <1>3, <3>1, <3>2, <3>3
  <2>. QED BY <1>3, <2>1, <2>2 DEF StreaksRest
<1>7. EvidenceIsKept'
  <2>. SUFFICES ASSUME NEW a \in alarms', NEW i \in DOMAIN log', i # n,
                       log'[i].device = a.device, log'[i].version = device[a.device].version,
                       log'[i].at >= a.first
                PROVE  i \in kept'
    BY <1>1 DEF EvidenceIsKept
  <2>1. i \in DOMAIN log /\ log'[i] = log[i]
    BY <1>1
  <2>2. CASE a \in alarms
    BY <1>1, <2>1, <2>2 DEF EvidenceInv, EvidenceIsKept
  <2>3. CASE a \notin alarms
    <3>1. /\ a.device = d /\ a.first = NextRow(d, c).first
          /\ streak'[d] = NextRow(d, c) /\ outcome = "no_reply" /\ IsCurrent(d, c)
      BY <1>3, <2>3
    <3>2. NextRow(d, c).count > 0 /\ NextRow(d, c).version = c.version
      BY DEF IInv, TypeOK, NextRow
    <3>3. device[d].version = c.version
      BY <3>1 DEF IsCurrent
    <3>4. StreakRests(d)'
      BY <1>6 DEF StreaksRest
    <3>. QED BY <1>1, <2>1, <3>1, <3>2, <3>3, <3>4 DEF StreakRests, Since
  <2>. QED BY <2>2, <2>3
<1>. QED BY <1>4, <1>5, <1>6, <1>7 DEF EvidenceInv
-----------------------------------------------------------------------------
(* Every other step.                                                       *)

LEMMA UpdateSpares ==
  ASSUME IInv, EvidenceInv, NEW d \in Devices, NEW ip \in Addresses, NEW act \in BOOLEAN,
         UpdateDevice(d, ip, act)
  PROVE  EvidenceInv'
<1>1. /\ UNCHANGED <<now, flight, log, kept, job>>
      /\ device' = [device EXCEPT ![d] = [active |-> act, ip |-> ip,
                                          version |-> device[d].version + 1]]
      /\ streak' = [streak EXCEPT ![d] = [streak[d] EXCEPT !.count = 0, !.first = 0]]
      /\ alarms' = {a \in alarms : a.device # d}
  BY DEF UpdateDevice
<1>2. /\ device \in [Devices -> [active : BOOLEAN, ip : Addresses, version : Nat]]
      /\ streak \in [Devices -> [version : Nat, count : Nat, first : Nat]]
      /\ now \in Nat
      /\ alarms \subseteq [device : Devices, ip : Addresses, first : Nat, opened : Nat]
      /\ flight \in [Devices -> Check \cup {NoCheck}]
      /\ \A i \in DOMAIN log : log[i].device \in Devices /\ log[i].version \in Nat
  BY Measurements DEF IInv, TypeOK, Entry
<1>3. /\ \A e \in Devices \ {d} : device'[e] = device[e] /\ streak'[e] = streak[e]
      /\ device'[d].version = device[d].version + 1 /\ device[d].version \in Nat
      /\ streak'[d].count = 0
  BY <1>1, <1>2
<1>4. Timely'
  BY <1>1 DEF EvidenceInv, Timely
<1>5. TargetsAgree'
  <2>1. ASSUME NEW e \in Devices, NEW p, NEW v \in Nat, OneAddress(p, v, e)
        PROVE  OneAddress(p, v, e)'
    BY <1>3, <2>1 DEF OneAddress
  <2>2. \A e \in Devices : flight[e] # NoCheck => flight[e].version \in Nat
    BY <1>2 DEF Check
  <2>3. \A a \in alarms' : a.ip = device'[a.device].ip
    BY <1>1, <1>2, <1>3 DEF EvidenceInv, TargetsAgree
  <2>. QED BY <1>1, <1>2, <2>1, <2>2, <2>3 DEF EvidenceInv, TargetsAgree
<1>6. StreaksRest'
  <2>1. ASSUME NEW e \in Devices \ {d} PROVE StreakRests(e)'
    BY <1>1, <1>2, <1>3, StreakStays DEF IInv, EvidenceInv, StreaksRest
  <2>2. StreakRests(d)'
    BY <1>3 DEF StreakRests
  <2>. QED BY <2>1, <2>2 DEF StreaksRest
<1>7. EvidenceIsKept'
  BY <1>1, <1>2, <1>3 DEF EvidenceInv, EvidenceIsKept
<1>. QED BY <1>4, <1>5, <1>6, <1>7 DEF EvidenceInv

LEMMA QuietSpares ==
  ASSUME IInv, EvidenceInv, RetentionAssumption,
         \/ \E d \in Devices : StartCheck(d)
         \/ Stop \/ Restart \/ Tick
         \/ \E cutoff \in 1 .. MaxTime : Begin(cutoff)
         \/ Finish \/ Kill
         \/ UNCHANGED vars
  PROVE  EvidenceInv'
<1>1. UNCHANGED <<device, alarms, log, kept>>
  BY DEF StartCheck, Stop, Restart, Tick, Begin, Finish, Kill, vars, monitor
<1>2. /\ now \in Nat /\ now' \in Nat /\ now <= now' /\ job'.cutoff <= now'
      /\ \A i \in DOMAIN log : log[i].at \in Nat
  <2>1. now \in Nat /\ job.cutoff <= now /\ job.cutoff \in Nat
    BY DEF IInv, TypeOK, EvidenceInv, Timely
  <2>2. UNCHANGED now \/ (now' = now + 1 /\ UNCHANGED job)
    BY DEF StartCheck, Stop, Restart, Tick, Begin, Finish, Kill, vars, monitor
  <2>3. UNCHANGED job \/ (UNCHANGED now /\ job'.cutoff <= now)
    <3>1. CASE \E cutoff \in 1 .. MaxTime : Begin(cutoff)
      BY <3>1 DEF Begin
    <3>2. CASE Finish \/ Kill
      BY <2>1, <3>2 DEF Finish, Kill
    <3>3. CASE ~((\E cutoff \in 1 .. MaxTime : Begin(cutoff)) \/ Finish \/ Kill)
      BY <3>3 DEF StartCheck, Stop, Restart, Tick, vars
    <3>. QED BY <3>1, <3>2, <3>3
  <2>. QED BY <2>1, <2>2, <2>3, Measurements DEF IInv, Entry
<1>3. Timely'
  BY <1>1, <1>2 DEF EvidenceInv, Timely
<1>4. TargetsAgree'
  <2>1. /\ flight \in [Devices -> Check \cup {NoCheck}]
        /\ device \in [Devices -> [active : BOOLEAN, ip : Addresses, version : Nat]]
    BY DEF IInv, TypeOK
  <2>2. ASSUME NEW e \in Devices, flight'[e] # NoCheck
        PROVE  OneAddress(flight'[e].ip, flight'[e].version, e)
    <3>1. CASE UNCHANGED flight
      BY <2>2, <3>1 DEF EvidenceInv, TargetsAgree
    <3>2. ASSUME NEW d \in Devices, StartCheck(d)
          PROVE  OneAddress(flight'[e].ip, flight'[e].version, e)
      <4>1. flight' = [flight EXCEPT ![d] =
                         [ip |-> device[d].ip, version |-> device[d].version, stale |-> FALSE]]
        BY <3>2 DEF StartCheck
      <4>2. CASE e = d
        BY <2>1, <4>1, <4>2 DEF OneAddress
      <4>3. CASE e # d
        BY <2>1, <2>2, <4>1, <4>3 DEF EvidenceInv, TargetsAgree
      <4>. QED BY <4>2, <4>3
    <3>3. CASE Stop
      <4>1. flight[e] # NoCheck /\ flight'[e] = [flight[e] EXCEPT !.stale = TRUE]
        BY <2>1, <2>2, <3>3 DEF Stop
      <4>2. flight[e] \in Check
        BY <2>1, <4>1
      <4>3. flight'[e].ip = flight[e].ip /\ flight'[e].version = flight[e].version
        BY <4>1, <4>2 DEF Check
      <4>. QED BY <4>1, <4>3 DEF EvidenceInv, TargetsAgree
    <3>4. CASE Restart
      BY <2>2, <3>4 DEF Restart
    <3>. QED BY <3>1, <3>2, <3>3, <3>4 DEF Tick, Begin, Finish, Kill, vars, monitor
  <2>. QED BY <1>1, <2>2 DEF EvidenceInv, TargetsAgree, OneAddress
<1>5. StreaksRest'
  <2>. SUFFICES ASSUME NEW e \in Devices PROVE StreakRests(e)'
    BY DEF StreaksRest
  <2>1. CASE UNCHANGED streak
    BY <1>1, <1>2, <2>1, StreakStays DEF IInv, EvidenceInv, StreaksRest
  <2>2. CASE Stop \/ Restart
    <3>1. streak' = [d \in Devices |-> [streak[d] EXCEPT !.count = 0, !.first = 0]]
      BY <2>2 DEF Stop, Restart
    <3>2. streak[e] \in [version : Nat, count : Nat, first : Nat]
      BY DEF IInv, TypeOK
    <3>3. streak'[e].count = 0
      BY <3>1, <3>2
    <3>. QED BY <3>3 DEF StreakRests
  <2>. QED BY <2>1, <2>2 DEF StartCheck, Tick, Begin, Finish, Kill, vars, monitor
<1>6. EvidenceIsKept'
  BY <1>1 DEF EvidenceInv, EvidenceIsKept
<1>. QED BY <1>3, <1>4, <1>5, <1>6 DEF EvidenceInv

\* What the open alarms and the pending streaks rest on survives: the inductive
\* invariant ties every alarm and streak to the present target of its device.
THEOREM RestsStay == Spec => []EvidenceInv
<1>. USE RetentionAssumption, NoCheckAssumption
<1>1. Init => EvidenceInv
  BY DEF Init, EvidenceInv, Timely, TargetsAgree, StreaksRest, StreakRests, EvidenceIsKept
<1>2. IInv /\ EvidenceInv /\ [Next]_vars => EvidenceInv'
  <2>. SUFFICES ASSUME IInv, EvidenceInv, [Next]_vars PROVE EvidenceInv'
    OBVIOUS
  <2>1. CASE \E d \in Devices, outcome \in Outcomes : Save(d, outcome)
    BY <2>1, SaveSpares
  <2>2. CASE \E d \in Devices, ip \in Addresses, act \in BOOLEAN : UpdateDevice(d, ip, act)
    BY <2>2, UpdateSpares
  <2>3. CASE Batch
    BY <2>3, BatchSpares DEF IInv
  <2>4. CASE \/ \E d \in Devices : StartCheck(d)
             \/ Stop \/ Restart \/ Tick
             \/ \E cutoff \in 1 .. MaxTime : Begin(cutoff)
             \/ Finish \/ Kill
             \/ UNCHANGED vars
    BY <2>4, QuietSpares
  <2>. QED BY <2>1, <2>2, <2>3, <2>4 DEF Next
<1>. QED BY <1>1, <1>2, TopsStay, PTL DEF Spec

\* While an alarm is open, no cleanup deletes a measurement of its target since
\* the first no_reply, for any threshold, batch size and cutoff.
THEOREM EvidenceStays == Spec => []EvidenceIsKept
BY RestsStay, PTL DEF EvidenceInv

\* The no_reply measurements a pending streak counts are never cleaned away.
THEOREM StreaksStay == Spec => []StreakIsKept
<1>1. IInv /\ EvidenceInv => StreakIsKept
  <2>. SUFFICES ASSUME IInv, EvidenceInv, NEW d \in Devices, streak[d].count > 0
                PROVE  Cardinality({i \in kept :
                          /\ log[i].device = d /\ log[i].version = streak[d].version
                          /\ log[i].current /\ log[i].outcome = "no_reply"
                          /\ log[i].at >= streak[d].first}) >= streak[d].count
    BY DEF StreakIsKept
  <2>1. /\ \A i \in DOMAIN log :
             Since(log[i], d, streak[d].version, streak[d].first) => i \in kept
        /\ Cardinality(Readings(d)) >= streak[d].count
    BY DEF EvidenceInv, StreaksRest, StreakRests
  <2>2. kept \subseteq DOMAIN log
    BY Measurements DEF IInv
  <2>3. {i \in kept : /\ log[i].device = d /\ log[i].version = streak[d].version
                      /\ log[i].current /\ log[i].outcome = "no_reply"
                      /\ log[i].at >= streak[d].first} = Readings(d)
    BY <2>1, <2>2 DEF Readings, Since
  <2>. QED BY <2>1, <2>3
<1>. QED BY <1>1, TopsStay, RestsStay, PTL
=============================================================================
