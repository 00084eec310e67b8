------------------------ MODULE MonitorHistoryProofs ------------------------
(***************************************************************************)
(* Theorems that compare the tables of Monitor with the history of         *)
(* measurements: the persisted streaks, and the alarms that are opened,    *)
(* moved and resolved from them.                                           *)
(***************************************************************************)
EXTENDS MonitorProofs

\* What the current measurements tell of the devices as they are: none is of
\* a later target version or streak era than now, the versions of a device and
\* the eras grow with the history, and one version has one address.
Chronicle ==
  /\ \A i \in DOMAIN results :
       LET r == results[i]
       IN  /\ r.era <= era
           /\ r.current => /\ r.version <= device[r.device].version
                           /\ r.version = device[r.device].version
                                => r.ip = device[r.device].ip
  /\ \A i, j \in DOMAIN results :
       LET r == results[i]
           s == results[j]
       IN  i < j => /\ r.era <= s.era
                    /\ r.current /\ s.current /\ r.device = s.device => r.version <= s.version

\* A row that counts is a row of the present target.
RowsCountPresent ==
  \A d \in Devices, m \in Modes :
    streak[<<d, m>>].count > 0 => streak[<<d, m>>].version = device[d].version
-----------------------------------------------------------------------------
LEMMA ResultRows ==
  ASSUME TypeOK
  PROVE  /\ results \in Seq(Result)
         /\ Len(results) \in Nat /\ DOMAIN results = 1 .. Len(results)
         /\ \A i \in DOMAIN results :
              /\ i \in Nat
              /\ results[i] \in Result
              /\ results[i].device \in Devices /\ results[i].mode \in Modes
              /\ results[i].version \in Nat /\ results[i].era \in Nat
              /\ results[i].version > 0
              /\ results[i].current \in BOOLEAN
              /\ results[i].outcome \in Outcomes
<1>1. results \in Seq(Result)
  BY DEF TypeOK
<1>2. Len(results) \in Nat /\ DOMAIN results = 1 .. Len(results)
  BY <1>1
<1>3. \A i \in DOMAIN results : i \in Nat /\ results[i] \in Result
  BY <1>1, <1>2
<1>4. \A r \in Result : /\ r.device \in Devices /\ r.mode \in Modes
                        /\ r.version \in Nat /\ r.era \in Nat
                        /\ r.version > 0
                        /\ r.current \in BOOLEAN
                        /\ r.outcome \in Outcomes
  BY MonitorAssumption DEF MonitorAssumption, Result
<1>5. QED
  BY <1>1, <1>2, <1>3, <1>4

\* The tables of devices and streaks, entry by entry.
LEMMA TableRows ==
  ASSUME TypeOK
  PROVE  /\ era \in Nat
         /\ \A d \in Devices : device[d].version \in Nat
         /\ \A d \in Devices, m \in Modes :
              /\ <<d, m>> \in DOMAIN streak
              /\ streak[<<d, m>>] \in [version : 0 .. MaxVersion, count : Nat, first : Nat]
              /\ streak[<<d, m>>].count \in Nat /\ streak[<<d, m>>].version \in Nat
              /\ streak[<<d, m>>].first \in Nat
<1>1. era \in Nat
  BY MonitorAssumption DEF TypeOK, MonitorAssumption
<1>2. \A d \in Devices : device[d].version \in Nat
  BY MonitorAssumption DEF TypeOK, MonitorAssumption
<1>3. \A d \in Devices, m \in Modes :
              /\ <<d, m>> \in DOMAIN streak
              /\ streak[<<d, m>>] \in [version : 0 .. MaxVersion, count : Nat, first : Nat]
  BY DEF TypeOK
<1>4. \A r \in [version : 0 .. MaxVersion, count : Nat, first : Nat] :
        r.count \in Nat /\ r.version \in Nat /\ r.first \in Nat
  BY MonitorAssumption DEF MonitorAssumption
<1>5. QED
  BY <1>1, <1>2, <1>3, <1>4

\* Save appends one measurement of the check's target.
LEMMA SaveAppends ==
  ASSUME TypeOK, NEW c \in checks, NEW outcome \in Outcomes, Save(c, outcome)
  PROVE  /\ c.device \in Devices /\ c.mode \in Modes /\ c.version \in Nat
         /\ Len(results') = Len(results) + 1
         /\ DOMAIN results' = 1 .. Len(results) + 1
         /\ \A i \in DOMAIN results : i \in DOMAIN results' /\ results'[i] = results[i]
         /\ LET r == results'[Len(results) + 1]
            IN  /\ r.device = c.device /\ r.ip = c.ip /\ r.version = c.version
                /\ r.mode = c.mode /\ r.outcome = outcome
                /\ r.current = StillCurrent(c) /\ r.era = era
         /\ UNCHANGED <<device, era>>
<1> DEFINE row == [device |-> c.device, ip |-> c.ip, version |-> c.version,
                   mode |-> c.mode, outcome |-> outcome, current |-> StillCurrent(c),
                   era |-> era, disturbed |-> c.disturbed]
<1>1. c \in Check
  BY DEF TypeOK
<1>2. c.device \in Devices /\ c.mode \in Modes /\ c.version \in Nat
  BY <1>1, MonitorAssumption DEF Check, MonitorAssumption
<1>3. results' = Append(results, row) /\ UNCHANGED <<device, era>>
  BY DEF Save
<1>4. /\ row.device = c.device /\ row.ip = c.ip /\ row.version = c.version
      /\ row.mode = c.mode /\ row.outcome = outcome
      /\ row.current = StillCurrent(c) /\ row.era = era
  OBVIOUS
<1> HIDE DEF row
<1>5. /\ Len(results') = Len(results) + 1
      /\ DOMAIN results' = 1 .. Len(results) + 1
      /\ \A i \in DOMAIN results : i \in DOMAIN results' /\ results'[i] = results[i]
      /\ results'[Len(results) + 1] = row
  BY <1>3, ResultRows
<1>6. QED
  BY <1>2, <1>3, <1>4, <1>5

\* Both tables are written as evaluate_result says.
LEMMA SaveCounts ==
  ASSUME TypeOK, NEW c \in checks, NEW outcome \in Outcomes, Save(c, outcome)
  PROVE  /\ ~StillCurrent(c) => UNCHANGED streak
         /\ \A d \in Devices, m \in Modes :
              <<d, m>> # <<c.device, c.mode>> => streak'[<<d, m>>] = streak[<<d, m>>]
         /\ StillCurrent(c) /\ outcome = "no_reply" =>
              streak'[<<c.device, c.mode>>] = Counted(StreakFor(c), Len(results) + 1)
         /\ StillCurrent(c) /\ outcome # "no_reply" =>
              streak'[<<c.device, c.mode>>] = [version |-> c.version, count |-> 0, first |-> 0]
<1>1. Evaluate(c, outcome, Len(results) + 1) /\ <<c.device, c.mode>> \in DOMAIN streak
  BY SaveAppends, TableRows DEF Save
<1> DEFINE key == <<c.device, c.mode>>
<1>2. ASSUME NEW v, streak' = [streak EXCEPT ![key] = v]
      PROVE  /\ streak'[key] = v
             /\ \A d \in Devices, m \in Modes :
                  <<d, m>> # key => streak'[<<d, m>>] = streak[<<d, m>>]
  <2>1. \A k \in DOMAIN streak : k # key => streak'[k] = streak[k]
    BY <1>2
  <2>2. QED
    BY <1>1, <1>2, <2>1, TableRows
<1>3. CASE ~StillCurrent(c)
  BY <1>1, <1>3 DEF Evaluate
<1>4. CASE StillCurrent(c) /\ outcome = "no_reply"
  <2>1. streak' = [streak EXCEPT ![key] = Counted(StreakFor(c), Len(results) + 1)]
    BY <1>1, <1>4 DEF Evaluate, EvaluateNoReply
  <2>2. QED
    BY <1>2, <1>4, <2>1
<1>5. CASE StillCurrent(c) /\ outcome # "no_reply"
  <2>1. streak' = [streak EXCEPT ![key] = [version |-> c.version, count |-> 0, first |-> 0]]
    BY <1>1, <1>5 DEF Evaluate, EvaluateOther
  <2>2. QED
    BY <1>2, <1>5, <2>1
<1>6. QED
  BY <1>3, <1>4, <1>5

\* The row a current measurement adds to: its count is that of the persisted
\* row, because a row of another target counts nothing.
LEMMA CountedRow ==
  ASSUME TypeOK, RowsCountPresent, NEW c \in checks, StillCurrent(c), NEW n \in Nat,
         c.device \in Devices, c.mode \in Modes
  PROVE  LET row  == streak[<<c.device, c.mode>>]
             next == Counted(StreakFor(c), n)
         IN  /\ next.count = row.count + 1
             /\ next.version = c.version
             /\ next.first = IF row.count = 0 THEN n ELSE row.first
<1> DEFINE row == streak[<<c.device, c.mode>>]
<1>1. row \in [version : 0 .. MaxVersion, count : Nat, first : Nat]
  BY TableRows
<1>2. row.count > 0 => row.version = c.version
  BY DEF RowsCountPresent, StillCurrent
<1> HIDE DEF row
<1>3. CASE row.version = c.version
  <2>1. StreakFor(c) = row
    BY <1>3 DEF StreakFor, row
  <2>2. QED
    BY <1>1, <1>3, <2>1 DEF Counted, row
<1>4. CASE row.version # c.version
  <2>1. row.count = 0
    BY <1>1, <1>2, <1>4
  <2>2. StreakFor(c) = [version |-> c.version, count |-> 0, first |-> 0]
    BY <1>4 DEF StreakFor, NoStreak, row
  <2>3. QED
    BY <2>1, <2>2 DEF Counted, row
<1>5. QED
  BY <1>3, <1>4
-----------------------------------------------------------------------------
(* The other steps.                                                        *)

\* Every streak is reset and a new era of streaks begins ...
ResetsAll ==
  /\ UNCHANGED <<device, alarms, results>>
  /\ ResetStreaks
  /\ era' = era + 1

\* ... or nothing the history speaks of is touched.
Quiet == UNCHANGED <<device, streak, alarms, results, era>>

LEMMA OtherSteps ==
  ASSUME [Next]_vars,
         ~\E d \in Devices, ip \in Addresses, act \in BOOLEAN :
            CreateDevice(d, ip, act) \/ UpdateDevice(d, ip, act),
         ~\E i \in DOMAIN alarms : Acknowledge(i),
         ~\E c \in checks, outcome \in Outcomes : Save(c, outcome)
  PROVE  Quiet \/ ResetsAll
BY DEF Next, vars, memory, database, EndCheck, StartManual, SweepCheck, GrantSlot,
       Abandon, LeaveCancelled, StartScheduler, SweepBegin, SweepBatch, SweepEnd,
       StopBegin, StopFinish, Reset, Boot, Crash, Quiet, ResetsAll

LEMMA ResetCounts ==
  ASSUME TypeOK, ResetStreaks, NEW d \in Devices, NEW m \in Modes
  PROVE  streak'[<<d, m>>].count = 0
<1>1. /\ <<d, m>> \in DOMAIN streak
      /\ streak[<<d, m>>] \in [version : 0 .. MaxVersion, count : Nat, first : Nat]
  BY TableRows
<1>2. streak'[<<d, m>>] = [streak[<<d, m>>] EXCEPT !.count = 0, !.first = 0]
  BY <1>1 DEF ResetStreaks
<1>3. QED
  BY <1>1, <1>2

\* A new target version: the streaks of the device are reset, those of others
\* stay.
LEMMA UpdateCounts ==
  ASSUME TypeOK, NEW d \in Devices, NEW ip \in Addresses, NEW act \in BOOLEAN,
         UpdateDevice(d, ip, act)
  PROVE  /\ UNCHANGED <<results, era>>
         /\ device'[d].version = device[d].version + 1
         /\ \A e \in Devices \ {d} : device'[e] = device[e]
         /\ \A m \in Modes : streak'[<<d, m>>].count = 0
         /\ \A e \in Devices \ {d}, m \in Modes : streak'[<<e, m>>] = streak[<<e, m>>]
<1>1. /\ UNCHANGED <<results, era>>
      /\ \E reason \in {"target_changed", "device_deactivated"} : CloseDeviceAlarms(d, reason)
      /\ device' = [device EXCEPT ![d] = [active |-> act, ip |-> ip,
                                          version |-> device[d].version + 1]]
  BY DEF UpdateDevice
<1>2. d \in DOMAIN device
  BY DEF TypeOK
<1>3. device'[d].version = device[d].version + 1 /\ \A e \in Devices \ {d} : device'[e] = device[e]
  BY <1>1, <1>2
<1>4. \A e \in Devices, m \in Modes :
        streak'[<<e, m>>] = IF e = d THEN [streak[<<e, m>>] EXCEPT !.count = 0, !.first = 0]
                                     ELSE streak[<<e, m>>]
  BY <1>1, TableRows DEF CloseDeviceAlarms
<1>5. \A m \in Modes : streak'[<<d, m>>].count = 0
  <2> SUFFICES ASSUME NEW m \in Modes PROVE streak'[<<d, m>>].count = 0
    OBVIOUS
  <2>1. streak[<<d, m>>] \in [version : 0 .. MaxVersion, count : Nat, first : Nat]
    BY TableRows
  <2>2. streak'[<<d, m>>] = [streak[<<d, m>>] EXCEPT !.count = 0, !.first = 0]
    BY <1>4
  <2>3. QED
    BY <2>1, <2>2
<1>6. QED
  BY <1>1, <1>3, <1>4, <1>5

\* A device that is created was not measured before.
LEMMA CreateFinds ==
  ASSUME TypeOK, Chronicle, NEW d \in Devices, NEW ip \in Addresses, NEW act \in BOOLEAN,
         CreateDevice(d, ip, act)
  PROVE  /\ UNCHANGED <<streak, alarms, results, era>>
         /\ \A e \in Devices \ {d} : device'[e] = device[e]
         /\ \A i \in DOMAIN results : results[i].current => results[i].device # d
<1>1. device[d].version = 0
  BY TableRows DEF CreateDevice, Registered
<1>2. \A i \in DOMAIN results : results[i].current => results[i].device # d
  BY <1>1, ResultRows DEF Chronicle
<1>3. QED
  BY <1>2 DEF CreateDevice, TypeOK
-----------------------------------------------------------------------------
(* The history itself.                                                     *)

LEMMA ChronicleSave ==
  ASSUME TypeOK, Chronicle, NEW c \in checks, NEW outcome \in Outcomes, Save(c, outcome)
  PROVE  Chronicle'
<1> DEFINE n == Len(results) + 1
<1>1. \A i \in DOMAIN results' : i = n \/ i \in DOMAIN results
  BY SaveAppends, ResultRows
<1>2. /\ n \in Nat /\ n \notin DOMAIN results
      /\ \A i \in DOMAIN results : i < n /\ results'[i] = results[i]
  BY SaveAppends, ResultRows
<1>3. /\ results'[n].device = c.device /\ results'[n].ip = c.ip
      /\ results'[n].version = c.version /\ results'[n].current = StillCurrent(c)
      /\ results'[n].era = era
      /\ device' = device /\ era' = era
  BY SaveAppends
<1> HIDE DEF n
<1>4. StillCurrent(c) => c.version = device[c.device].version /\ c.ip = device[c.device].ip
  BY DEF StillCurrent
<1>5. c.device \in Devices /\ c.version \in Nat /\ era \in Nat
  BY SaveAppends, TableRows
<1>6. ASSUME NEW i \in DOMAIN results'
      PROVE  LET r == results'[i]
             IN  /\ r.era <= era
                 /\ r.current => /\ r.version <= device[r.device].version
                                 /\ r.version = device[r.device].version
                                      => r.ip = device[r.device].ip
  <2>1. CASE i = n
    BY <1>3, <1>4, <1>5, <2>1
  <2>2. CASE i \in DOMAIN results
    BY <1>2, <2>2 DEF Chronicle
  <2>3. QED
    BY <1>1, <2>1, <2>2
<1>7. ASSUME NEW i \in DOMAIN results', NEW j \in DOMAIN results', i < j
      PROVE  LET r == results'[i]
                 s == results'[j]
             IN  /\ r.era <= s.era
                 /\ r.current /\ s.current /\ r.device = s.device => r.version <= s.version
  <2>1. i \in DOMAIN results
    BY <1>1, <1>2, <1>7, ResultRows
  <2>2. CASE j = n
    BY <1>2, <1>3, <1>4, <1>5, <2>1, <2>2 DEF Chronicle
  <2>3. CASE j \in DOMAIN results
    BY <1>2, <1>7, <2>1, <2>3 DEF Chronicle
  <2>4. QED
    BY <1>1, <2>2, <2>3
<1>8. QED
  BY <1>3, <1>6, <1>7 DEF Chronicle

LEMMA ChronicleStep ==
  ASSUME TypeOK, Chronicle, [Next]_vars
  PROVE  Chronicle'
<1>1. \A i \in DOMAIN results : results[i].device \in Devices /\ results[i].version \in Nat
                                /\ results[i].era \in Nat
  BY ResultRows
<1>2. ASSUME NEW d \in Devices, NEW ip \in Addresses, NEW act \in BOOLEAN,
             CreateDevice(d, ip, act)
      PROVE  Chronicle'
  BY <1>1, <1>2, CreateFinds DEF Chronicle
<1>3. ASSUME NEW d \in Devices, NEW ip \in Addresses, NEW act \in BOOLEAN,
             UpdateDevice(d, ip, act)
      PROVE  Chronicle'
  <2>1. /\ UNCHANGED <<results, era>>
        /\ device'[d].version = device[d].version + 1 /\ device[d].version \in Nat
        /\ \A e \in Devices \ {d} : device'[e] = device[e]
    BY <1>3, UpdateCounts, TableRows
  <2>2. QED
    BY <1>1, <2>1 DEF Chronicle
<1>4. ASSUME NEW i \in DOMAIN alarms, Acknowledge(i)
      PROVE  Chronicle'
  BY <1>4 DEF Acknowledge, Chronicle
<1>5. CASE Quiet
  BY <1>5 DEF Quiet, Chronicle
<1>6. CASE ResetsAll
  BY <1>1, <1>6, TableRows DEF ResetsAll, Chronicle
<1>7. QED
  BY <1>2, <1>3, <1>4, <1>5, <1>6, ChronicleSave, OtherSteps

LEMMA RowsStep ==
  ASSUME TypeOK, RowsCountPresent, StreakMatchesHistory, Chronicle, [Next]_vars
  PROVE  RowsCountPresent'
<1>1. ASSUME NEW d \in Devices, NEW ip \in Addresses, NEW act \in BOOLEAN,
             CreateDevice(d, ip, act)
      PROVE  RowsCountPresent'
  <2>1. \A m \in Modes : Trailing(d, m) = {}
    BY <1>1, CreateFinds DEF Trailing, Relevant, CurrentOf
  <2>2. \A m \in Modes : ~(streak[<<d, m>>].count > 0)
    BY <2>1, TableRows DEF StreakMatchesHistory
  <2>3. QED
    BY <1>1, <2>2, CreateFinds DEF RowsCountPresent
<1>2. ASSUME NEW d \in Devices, NEW ip \in Addresses, NEW act \in BOOLEAN,
             UpdateDevice(d, ip, act)
      PROVE  RowsCountPresent'
  BY <1>2, UpdateCounts DEF RowsCountPresent
<1>3. ASSUME NEW i \in DOMAIN alarms, Acknowledge(i)
      PROVE  RowsCountPresent'
  BY <1>3 DEF Acknowledge, RowsCountPresent
<1>4. ASSUME NEW c \in checks, NEW outcome \in Outcomes, Save(c, outcome)
      PROVE  RowsCountPresent'
  <2>1. c.device \in Devices /\ c.mode \in Modes /\ UNCHANGED device
    BY <1>4, SaveAppends
  <2>2. ASSUME NEW d \in Devices, NEW m \in Modes, streak'[<<d, m>>] = streak[<<d, m>>]
        PROVE  streak'[<<d, m>>].count > 0 => streak'[<<d, m>>].version = device'[d].version
    BY <2>1, <2>2 DEF RowsCountPresent
  <2>3. CASE ~StillCurrent(c)
    BY <1>4, <2>2, <2>3, SaveCounts DEF RowsCountPresent
  <2>4. CASE StillCurrent(c)
    <3>1. c.version = device[c.device].version
      BY <2>4 DEF StillCurrent
    <3>2. streak'[<<c.device, c.mode>>].version = c.version
      <4>1. Len(results) + 1 \in Nat
        BY ResultRows
      <4>2. Counted(StreakFor(c), Len(results) + 1).version = c.version
        BY <2>1, <2>4, <4>1, CountedRow
      <4>3. CASE outcome = "no_reply"
        BY <1>4, <2>4, <4>2, <4>3, SaveCounts
      <4>4. CASE outcome # "no_reply"
        <5>1. streak'[<<c.device, c.mode>>] = [version |-> c.version, count |-> 0, first |-> 0]
          BY <1>4, <2>4, <4>4, SaveCounts
        <5>2. QED
          BY <5>1
      <4>5. QED
        BY <4>3, <4>4
    <3>3. QED
      BY <1>4, <2>1, <2>2, <3>1, <3>2, SaveCounts DEF RowsCountPresent
  <2>5. QED
    BY <2>3, <2>4
<1>5. CASE Quiet
  BY <1>5 DEF Quiet, RowsCountPresent
<1>6. CASE ResetsAll
  BY <1>6, ResetCounts DEF ResetsAll, RowsCountPresent
<1>7. QED
  BY <1>1, <1>2, <1>3, <1>4, <1>5, <1>6, OtherSteps
-----------------------------------------------------------------------------
(* The streaks.                                                            *)

\* A run is a finite set of measurements.
LEMMA TrailingFinite ==
  ASSUME TypeOK, NEW d, NEW m
  PROVE  /\ Trailing(d, m) \subseteq DOMAIN results
         /\ IsFiniteSet(Trailing(d, m)) /\ Cardinality(Trailing(d, m)) \in Nat
<1>1. Trailing(d, m) \subseteq DOMAIN results
  BY DEF Trailing, Relevant, CurrentOf
<1>2. IsFiniteSet(DOMAIN results)
  BY ResultRows, FS_Interval
<1>3. IsFiniteSet(Trailing(d, m))
  BY <1>1, <1>2, FS_Subset
<1>4. QED
  BY <1>1, <1>3, FS_CardinalityType

\* A new target version or a new era leaves no run.
LEMMA TrailingGone ==
  ASSUME TypeOK, Chronicle, UNCHANGED results, NEW d \in Devices, NEW m \in Modes,
         device'[d].version = device[d].version + 1 \/ era' = era + 1
  PROVE  Trailing(d, m)' = {}
<1>1. ASSUME NEW i \in DOMAIN results, results[i].device = d, results[i].current
      PROVE  results[i].version # device'[d].version \/ results[i].era # era'
  <2>1. results[i].version <= device[d].version /\ results[i].era <= era
    BY <1>1 DEF Chronicle
  <2>2. /\ results[i].version \in Nat /\ results[i].era \in Nat
        /\ device[d].version \in Nat /\ era \in Nat
    BY ResultRows, TableRows
  <2>3. QED
    BY <2>1, <2>2
<1>2. QED
  BY <1>1 DEF Trailing, Relevant, CurrentOf

\* What a measurement does to the runs.
LEMMA TrailingSave ==
  ASSUME TypeOK, NEW c \in checks, NEW outcome \in Outcomes, Save(c, outcome),
         NEW d \in Devices, NEW m \in Modes
  PROVE  /\ \/ ~StillCurrent(c)
            \/ <<d, m>> # <<c.device, c.mode>>
            => Trailing(d, m)' = Trailing(d, m)
         /\ StillCurrent(c) /\ <<d, m>> = <<c.device, c.mode>> /\ outcome = "no_reply"
            => Trailing(d, m)' = Trailing(d, m) \cup {Len(results) + 1}
         /\ StillCurrent(c) /\ <<d, m>> = <<c.device, c.mode>> /\ outcome # "no_reply"
            => Trailing(d, m)' = {}
<1> DEFINE n == Len(results) + 1
           mine == StillCurrent(c) /\ <<d, m>> = <<c.device, c.mode>>
<1>1. DOMAIN results' = DOMAIN results \cup {n}
  <2>1. /\ DOMAIN results' = 1 .. Len(results) + 1 /\ DOMAIN results = 1 .. Len(results)
        /\ Len(results) \in Nat
    BY SaveAppends, ResultRows
  <2>2. QED
    BY <2>1
<1>2. /\ n \in Nat /\ n \notin DOMAIN results
      /\ \A i \in DOMAIN results : i \in Nat /\ i < n /\ results'[i] = results[i]
  BY SaveAppends, ResultRows
<1>3. /\ results'[n].device = c.device /\ results'[n].mode = c.mode
      /\ results'[n].version = c.version /\ results'[n].current = StillCurrent(c)
      /\ results'[n].era = era /\ results'[n].outcome = outcome
      /\ device' = device /\ era' = era
  BY SaveAppends
<1>4. StillCurrent(c) => c.version = device[c.device].version
  BY DEF StillCurrent
<1> HIDE DEF n
<1>5. \A i \in DOMAIN results : i \in Relevant(d, m)' <=> i \in Relevant(d, m)
  BY <1>1, <1>2, <1>3 DEF Relevant, CurrentOf
<1>6. n \in Relevant(d, m)' <=> mine
  BY <1>1, <1>3, <1>4 DEF Relevant, CurrentOf
<1>7. Relevant(d, m) \subseteq DOMAIN results /\ Relevant(d, m)' \subseteq DOMAIN results'
  BY DEF Relevant, CurrentOf
<1>8. Relevant(d, m)' = IF mine THEN Relevant(d, m) \cup {n} ELSE Relevant(d, m)
  BY <1>1, <1>2, <1>5, <1>6, <1>7
<1>9. Trailing(d, m)' = {i \in Relevant(d, m)' :
                           \A j \in Relevant(d, m)' : j >= i => results'[j].outcome = "no_reply"}
  BY DEF Trailing
<1> HIDE DEF mine
<1>10. CASE ~mine
  <2>1. Trailing(d, m)' = Trailing(d, m)
    BY <1>2, <1>7, <1>8, <1>9, <1>10 DEF Trailing
  <2>2. QED
    BY <1>10, <2>1 DEF mine
<1>11. CASE mine /\ outcome = "no_reply"
  <2>1. Trailing(d, m)' = Trailing(d, m) \cup {n}
    BY <1>2, <1>3, <1>7, <1>8, <1>9, <1>11 DEF Trailing
  <2>2. QED
    BY <1>11, <2>1 DEF mine, n
<1>12. CASE mine /\ outcome # "no_reply"
  <2>1. Trailing(d, m)' = {}
    BY <1>2, <1>3, <1>7, <1>8, <1>9, <1>12
  <2>2. QED
    BY <1>12, <2>1 DEF mine
<1>13. QED
  BY <1>10, <1>11, <1>12

\* The streak of one device in one mode.
Matches(d, m) ==
  LET row == streak[<<d, m>>]
  IN  /\ row.count = Cardinality(Trailing(d, m))
      /\ row.count > 0 =>
           row.first \in Trailing(d, m) /\ \A i \in Trailing(d, m) : row.first <= i

LEMMA MatchesSame ==
  ASSUME NEW d, NEW m, Matches(d, m), streak'[<<d, m>>] = streak[<<d, m>>],
         Trailing(d, m)' = Trailing(d, m)
  PROVE  Matches(d, m)'
BY DEF Matches

LEMMA MatchesNone ==
  ASSUME NEW d, NEW m, streak'[<<d, m>>].count = 0, Trailing(d, m)' = {}
  PROVE  Matches(d, m)'
BY FS_EmptySet DEF Matches

LEMMA MatchesSave ==
  ASSUME TypeOK, RowsCountPresent, StreakMatchesHistory,
         NEW c \in checks, NEW outcome \in Outcomes, Save(c, outcome)
  PROVE  StreakMatchesHistory'
<1> SUFFICES ASSUME NEW d \in Devices, NEW m \in Modes PROVE Matches(d, m)'
  BY DEF StreakMatchesHistory, Matches
<1>1. Matches(d, m)
  BY DEF StreakMatchesHistory, Matches
<1>2. CASE ~StillCurrent(c) \/ <<d, m>> # <<c.device, c.mode>>
  <2>1. streak'[<<d, m>>] = streak[<<d, m>>]
    BY <1>2, SaveCounts
  <2>2. Trailing(d, m)' = Trailing(d, m)
    BY <1>2, TrailingSave
  <2>3. QED
    BY <1>1, <2>1, <2>2, MatchesSame
<1>3. CASE StillCurrent(c) /\ <<d, m>> = <<c.device, c.mode>> /\ outcome # "no_reply"
  <2>1. streak'[<<d, m>>] = [version |-> c.version, count |-> 0, first |-> 0]
    BY <1>3, SaveCounts
  <2>2. streak'[<<d, m>>].count = 0
    BY <2>1
  <2>3. QED
    BY <1>3, <2>2, TrailingSave, MatchesNone
<1>4. CASE StillCurrent(c) /\ <<d, m>> = <<c.device, c.mode>> /\ outcome = "no_reply"
  <2> DEFINE n == Len(results) + 1
             old == streak[<<d, m>>]
             new == streak'[<<d, m>>]
  <2>1. Trailing(d, m)' = Trailing(d, m) \cup {n}
    BY <1>4, TrailingSave
  <2>2. /\ n \in Nat /\ n \notin DOMAIN results
        /\ \A i \in DOMAIN results : i \in Nat /\ i < n
    BY ResultRows
  <2>3. n \notin Trailing(d, m) /\ \A i \in Trailing(d, m) : i \in Nat /\ i < n
    BY <2>2, TrailingFinite
  <2>4. c.device = d /\ c.mode = m
    BY <1>4
  <2>5. new = Counted(StreakFor(c), n)
    BY <1>4, <2>4, SaveCounts
  <2>6. /\ new.count = old.count + 1
        /\ new.first = IF old.count = 0 THEN n ELSE old.first
    BY <1>4, <2>2, <2>4, <2>5, CountedRow
  <2>7. Cardinality(Trailing(d, m)') = Cardinality(Trailing(d, m)) + 1
    BY <2>1, <2>3, TrailingFinite, FS_AddElement
  <2>8. old.count \in Nat
    BY TableRows
  <2> HIDE DEF n, old, new
  <2>9. new.count = Cardinality(Trailing(d, m)')
    BY <1>1, <2>6, <2>7 DEF Matches, old
  <2>10. CASE old.count = 0
    <3>1. Trailing(d, m) = {}
      BY <1>1, <2>10, TrailingFinite, FS_EmptySet DEF Matches, old
    <3>2. new.first = n /\ Trailing(d, m)' = {n}
      BY <2>1, <2>6, <2>10, <3>1
    <3>3. QED
      BY <2>2, <2>9, <3>2 DEF Matches, new
  <2>11. CASE old.count > 0
    <3>1. new.first = old.first
      BY <2>6, <2>11
    <3>2. old.first \in Trailing(d, m) /\ \A i \in Trailing(d, m) : old.first <= i
      BY <1>1, <2>11 DEF Matches, old
    <3>3. new.first \in Trailing(d, m)' /\ \A i \in Trailing(d, m)' : new.first <= i
      BY <2>1, <2>2, <2>3, <3>1, <3>2
    <3>4. QED
      BY <2>9, <3>3 DEF Matches, new
  <2>12. QED
    BY <2>8, <2>10, <2>11
<1>5. QED
  BY <1>2, <1>3, <1>4

LEMMA MatchesStep ==
  ASSUME TypeOK, Chronicle, RowsCountPresent, StreakMatchesHistory, [Next]_vars
  PROVE  StreakMatchesHistory'
<1>1. \A d \in Devices, m \in Modes : Matches(d, m)
  BY DEF StreakMatchesHistory, Matches
<1>2. ASSUME \A d \in Devices, m \in Modes : Matches(d, m)'
      PROVE  StreakMatchesHistory'
  BY <1>2 DEF StreakMatchesHistory, Matches
<1>3. ASSUME UNCHANGED <<streak, results, era>>, NEW e \in Devices, NEW m \in Modes,
             device'[e] = device[e]
      PROVE  Matches(e, m)'
  <2>1. Trailing(e, m)' = Trailing(e, m)
    BY <1>3 DEF Trailing, Relevant, CurrentOf
  <2>2. QED
    BY <1>1, <1>3, <2>1, MatchesSame
<1>4. ASSUME NEW d \in Devices, NEW ip \in Addresses, NEW act \in BOOLEAN,
             CreateDevice(d, ip, act)
      PROVE  StreakMatchesHistory'
  <2>1. /\ UNCHANGED <<streak, alarms, results, era>>
        /\ \A e \in Devices \ {d} : device'[e] = device[e]
        /\ \A i \in DOMAIN results : results[i].current => results[i].device # d
    BY <1>4, CreateFinds
  <2>2. ASSUME NEW m \in Modes PROVE Matches(d, m)'
    <3>1. Trailing(d, m) = {} /\ Trailing(d, m)' = {}
      BY <2>1 DEF Trailing, Relevant, CurrentOf
    <3>2. QED
      BY <1>1, <2>1, <3>1, MatchesSame
  <2>3. QED
    BY <1>2, <1>3, <2>1, <2>2
<1>5. ASSUME NEW d \in Devices, NEW ip \in Addresses, NEW act \in BOOLEAN,
             UpdateDevice(d, ip, act)
      PROVE  StreakMatchesHistory'
  <2>1. /\ UNCHANGED <<results, era>>
        /\ device'[d].version = device[d].version + 1
        /\ \A e \in Devices \ {d} : device'[e] = device[e]
        /\ \A m \in Modes : streak'[<<d, m>>].count = 0
        /\ \A e \in Devices \ {d}, m \in Modes : streak'[<<e, m>>] = streak[<<e, m>>]
    BY <1>5, UpdateCounts
  <2>2. ASSUME NEW m \in Modes PROVE Matches(d, m)'
    BY <2>1, TrailingGone, MatchesNone
  <2>3. ASSUME NEW e \in Devices \ {d}, NEW m \in Modes PROVE Matches(e, m)'
    <3>1. Trailing(e, m)' = Trailing(e, m)
      BY <2>1 DEF Trailing, Relevant, CurrentOf
    <3>2. QED
      BY <1>1, <2>1, <3>1, MatchesSame
  <2>4. QED
    BY <1>2, <2>2, <2>3
<1>6. ASSUME NEW i \in DOMAIN alarms, Acknowledge(i)
      PROVE  StreakMatchesHistory'
  BY <1>2, <1>3, <1>6 DEF Acknowledge
<1>7. CASE Quiet
  BY <1>2, <1>3, <1>7 DEF Quiet
<1>8. CASE ResetsAll
  BY <1>2, <1>8, ResetCounts, TrailingGone, MatchesNone DEF ResetsAll
<1>9. QED
  BY <1>4, <1>5, <1>6, <1>7, <1>8, MatchesSave, OtherSteps

\* The inductive invariant of the streaks.
StreakInv == Chronicle /\ RowsCountPresent /\ StreakMatchesHistory

LEMMA StreaksHold == Spec => []StreakInv
<1>1. Init => StreakInv
  <2> SUFFICES ASSUME Init PROVE StreakInv
    OBVIOUS
  <2>1. DOMAIN results = {}
    BY DEF Init
  <2>2. \A d \in Devices, m \in Modes :
          Trailing(d, m) = {} /\ streak[<<d, m>>].count = 0
    BY <2>1 DEF Init, NoStreak, Trailing, Relevant, CurrentOf
  <2>3. StreakMatchesHistory
    <3>1. ASSUME NEW d \in Devices, NEW m \in Modes PROVE Matches(d, m)
      <4>1. Cardinality({}) = 0
        BY FS_EmptySet
      <4>2. Trailing(d, m) = {} /\ streak[<<d, m>>].count = 0
        BY <2>2
      <4>3. Cardinality(Trailing(d, m)) = 0
        BY <4>1, <4>2
      <4>4. ~(streak[<<d, m>>].count > 0)
        BY <4>2
      <4>5. QED
        BY <4>2, <4>3, <4>4 DEF Matches
    <3>2. QED
      BY <3>1 DEF StreakMatchesHistory, Matches
  <2>4. QED
    BY <2>1, <2>2, <2>3 DEF StreakInv, Chronicle, RowsCountPresent
<1>2. TypeOK /\ StreakInv /\ [Next]_vars => StreakInv'
  BY ChronicleStep, RowsStep, MatchesStep DEF StreakInv
<1>3. QED
  BY <1>1, <1>2, TypeCorrect, PTL DEF Spec

\* The persisted streak, through changes of the target, stops, failing resets,
\* crashes and boots, counts exactly the run of no_reply at the end of the
\* history that it should count, and its first_no_reply_at is the first of it.
THEOREM StreaksMatch == Spec => []StreakMatchesHistory
<1>1. QED
  BY StreaksHold, PTL DEF StreakInv
-----------------------------------------------------------------------------
(* The alarms rows.                                                        *)

\* Row i is written by the measurement with id n: it stays the same alarm.
Moved(i, status, n) ==
  /\ DOMAIN alarms' = DOMAIN alarms
  /\ \A j \in DOMAIN alarms : j # i => alarms'[j] = alarms[j]
  /\ SameAlarm(alarms[i], alarms'[i])
  /\ alarms'[i].status = status /\ alarms'[i].last = n

\* An alarm is added for the measurement n of check c.
Added(c, n) ==
  /\ DOMAIN alarms' = DOMAIN alarms \cup {Len(alarms) + 1}
  /\ Len(alarms) + 1 \notin DOMAIN alarms
  /\ \A j \in DOMAIN alarms : alarms'[j] = alarms[j]
  /\ LET a == alarms'[Len(alarms) + 1]
     IN  /\ a.device = c.device /\ a.ip = c.ip /\ a.mode = c.mode
         /\ a.first = Counted(StreakFor(c), n).first
         /\ a.opened = n /\ a.last = n /\ a.status = "open"

\* What a measurement does to the alarms.
LEMMA SaveAlarms ==
  ASSUME TypeOK, NEW c \in checks, NEW outcome \in Outcomes, Save(c, outcome)
  PROVE  LET n    == Len(results) + 1
             open == OpenAlarms(c.device, c.ip, c.mode)
             next == Counted(StreakFor(c), n)
         IN  \/ ~StillCurrent(c) /\ UNCHANGED alarms
             \/ /\ StillCurrent(c) /\ UNCHANGED alarms
                /\ outcome = "error"
             \/ /\ StillCurrent(c) /\ UNCHANGED alarms
                /\ open = {}
                /\ outcome = "no_reply" => next.count < Threshold
             \/ /\ StillCurrent(c) /\ outcome = "no_reply"
                /\ \E i \in open : Moved(i, "open", n)
             \/ /\ StillCurrent(c) /\ outcome = "reply"
                /\ \E i \in open : Moved(i, "resolved", n)
             \/ /\ StillCurrent(c) /\ outcome = "no_reply"
                /\ open = {} /\ next.count >= Threshold
                /\ Added(c, n)
<1> DEFINE n    == Len(results) + 1
           open == OpenAlarms(c.device, c.ip, c.mode)
           next == Counted(StreakFor(c), n)
<1>1. Evaluate(c, outcome, n)
  BY DEF Save
<1>2. open \subseteq DOMAIN alarms /\ \A i \in open : alarms[i].status = "open"
  BY DEF OpenAlarms, IsOpenFor
<1>3. \A i \in DOMAIN alarms : alarms[i] \in Alarm
  BY AlarmRows
<1>4. DOMAIN alarms = 1 .. Len(alarms) /\ Len(alarms) \in Nat
  BY DEF TypeOK
<1>5. CASE ~StillCurrent(c)
  BY <1>1, <1>5 DEF Evaluate
<1>6. CASE StillCurrent(c) /\ outcome = "no_reply"
  <2>1. EvaluateNoReply(c, n)
    BY <1>1, <1>6 DEF Evaluate
  <2>2. ASSUME NEW i \in open, alarms' = [alarms EXCEPT ![i].last = n]
        PROVE  Moved(i, "open", n)
    <3>1. alarms'[i] = [alarms[i] EXCEPT !.last = n]
      BY <1>2, <2>2
    <3>2. SameAlarm(alarms[i], alarms'[i]) /\ alarms'[i].status = "open" /\ alarms'[i].last = n
      BY <1>2, <1>3, <3>1 DEF Alarm, SameAlarm
    <3>3. QED
      BY <2>2, <3>2 DEF Moved
  <2>3. ASSUME alarms' = Append(alarms,
                 [device |-> c.device, ip |-> c.ip, mode |-> c.mode,
                  first |-> next.first, opened |-> n, last |-> n,
                  status |-> "open", reason |-> "none", acked |-> FALSE])
        PROVE  Added(c, n)
    <3> DEFINE new == [device |-> c.device, ip |-> c.ip, mode |-> c.mode,
                       first |-> next.first, opened |-> n, last |-> n,
                       status |-> "open", reason |-> "none", acked |-> FALSE]
    <3>1. /\ new.device = c.device /\ new.ip = c.ip /\ new.mode = c.mode
          /\ new.first = next.first /\ new.opened = n /\ new.last = n /\ new.status = "open"
      OBVIOUS
    <3>2. alarms' = Append(alarms, new) /\ alarms \in Seq(Alarm)
      BY <2>3 DEF TypeOK
    <3> HIDE DEF new
    <3>3. /\ DOMAIN alarms' = 1 .. Len(alarms) + 1
          /\ \A j \in DOMAIN alarms : alarms'[j] = alarms[j]
          /\ alarms'[Len(alarms) + 1] = new
      BY <1>4, <3>2
    <3>4. DOMAIN alarms' = DOMAIN alarms \cup {Len(alarms) + 1} /\ Len(alarms) + 1 \notin DOMAIN alarms
      BY <1>4, <3>3
    <3>5. QED
      BY <3>1, <3>3, <3>4 DEF Added
  <2>4. ThresholdReached(next.count) <=> next.count >= Threshold
    BY DEF ThresholdReached
  <2>5. next.count \in Nat /\ Threshold \in Nat
    <3>1. StreakFor(c) \in [version : Nat, count : Nat, first : Nat]
      <4>1. streak[<<c.device, c.mode>>] \in [version : Nat, count : Nat, first : Nat]
        <5>1. /\ c.device \in Devices /\ c.mode \in Modes
          BY SaveAppends
        <5>2. streak[<<c.device, c.mode>>] \in [version : 0 .. MaxVersion, count : Nat, first : Nat]
          BY <5>1, TableRows
        <5>3. 0 .. MaxVersion \subseteq Nat
          OBVIOUS
        <5>4. QED
          BY <5>2, <5>3
      <4>2. c.version \in Nat
        BY SaveAppends
      <4>3. QED
        BY <4>1, <4>2 DEF StreakFor, NoStreak
    <3>2. QED
      BY <3>1, MonitorAssumption DEF Counted, MonitorAssumption
  <2> HIDE DEF next
  <2>6. CASE \E i \in open : alarms' = [alarms EXCEPT ![i].last = n]
    BY <1>6, <2>2, <2>6
  <2>7. CASE /\ open = {}
             /\ ThresholdReached(next.count)
             /\ alarms' = Append(alarms,
                  [device |-> c.device, ip |-> c.ip, mode |-> c.mode,
                   first |-> next.first, opened |-> n, last |-> n,
                   status |-> "open", reason |-> "none", acked |-> FALSE])
    BY <1>6, <2>3, <2>4, <2>7 DEF next
  <2>8. CASE open = {} /\ ~ThresholdReached(next.count) /\ UNCHANGED alarms
    <3>1. next.count < Threshold
      BY <2>4, <2>5, <2>8
    <3>2. QED
      BY <1>6, <2>8, <3>1 DEF next
  <2>9. QED
    BY <2>1, <2>6, <2>7, <2>8 DEF EvaluateNoReply, next
<1>7. CASE StillCurrent(c) /\ outcome # "no_reply"
  <2>1. EvaluateOther(c, outcome, n)
    BY <1>1, <1>7 DEF Evaluate
  <2>2. CASE /\ outcome = "reply"
             /\ \E i \in open :
                  alarms' = [alarms EXCEPT ![i].status = "resolved",
                                           ![i].last = n,
                                           ![i].reason = "reply_received"]
    <3>1. PICK i \in open :
            alarms' = [alarms EXCEPT ![i].status = "resolved",
                                     ![i].last = n,
                                     ![i].reason = "reply_received"]
      BY <2>2
    <3>2. /\ alarms'[i] = [alarms[i] EXCEPT !.status = "resolved", !.last = n,
                                            !.reason = "reply_received"]
          /\ DOMAIN alarms' = DOMAIN alarms
          /\ \A j \in DOMAIN alarms : j # i => alarms'[j] = alarms[j]
      BY <1>2, <3>1
    <3>3. /\ SameAlarm(alarms[i], alarms'[i]) /\ alarms'[i].status = "resolved"
          /\ alarms'[i].last = n
      BY <1>2, <1>3, <3>2 DEF Alarm, SameAlarm
    <3>4. Moved(i, "resolved", n)
      BY <3>2, <3>3 DEF Moved
    <3>5. QED
      BY <1>7, <2>2, <3>4
  <2>3. CASE (outcome # "reply" \/ open = {}) /\ UNCHANGED alarms
    BY <1>7, <2>3 DEF Outcomes
  <2>4. QED
    BY <2>1, <2>2, <2>3 DEF EvaluateOther, Resolves
<1>8. QED
  BY <1>5, <1>6, <1>7

\* Every other step keeps the alarms, or closes open ones.
LEMMA OtherAlarms ==
  ASSUME TypeOK, [Next]_vars,
         ~\E c \in checks, outcome \in Outcomes : Save(c, outcome)
  PROVE  /\ UNCHANGED results
         /\ DOMAIN alarms' = DOMAIN alarms
         /\ \A i \in DOMAIN alarms :
              /\ SameAlarm(alarms[i], alarms'[i])
              /\ alarms'[i].last = alarms[i].last
              /\ \/ alarms'[i].status = alarms[i].status
                 \/ /\ alarms[i].status = "open" /\ alarms'[i].status = "closed"
                    /\ device'[alarms[i].device].version = device[alarms[i].device].version + 1
<1>1. \A i \in DOMAIN alarms : alarms[i] \in Alarm
  BY AlarmRows
<1>2. CASE UNCHANGED <<alarms, results>>
  BY <1>2 DEF SameAlarm
<1>3. ASSUME NEW i \in DOMAIN alarms, Acknowledge(i)
      PROVE  /\ UNCHANGED results
             /\ DOMAIN alarms' = DOMAIN alarms
             /\ \A j \in DOMAIN alarms :
                  /\ SameAlarm(alarms[j], alarms'[j])
                  /\ alarms'[j].last = alarms[j].last
                  /\ alarms'[j].status = alarms[j].status
  <2>1. alarms' = [alarms EXCEPT ![i] = [alarms[i] EXCEPT !.acked = TRUE]] /\ UNCHANGED results
    BY <1>3 DEF Acknowledge
  <2>2. alarms'[i] = [alarms[i] EXCEPT !.acked = TRUE]
    BY <2>1
  <2>3. /\ SameAlarm(alarms[i], alarms'[i]) /\ alarms'[i].last = alarms[i].last
        /\ alarms'[i].status = alarms[i].status
    BY <1>1, <2>2 DEF Alarm, SameAlarm
  <2>4. \A j \in DOMAIN alarms : j # i => alarms'[j] = alarms[j]
    BY <2>1
  <2>5. QED
    BY <2>1, <2>3, <2>4 DEF SameAlarm
<1>4. ASSUME NEW d \in Devices, NEW ip \in Addresses, NEW act \in BOOLEAN,
             UpdateDevice(d, ip, act)
      PROVE  /\ UNCHANGED results
             /\ DOMAIN alarms' = DOMAIN alarms
             /\ \A j \in DOMAIN alarms :
                  /\ SameAlarm(alarms[j], alarms'[j])
                  /\ alarms'[j].last = alarms[j].last
                  /\ \/ alarms'[j].status = alarms[j].status
                     \/ /\ alarms[j].status = "open" /\ alarms'[j].status = "closed"
                        /\ device'[alarms[j].device].version = device[alarms[j].device].version + 1
  <2>1. PICK reason \in {"target_changed", "device_deactivated"} : CloseDeviceAlarms(d, reason)
    BY <1>4 DEF UpdateDevice
  <2>2. DOMAIN alarms' = DOMAIN alarms
    BY <2>1 DEF CloseDeviceAlarms
  <2>3. ASSUME NEW j \in DOMAIN alarms, ~Closes(alarms[j], d, reason)
        PROVE  alarms'[j] = alarms[j]
    BY <2>1, <2>3 DEF CloseDeviceAlarms
  <2>4. ASSUME NEW j \in DOMAIN alarms, Closes(alarms[j], d, reason)
        PROVE  /\ SameAlarm(alarms[j], alarms'[j])
               /\ alarms'[j].last = alarms[j].last
               /\ alarms[j].status = "open" /\ alarms'[j].status = "closed"
               /\ device'[alarms[j].device].version = device[alarms[j].device].version + 1
    <3>1. alarms'[j] = [alarms[j] EXCEPT !.status = "closed", !.reason = reason]
      BY <2>1, <2>4 DEF CloseDeviceAlarms
    <3>2. /\ SameAlarm(alarms[j], alarms'[j]) /\ alarms'[j].last = alarms[j].last
          /\ alarms'[j].status = "closed"
      BY <1>1, <3>1 DEF Alarm, SameAlarm
    <3>3. alarms[j].device = d /\ alarms[j].status = "open"
      BY <2>4 DEF Closes
    <3>4. QED
      BY <1>4, <3>2, <3>3, UpdateCounts
  <2>5. UNCHANGED results
    BY <1>4, UpdateCounts
  <2>6. QED
    BY <2>2, <2>3, <2>4, <2>5 DEF SameAlarm
<1>5. QED
  BY <1>2, <1>3, <1>4, OtherActions DEF CreateDevice
-----------------------------------------------------------------------------
(* No outage goes unreported.                                              *)

HasOpen(d, m) ==
  \E i \in DOMAIN alarms : /\ alarms[i].status = "open"
                           /\ alarms[i].device = d /\ alarms[i].mode = m

\* The same of the persisted streaks.
LongStreaksAlarm ==
  \A d \in Devices, m \in Modes : streak[<<d, m>>].count >= Threshold => HasOpen(d, m)

LEMMA MissedInStreaks ==
  ASSUME StreakMatchesHistory
  PROVE  NoMissedAlarm <=> LongStreaksAlarm
<1>1. \A d \in Devices, m \in Modes : streak[<<d, m>>].count = Cardinality(Trailing(d, m))
  BY DEF StreakMatchesHistory
<1>2. NoMissedAlarm <=>
        \A d \in Devices, m \in Modes : Cardinality(Trailing(d, m)) >= Threshold => HasOpen(d, m)
  BY DEF NoMissedAlarm, HasOpen
<1>3. ASSUME NEW d \in Devices, NEW m \in Modes
      PROVE  Cardinality(Trailing(d, m)) >= Threshold <=> streak[<<d, m>>].count >= Threshold
  BY <1>1
<1>4. QED
  BY <1>2, <1>3 DEF LongStreaksAlarm

\* An alarm of the present target is found by the key it is looked up with.
LEMMA OpenIsFound ==
  ASSUME TypeOK, OpenAlarmTracksTarget, NEW c \in checks, StillCurrent(c)
  PROVE  OpenAlarms(c.device, c.ip, c.mode) =
           {i \in DOMAIN alarms : /\ alarms[i].status = "open"
                                  /\ alarms[i].device = c.device
                                  /\ alarms[i].mode = c.mode}
BY DEF OpenAlarms, IsOpenFor, OpenAlarmTracksTarget, StillCurrent

LEMMA MissedSave ==
  ASSUME TypeOK, OpenAlarmTracksTarget, StreakInv, LongStreaksAlarm,
         NEW c \in checks, NEW outcome \in Outcomes, Save(c, outcome)
  PROVE  LongStreaksAlarm'
<1> DEFINE n    == Len(results) + 1
           key  == <<c.device, c.mode>>
           open == OpenAlarms(c.device, c.ip, c.mode)
           next == Counted(StreakFor(c), n)
<1>1. Threshold \in Nat /\ Threshold > 0
  BY MonitorAssumption DEF MonitorAssumption
<1>2. c.device \in Devices /\ c.mode \in Modes /\ n \in Nat
  BY SaveAppends, ResultRows
<1>3. ASSUME NEW d \in Devices, NEW m \in Modes, streak'[<<d, m>>] = streak[<<d, m>>],
             HasOpen(d, m) => HasOpen(d, m)'
      PROVE  streak'[<<d, m>>].count >= Threshold => HasOpen(d, m)'
  BY <1>3 DEF LongStreaksAlarm
<1>4. ASSUME NEW d \in Devices, NEW m \in Modes, <<d, m>> # key \/ outcome # "reply"
             \/ ~StillCurrent(c)
      PROVE  HasOpen(d, m) => HasOpen(d, m)'
  <2> SUFFICES ASSUME HasOpen(d, m) PROVE HasOpen(d, m)'
    OBVIOUS
  <2>1. PICK i \in DOMAIN alarms :
          alarms[i].status = "open" /\ alarms[i].device = d /\ alarms[i].mode = m
    BY DEF HasOpen
  <2>2. CASE UNCHANGED alarms
    BY <2>1, <2>2 DEF HasOpen
  <2>3. ASSUME NEW j \in open, Moved(j, "open", n) PROVE HasOpen(d, m)'
    BY <2>1, <2>3 DEF Moved, SameAlarm, HasOpen
  <2>4. ASSUME NEW j \in open, Moved(j, "resolved", n), outcome = "reply", StillCurrent(c)
        PROVE  HasOpen(d, m)'
    <3>1. <<alarms[j].device, alarms[j].mode>> = key
      BY DEF OpenAlarms, IsOpenFor
    <3>2. i # j
      BY <1>4, <2>1, <2>4, <3>1
    <3>3. QED
      BY <2>1, <2>4, <3>2 DEF Moved, HasOpen
  <2>5. CASE Added(c, n)
    BY <2>1, <2>5 DEF Added, HasOpen
  <2>6. QED
    BY <2>2, <2>3, <2>4, <2>5, SaveAlarms
<1>5. ASSUME NEW d \in Devices, NEW m \in Modes, <<d, m>> # key \/ ~StillCurrent(c)
      PROVE  streak'[<<d, m>>].count >= Threshold => HasOpen(d, m)'
  BY <1>3, <1>4, <1>5, SaveCounts
<1>6. CASE StillCurrent(c) /\ outcome # "no_reply"
  <2>1. streak'[key] = [version |-> c.version, count |-> 0, first |-> 0]
    BY <1>6, SaveCounts
  <2>2. ~(streak'[key].count >= Threshold)
    BY <1>1, <2>1
  <2>3. QED
    BY <1>5, <2>2 DEF LongStreaksAlarm
<1>7. CASE StillCurrent(c) /\ outcome = "no_reply"
  <2>1. streak'[key] = next
    BY <1>7, SaveCounts
  <2>2. next.count \in Nat
    <3>1. next.count = streak[key].count + 1 /\ streak[key].count \in Nat
      BY <1>2, <1>7, CountedRow, TableRows DEF StreakInv
    <3>2. QED
      BY <3>1
  <2>3. ASSUME next.count >= Threshold PROVE HasOpen(c.device, c.mode)'
    <3>1. CASE open # {}
      <4>1. HasOpen(c.device, c.mode)
        BY <3>1 DEF OpenAlarms, IsOpenFor, HasOpen
      <4>2. QED
        BY <1>2, <1>4, <1>7, <4>1
    <3>2. CASE Added(c, n)
      BY <3>2 DEF Added, HasOpen
    <3> HIDE DEF next
    <3>3. ~(next.count < Threshold)
      BY <1>1, <2>2, <2>3
    <3>4. QED
      BY <1>7, <3>1, <3>2, <3>3, SaveAlarms DEF next
  <2>4. QED
    BY <1>5, <2>1, <2>3 DEF LongStreaksAlarm
<1>8. QED
  BY <1>5, <1>6, <1>7 DEF LongStreaksAlarm

LEMMA MissedStep ==
  ASSUME TypeOK, OpenAlarmTracksTarget, StreakInv, LongStreaksAlarm, [Next]_vars
  PROVE  LongStreaksAlarm'
<1>1. Threshold \in Nat /\ Threshold > 0
  BY MonitorAssumption DEF MonitorAssumption
<1>2. ASSUME UNCHANGED <<streak, alarms>> PROVE LongStreaksAlarm'
  BY <1>2 DEF LongStreaksAlarm, HasOpen
<1>3. ASSUME NEW d \in Devices, NEW ip \in Addresses, NEW act \in BOOLEAN,
             UpdateDevice(d, ip, act)
      PROVE  LongStreaksAlarm'
  <2>1. PICK reason \in {"target_changed", "device_deactivated"} : CloseDeviceAlarms(d, reason)
    BY <1>3 DEF UpdateDevice
  <2>2. \A e \in Devices \ {d}, m \in Modes : HasOpen(e, m) => HasOpen(e, m)'
    BY <2>1 DEF CloseDeviceAlarms, Closes, HasOpen
  <2>3. \A m \in Modes : ~(streak'[<<d, m>>].count >= Threshold)
    BY <1>1, <1>3, UpdateCounts
  <2>4. \A e \in Devices \ {d}, m \in Modes : streak'[<<e, m>>] = streak[<<e, m>>]
    BY <1>3, UpdateCounts
  <2>5. QED
    BY <2>2, <2>3, <2>4 DEF LongStreaksAlarm
<1>4. ASSUME NEW i \in DOMAIN alarms, Acknowledge(i)
      PROVE  LongStreaksAlarm'
  <2>1. UNCHANGED streak
    BY <1>4 DEF Acknowledge
  <2>2. alarms' = [alarms EXCEPT ![i] = [alarms[i] EXCEPT !.acked = TRUE]]
    BY <1>4 DEF Acknowledge
  <2>3. /\ alarms'[i].status = alarms[i].status /\ alarms'[i].device = alarms[i].device
        /\ alarms'[i].mode = alarms[i].mode
    BY <2>2, AlarmRows DEF Alarm
  <2>4. \A d \in Devices, m \in Modes : HasOpen(d, m) => HasOpen(d, m)'
    BY <2>2, <2>3 DEF HasOpen
  <2>5. QED
    BY <2>1, <2>4 DEF LongStreaksAlarm
<1>5. CASE Quiet
  BY <1>2, <1>5 DEF Quiet
<1>6. CASE ResetsAll
  <2>1. ASSUME NEW d \in Devices, NEW m \in Modes
        PROVE  ~(streak'[<<d, m>>].count >= Threshold)
    <3>1. streak'[<<d, m>>].count = 0
      BY <1>6, ResetCounts DEF ResetsAll
    <3>2. QED
      BY <1>1, <3>1
  <2>2. QED
    BY <2>1 DEF LongStreaksAlarm
<1>7. QED
  BY <1>2, <1>3, <1>4, <1>5, <1>6, MissedSave, OtherSteps DEF CreateDevice

LEMMA LongStreaksHold == Spec => []LongStreaksAlarm
<1>1. Init => LongStreaksAlarm
  <2>1. ASSUME Init, NEW d \in Devices, NEW m \in Modes
        PROVE  ~(streak[<<d, m>>].count >= Threshold)
    BY <2>1, MonitorAssumption DEF Init, NoStreak, MonitorAssumption
  <2>2. QED
    BY <2>1 DEF LongStreaksAlarm
<1>2. TypeOK /\ OpenAlarmTracksTarget /\ StreakInv /\ LongStreaksAlarm /\ [Next]_vars
        => LongStreaksAlarm'
  BY MissedStep
<1>3. QED
  BY <1>1, <1>2, StreaksHold, AlarmsTrackTargets, TypeCorrect, PTL DEF Spec

\* A run of no_reply measurements as long as the threshold always has its open
\* alarm, whatever was resolved, closed, restarted or measured in between.
THEOREM OutagesAlarm == Spec => []NoMissedAlarm
<1>1. StreakInv /\ LongStreaksAlarm => NoMissedAlarm
  BY MissedInStreaks DEF StreakInv
<1>2. QED
  BY <1>1, StreaksHold, LongStreaksHold, PTL
-----------------------------------------------------------------------------
(* No false alarm.                                                         *)

\* The current measurements in rs that an alarm is about, from its first
\* no_reply to its opening.
Window(rs, a) ==
  {j \in DOMAIN rs : /\ rs[j].device = a.device /\ rs[j].mode = a.mode /\ rs[j].current
                     /\ a.first <= j /\ j <= a.opened}

Justified(rs, a) ==
  /\ {a.first, a.opened} \subseteq Window(rs, a)
  /\ Cardinality(Window(rs, a)) = Threshold
  /\ \A j \in Window(rs, a) : /\ rs[j].outcome = "no_reply"
                              /\ rs[j].ip = a.ip
                              /\ rs[j].version = rs[a.opened].version
                              /\ rs[j].era = rs[a.opened].era

LEMMA JustifiedEach ==
  /\ AlarmJustified <=> \A i \in DOMAIN alarms : Justified(results, alarms[i])
  /\ AlarmJustified' <=> \A i \in DOMAIN alarms' : Justified(results', alarms'[i])
<1>1. ASSUME NEW rs, NEW a
      PROVE  {j \in {k \in DOMAIN rs : rs[k].device = a.device /\ rs[k].mode = a.mode
                                       /\ rs[k].current} :
                a.first <= j /\ j <= a.opened} = Window(rs, a)
  BY DEF Window
<1>2. AlarmJustified <=> \A i \in DOMAIN alarms : Justified(results, alarms[i])
  BY <1>1 DEF AlarmJustified, CurrentOf, Justified
<1>3. AlarmJustified' <=> \A i \in DOMAIN alarms' : Justified(results', alarms'[i])
  BY <1>1 DEF AlarmJustified, CurrentOf, Justified
<1>4. QED
  BY <1>2, <1>3

\* The history only grows.
Grown ==
  /\ \A j \in DOMAIN results : j \in DOMAIN results' /\ results'[j] = results[j]
  /\ \A j \in DOMAIN results' : j \in DOMAIN results \/ j = Len(results) + 1

LEMMA HistoryGrows ==
  ASSUME TypeOK, [Next]_vars
  PROVE  Grown
<1>1. ASSUME NEW c \in checks, NEW outcome \in Outcomes, Save(c, outcome)
      PROVE  Grown
  <2>1. /\ DOMAIN results' = 1 .. Len(results) + 1 /\ DOMAIN results = 1 .. Len(results)
        /\ Len(results) \in Nat
    BY <1>1, SaveAppends, ResultRows
  <2>2. \A j \in DOMAIN results' : j \in DOMAIN results \/ j = Len(results) + 1
    BY <2>1
  <2>3. QED
    BY <1>1, <2>2, SaveAppends DEF Grown
<1>2. CASE UNCHANGED results
  BY <1>2 DEF Grown
<1>3. QED
  BY <1>1, <1>2, OtherAlarms

\* Once opened, an alarm stays justified: its window lies in the past.
LEMMA JustifiedStays ==
  ASSUME TypeOK, Grown, NEW a, NEW b, Justified(results, a), SameAlarm(a, b)
  PROVE  Justified(results', b)
<1>1. /\ a.device = b.device /\ a.ip = b.ip /\ a.mode = b.mode
      /\ a.first = b.first /\ a.opened = b.opened
  BY DEF SameAlarm
<1>2. a.opened \in DOMAIN results /\ Window(results, a) \subseteq DOMAIN results
  BY DEF Justified, Window
<1>3. Len(results) \in Nat /\ \A j \in DOMAIN results : j \in Nat /\ j < Len(results) + 1
  BY ResultRows
<1>4. Window(results', b) = Window(results, a)
  <2>1. ASSUME NEW j \in DOMAIN results', j \notin DOMAIN results
        PROVE  ~(j <= a.opened)
    BY <1>2, <1>3, <2>1 DEF Grown
  <2>2. \A j \in DOMAIN results : j \in DOMAIN results' /\ results'[j] = results[j]
    BY DEF Grown
  <2>3. QED
    BY <1>1, <2>1, <2>2 DEF Window
<1>5. \A j \in Window(results, a) : results'[j] = results[j]
  BY <1>2 DEF Grown
<1>6. results'[a.opened] = results[a.opened]
  BY <1>2 DEF Grown
<1>7. QED
  BY <1>1, <1>4, <1>5, <1>6 DEF Justified

\* A new alarm is justified by the run that made it: the run is the window,
\* because no other current measurement lies between its ends.
LEMMA JustifiedNew ==
  ASSUME TypeOK, TypeOK', OpenAlarmTracksTarget, StreakInv, StreakInv', LongStreaksAlarm,
         NEW c \in checks, Save(c, "no_reply"), StillCurrent(c),
         OpenAlarms(c.device, c.ip, c.mode) = {},
         Counted(StreakFor(c), Len(results) + 1).count >= Threshold,
         NEW a,
         a.device = c.device, a.ip = c.ip, a.mode = c.mode, a.opened = Len(results) + 1,
         a.first = Counted(StreakFor(c), Len(results) + 1).first
  PROVE  Justified(results', a)
<1> DEFINE n    == Len(results) + 1
           d    == c.device
           m    == c.mode
           next == Counted(StreakFor(c), n)
           run  == Trailing(d, m)'
           rs   == results'
<1>1. "no_reply" \in Outcomes
  BY DEF Outcomes
<1>2. d \in Devices /\ m \in Modes /\ n \in Nat
  BY <1>1, SaveAppends, ResultRows
<1>3. /\ streak'[<<d, m>>] = next
      /\ next.count = streak[<<d, m>>].count + 1 /\ streak[<<d, m>>].count \in Nat
  BY <1>1, <1>2, SaveCounts, CountedRow, TableRows DEF StreakInv
<1>4. device' = device /\ era' = era /\ device[d].version = c.version /\ device[d].ip = c.ip
  BY <1>1, SaveAppends DEF StillCurrent
<1>5. run = Trailing(d, m) \cup {n}
  BY <1>1, <1>2, TrailingSave
<1>6. next.count = Threshold
  <2>1. ~HasOpen(d, m)
    BY OpenIsFound DEF HasOpen
  <2>2. ~(streak[<<d, m>>].count >= Threshold)
    BY <1>2, <2>1 DEF LongStreaksAlarm
  <2>3. Threshold \in Nat /\ next.count >= Threshold
    BY MonitorAssumption DEF MonitorAssumption
  <2> HIDE DEF next
  <2>4. QED
    BY <1>3, <2>2, <2>3
<1>7. /\ Cardinality(run) = Threshold
      /\ a.first \in run /\ \A i \in run : a.first <= i
  <2>1. Matches(d, m)'
    BY <1>2 DEF StreakInv, StreakMatchesHistory, Matches
  <2>2. /\ streak'[<<d, m>>].count = Cardinality(run)
        /\ streak'[<<d, m>>].count > 0 =>
             streak'[<<d, m>>].first \in run /\ \A i \in run : streak'[<<d, m>>].first <= i
    BY <2>1 DEF Matches
  <2>3. Threshold > 0
    BY MonitorAssumption DEF MonitorAssumption
  <2> HIDE DEF run
  <2>4. QED
    BY <1>3, <1>6, <2>2, <2>3
<1>8. DOMAIN rs = 1 .. n /\ run \subseteq DOMAIN rs
  BY <1>1, SaveAppends DEF Trailing, Relevant, CurrentOf
<1>9. \A i \in DOMAIN rs : /\ i \in Nat /\ i <= n
                           /\ rs[i].version \in Nat /\ rs[i].era \in Nat
                           /\ rs[i] \in Result
  <2>1. rs \in Seq(Result)
    BY DEF TypeOK
  <2>2. \A i \in DOMAIN rs : rs[i] \in Result
    BY <2>1
  <2>3. QED
    BY <1>2, <1>8, <2>2, MonitorAssumption DEF Result, MonitorAssumption
<1>10. \A i : i \in Relevant(d, m)' <=>
                /\ i \in DOMAIN rs /\ rs[i].device = d /\ rs[i].mode = m /\ rs[i].current
                /\ rs[i].version = device'[d].version /\ rs[i].era = era'
  BY DEF Relevant, CurrentOf
<1>11. \A i : i \in run <=>
                /\ i \in Relevant(d, m)'
                /\ \A j \in Relevant(d, m)' : j >= i => rs[j].outcome = "no_reply"
  BY DEF Trailing
<1>12. \A i \in run : /\ rs[i].device = d /\ rs[i].mode = m /\ rs[i].current
                      /\ rs[i].version = device'[d].version /\ rs[i].era = era'
                      /\ rs[i].outcome = "no_reply"
  <2>1. \A i \in DOMAIN rs : i >= i
    BY <1>9
  <2> HIDE DEF run
  <2>2. QED
    BY <1>8, <1>10, <1>11, <2>1
<1>13. /\ \A i \in DOMAIN rs :
            /\ rs[i].era <= era'
            /\ rs[i].current /\ rs[i].device = d =>
                 /\ rs[i].version <= device'[d].version
                 /\ rs[i].version = device'[d].version => rs[i].ip = device'[d].ip
       /\ \A i, j \in DOMAIN rs :
            i < j => /\ rs[i].era <= rs[j].era
                     /\ rs[i].current /\ rs[j].current /\ rs[i].device = rs[j].device
                          => rs[i].version <= rs[j].version
  BY DEF StreakInv, Chronicle
<1>14. device'[d].version \in Nat /\ era' \in Nat
  BY <1>2, <1>4, TableRows
<1> HIDE DEF n, d, m, next, run, rs
<1>15. Window(rs, a) = run
  <2>1. run \subseteq Window(rs, a)
    BY <1>7, <1>8, <1>9, <1>12 DEF Window, n, d, m
  <2>2. ASSUME NEW j \in Window(rs, a) PROVE j \in run
    <3>1. /\ j \in DOMAIN rs /\ rs[j].device = d /\ rs[j].mode = m
          /\ rs[j].current /\ a.first <= j
      BY <2>2 DEF Window, d, m
    <3>2. a.first \in DOMAIN rs /\ a.first \in Nat /\ j \in Nat
      BY <1>7, <1>8, <1>9, <3>1
    <3>3. rs[a.first].version <= rs[j].version /\ rs[a.first].era <= rs[j].era
      <4>1. CASE a.first = j
        BY <1>9, <3>1, <4>1
      <4>2. CASE a.first < j
        BY <1>7, <1>12, <1>13, <3>1, <3>2, <4>2
      <4>3. QED
        BY <3>1, <3>2, <4>1, <4>2
    <3>4. rs[j].version <= device'[d].version /\ rs[j].era <= era'
      BY <1>13, <3>1
    <3>5. rs[j].version = device'[d].version /\ rs[j].era = era'
      BY <1>7, <1>9, <1>12, <1>14, <3>1, <3>3, <3>4
    <3>6. j \in Relevant(d, m)'
      BY <1>10, <3>1, <3>5
    <3>7. ASSUME NEW k \in Relevant(d, m)', k >= j PROVE rs[k].outcome = "no_reply"
      <4>1. k \in Nat
        BY <1>9, <1>10
      <4>2. k >= a.first
        BY <3>1, <3>2, <3>7, <4>1
      <4>3. QED
        BY <1>7, <1>11, <4>2
    <3>8. QED
      BY <1>11, <3>6, <3>7
  <2>3. QED
    BY <2>1, <2>2
<1>16. n \in run /\ a.opened = n /\ a.ip = device'[d].ip
  BY <1>4, <1>5 DEF n, d
<1>17. \A j \in run : rs[j].ip = a.ip
  BY <1>8, <1>12, <1>13, <1>16
<1>18. Justified(rs, a)
  BY <1>7, <1>12, <1>15, <1>16, <1>17 DEF Justified
<1>19. QED
  BY <1>18 DEF rs

LEMMA JustifiedStep ==
  ASSUME TypeOK, TypeOK', OpenAlarmTracksTarget, StreakInv, StreakInv', LongStreaksAlarm,
         AlarmJustified, [Next]_vars
  PROVE  AlarmJustified'
<1>1. ASSUME NEW i \in DOMAIN alarms, SameAlarm(alarms[i], alarms'[i])
      PROVE  Justified(results', alarms'[i])
  BY <1>1, HistoryGrows, JustifiedStays, JustifiedEach
<1>2. ASSUME DOMAIN alarms' = DOMAIN alarms,
             \A i \in DOMAIN alarms : SameAlarm(alarms[i], alarms'[i])
      PROVE AlarmJustified'
  BY <1>1, <1>2, JustifiedEach
<1>3. ASSUME UNCHANGED alarms PROVE AlarmJustified'
  BY <1>2, <1>3 DEF SameAlarm
<1>4. ASSUME NEW c \in checks, NEW outcome \in Outcomes, Save(c, outcome)
      PROVE  AlarmJustified'
  <2>1. ASSUME outcome = "no_reply", StillCurrent(c),
               OpenAlarms(c.device, c.ip, c.mode) = {},
               Counted(StreakFor(c), Len(results) + 1).count >= Threshold,
               Added(c, Len(results) + 1)
        PROVE  AlarmJustified'
    <3>1. Justified(results', alarms'[Len(alarms) + 1])
      BY <1>4, <2>1, JustifiedNew DEF Added
    <3>2. /\ DOMAIN alarms' = DOMAIN alarms \cup {Len(alarms) + 1}
          /\ \A i \in DOMAIN alarms : SameAlarm(alarms[i], alarms'[i])
      BY <2>1 DEF Added, SameAlarm
    <3>3. \A i \in DOMAIN alarms' : Justified(results', alarms'[i])
      BY <1>1, <3>1, <3>2
    <3>4. QED
      BY <3>3, JustifiedEach
  <2>2. ASSUME NEW i \in OpenAlarms(c.device, c.ip, c.mode), NEW status,
               Moved(i, status, Len(results) + 1)
        PROVE  AlarmJustified'
    <3>1. \A j \in DOMAIN alarms : SameAlarm(alarms[j], alarms'[j])
      BY <2>2 DEF Moved, SameAlarm
    <3>2. QED
      BY <1>2, <2>2, <3>1 DEF Moved
  <2>3. QED
    BY <1>3, <1>4, <2>1, <2>2, SaveAlarms
<1>5. QED
  BY <1>2, <1>4, OtherAlarms

\* No false alarm, for any number of devices, modes and restarts: every alarm
\* rests on exactly alarm_threshold current no_reply measurements of its own
\* target, device and mode, none from before a stop, a boot or a change of
\* the target.
THEOREM AlarmsAreJustified == Spec => []AlarmJustified
<1>1. Init => AlarmJustified
  BY JustifiedEach DEF Init
<1>2. TypeOK /\ TypeOK' /\ OpenAlarmTracksTarget /\ StreakInv /\ StreakInv'
        /\ LongStreaksAlarm /\ AlarmJustified /\ [Next]_vars
        => AlarmJustified'
  BY JustifiedStep
<1>3. QED
  BY <1>1, <1>2, StreaksHold, LongStreaksHold, AlarmsTrackTargets, TypeCorrect, PTL DEF Spec
-----------------------------------------------------------------------------
(* An alarm follows the measurements of its target.                        *)

\* The current measurements in rs after an alarm was opened, errors aside.
Heard(rs, a) ==
  {j \in DOMAIN rs : /\ rs[j].device = a.device /\ rs[j].mode = a.mode /\ rs[j].current
                     /\ j > a.opened /\ rs[j].outcome # "error"}

Follows(rs, a) ==
  /\ a.last \in Heard(rs, a) \cup {a.opened}
  /\ \A j \in Heard(rs, a) : j < a.last => rs[j].outcome = "no_reply"
  /\ a.status = "resolved" <=> rs[a.last].outcome = "reply"
  /\ a.status = "open" => \A j \in Heard(rs, a) : j <= a.last

LEMMA FollowsEach ==
  /\ AlarmFollowsHistory <=> \A i \in DOMAIN alarms : Follows(results, alarms[i])
  /\ AlarmFollowsHistory' <=> \A i \in DOMAIN alarms' : Follows(results', alarms'[i])
<1>1. ASSUME NEW rs, NEW a
      PROVE  {j \in {k \in DOMAIN rs : rs[k].device = a.device /\ rs[k].mode = a.mode
                                       /\ rs[k].current} :
                j > a.opened /\ rs[j].outcome # "error"} = Heard(rs, a)
  BY DEF Heard
<1>2. AlarmFollowsHistory <=> \A i \in DOMAIN alarms : Follows(results, alarms[i])
  BY <1>1 DEF AlarmFollowsHistory, CurrentOf, Follows
<1>3. AlarmFollowsHistory' <=> \A i \in DOMAIN alarms' : Follows(results', alarms'[i])
  BY <1>1 DEF AlarmFollowsHistory, CurrentOf, Follows
<1>4. QED
  BY <1>2, <1>3

\* An alarm without a measurement of its own follows as before, also when it
\* is closed.
LEMMA FollowsAlone ==
  ASSUME NEW a, NEW b, Follows(results, a), SameAlarm(a, b), b.last = a.last,
         b.status = a.status \/ (a.status = "open" /\ b.status = "closed")
  PROVE  Follows(results, b)
<1>1. Heard(results, b) = Heard(results, a)
  BY DEF Heard, SameAlarm
<1>2. b.opened = a.opened
  BY DEF SameAlarm
<1>3. QED
  BY <1>1, <1>2 DEF Follows

\* Where the last measurement of an alarm is found.
LEMMA LastIsKept ==
  ASSUME TypeOK, NEW a, Justified(results, a), Follows(results, a)
  PROVE  a.opened \in DOMAIN results /\ a.last \in DOMAIN results
BY DEF Justified, Window, Follows, Heard

\* What a measurement adds to what is heard.
LEMMA HeardSave ==
  ASSUME TypeOK, NEW c \in checks, NEW outcome \in Outcomes, Save(c, outcome),
         NEW a, Justified(results, a), NEW b, SameAlarm(a, b)
  PROVE  /\ Heard(results', b) \subseteq Heard(results, a) \cup {Len(results) + 1}
         /\ Heard(results, a) \subseteq Heard(results', b)
         /\ Len(results) + 1 \in Heard(results', b) <=>
              /\ a.device = c.device /\ a.mode = c.mode
              /\ StillCurrent(c) /\ outcome # "error"
<1> DEFINE n == Len(results) + 1
           rs == results'
<1>1. /\ a.device = b.device /\ a.mode = b.mode /\ a.opened = b.opened
  BY DEF SameAlarm
<1>2. DOMAIN rs = 1 .. n /\ DOMAIN results = 1 .. Len(results) /\ Len(results) \in Nat
  BY SaveAppends, ResultRows
<1>3. \A i \in DOMAIN results : i \in DOMAIN rs /\ rs[i] = results[i]
  BY SaveAppends
<1>4. /\ rs[n].device = c.device /\ rs[n].mode = c.mode /\ rs[n].outcome = outcome
      /\ rs[n].current = StillCurrent(c)
  BY SaveAppends
<1>5. a.opened \in DOMAIN results
  BY DEF Justified, Window
<1> HIDE DEF rs
<1>6. n \in DOMAIN rs /\ n > a.opened /\ \A i \in DOMAIN rs : i \in DOMAIN results \/ i = n
  BY <1>2, <1>5
<1> HIDE DEF n
<1>7. Heard(rs, b) \subseteq Heard(results, a) \cup {n}
  BY <1>1, <1>3, <1>6 DEF Heard
<1>8. Heard(results, a) \subseteq Heard(rs, b)
  BY <1>1, <1>3 DEF Heard
<1>9. n \in Heard(rs, b) <=> /\ a.device = c.device /\ a.mode = c.mode
                             /\ StillCurrent(c) /\ outcome # "error"
  BY <1>1, <1>4, <1>6 DEF Heard
<1>10. QED
  BY <1>7, <1>8, <1>9 DEF n, rs

\* A measurement that is not heard, or is heard by an alarm that has ended,
\* leaves an alarm as it is.
LEMMA FollowsUnmoved ==
  ASSUME TypeOK, NEW c \in checks, NEW outcome \in Outcomes, Save(c, outcome),
         NEW a, Justified(results, a), Follows(results, a),
         a.status = "open" => Len(results) + 1 \notin Heard(results', a)
  PROVE  Follows(results', a)
<1> DEFINE n == Len(results) + 1
           rs == results'
<1>1. a.opened \in DOMAIN results /\ a.last \in DOMAIN results
  BY LastIsKept
<1>2. \A i \in DOMAIN results : i \in Nat /\ i < n
  BY ResultRows
<1>3. \A i \in DOMAIN results : rs[i] = results[i]
  BY SaveAppends
<1>4. Heard(rs, a) \subseteq Heard(results, a) \cup {n} /\ Heard(results, a) \subseteq Heard(rs, a)
  BY HeardSave DEF SameAlarm
<1>5. Heard(results, a) \subseteq DOMAIN results
  BY DEF Heard
<1>6. a.status = "open" => n \notin Heard(rs, a)
  OBVIOUS
<1>7. n \in Nat /\ ~(n < a.last)
  BY <1>1, <1>2, ResultRows
<1> HIDE DEF n, rs
<1>8. \A j \in Heard(rs, a) : j < a.last => rs[j].outcome = "no_reply"
  BY <1>3, <1>4, <1>5, <1>7 DEF Follows
<1>9. Follows(rs, a)
  BY <1>1, <1>3, <1>4, <1>6, <1>8 DEF Follows
<1>10. QED
  BY <1>9 DEF rs

\* A reply or a no_reply of its target moves an open alarm to itself.
LEMMA FollowsMoved ==
  ASSUME TypeOK, NEW c \in checks, NEW outcome \in {"reply", "no_reply"}, Save(c, outcome),
         StillCurrent(c),
         NEW a, Justified(results, a), Follows(results, a),
         a.status = "open", a.device = c.device, a.mode = c.mode,
         NEW b, SameAlarm(a, b), b.last = Len(results) + 1,
         b.status = IF outcome = "reply" THEN "resolved" ELSE "open"
  PROVE  Follows(results', b)
<1> DEFINE n == Len(results) + 1
           rs == results'
<1>1. outcome \in Outcomes
  BY DEF Outcomes
<1>2. a.opened \in DOMAIN results /\ a.last \in DOMAIN results /\ a.opened = b.opened
  BY LastIsKept DEF SameAlarm
<1>3. n \in Nat /\ \A i \in DOMAIN results : i \in Nat /\ i < n /\ results[i].outcome \in Outcomes
  BY ResultRows
<1>4. \A i \in DOMAIN results : rs[i] = results[i]
  BY <1>1, SaveAppends
<1>5. /\ Heard(rs, b) \subseteq Heard(results, a) \cup {n}
      /\ n \in Heard(rs, b) /\ rs[n].outcome = outcome
  BY <1>1, HeardSave, SaveAppends
<1>6. Heard(results, a) \subseteq DOMAIN results
  BY DEF Heard
<1>7. b.last = n
  OBVIOUS
<1> HIDE DEF n, rs
<1>8. ASSUME NEW j \in Heard(results, a) PROVE rs[j].outcome = "no_reply" /\ j < n
  <2>1. j \in DOMAIN results /\ results[j].outcome # "error" /\ j <= a.last
    BY DEF Heard, Follows
  <2>2. results[a.last].outcome # "reply"
    BY DEF Follows
  <2>3. CASE j < a.last
    BY <1>3, <1>4, <2>1, <2>3 DEF Follows
  <2>4. CASE j = a.last
    BY <1>3, <1>4, <2>1, <2>2, <2>4 DEF Outcomes
  <2>5. QED
    BY <1>2, <1>3, <2>1, <2>3, <2>4
<1>9. \A j \in Heard(rs, b) : /\ j < n => rs[j].outcome = "no_reply"
                              /\ j <= n
  BY <1>3, <1>5, <1>8
<1>10. b.status = "resolved" <=> rs[n].outcome = "reply"
  BY <1>5
<1>11. Follows(rs, b)
  BY <1>5, <1>7, <1>9, <1>10 DEF Follows
<1>12. QED
  BY <1>11 DEF rs

LEMMA FollowsSave ==
  ASSUME TypeOK, OpenAlarmTracksTarget, OneOpenAlarm, AlarmJustified, AlarmFollowsHistory,
         NEW c \in checks, NEW outcome \in Outcomes, Save(c, outcome)
  PROVE  AlarmFollowsHistory'
<1> DEFINE n    == Len(results) + 1
           open == OpenAlarms(c.device, c.ip, c.mode)
<1>1. \A i \in DOMAIN alarms : Justified(results, alarms[i]) /\ Follows(results, alarms[i])
  BY JustifiedEach, FollowsEach
\* It is enough that an open alarm which hears the measurement is moved by it.
<1>2. ASSUME NEW i \in DOMAIN alarms, alarms'[i] = alarms[i],
             i \in open => ~StillCurrent(c) \/ outcome = "error"
      PROVE  Follows(results', alarms'[i])
  <2>1. alarms[i].status = "open" => n \notin Heard(results', alarms[i])
    <3>1. SameAlarm(alarms[i], alarms[i])
      BY DEF SameAlarm
    <3>2. QED
      BY <1>1, <1>2, <3>1, HeardSave, OpenIsFound
  <2>2. QED
    BY <1>1, <1>2, <2>1, FollowsUnmoved
<1>3. ASSUME UNCHANGED alarms, ~StillCurrent(c) \/ outcome = "error" \/ open = {}
      PROVE  AlarmFollowsHistory'
  BY <1>2, <1>3, FollowsEach
<1>4. ASSUME StillCurrent(c), outcome \in {"reply", "no_reply"}, NEW i \in open,
             Moved(i, IF outcome = "reply" THEN "resolved" ELSE "open", n)
      PROVE  AlarmFollowsHistory'
  <2>1. /\ i \in DOMAIN alarms /\ alarms[i].status = "open"
        /\ alarms[i].device = c.device /\ alarms[i].mode = c.mode
    BY DEF OpenAlarms, IsOpenFor
  <2>2. Follows(results', alarms'[i])
    BY <1>1, <1>4, <2>1, FollowsMoved DEF Moved
  <2>3. ASSUME NEW j \in DOMAIN alarms, j # i PROVE Follows(results', alarms'[j])
    <3>1. j \notin open
      BY <2>1, <2>3 DEF OneOpenAlarm, OpenAlarms, IsOpenFor
    <3>2. alarms'[j] = alarms[j]
      BY <1>4, <2>3 DEF Moved
    <3>3. QED
      BY <1>2, <3>1, <3>2
  <2>4. QED
    BY <1>4, <2>2, <2>3, FollowsEach DEF Moved
<1>5. ASSUME StillCurrent(c), outcome = "no_reply", open = {}, Added(c, n)
      PROVE  AlarmFollowsHistory'
  <2> DEFINE a == alarms'[Len(alarms) + 1]
  <2>1. a.opened = n /\ a.last = n /\ a.status = "open"
    BY <1>5 DEF Added
  <2>2. /\ DOMAIN results' = 1 .. n /\ n \in Nat
        /\ results'[n].outcome = "no_reply"
    BY <1>5, SaveAppends, ResultRows
  <2> HIDE DEF a, n
  <2>3. Heard(results', a) = {}
    BY <2>1, <2>2 DEF Heard
  <2>4. Follows(results', a)
    BY <2>1, <2>2, <2>3 DEF Follows
  <2>5. \A j \in DOMAIN alarms : Follows(results', alarms'[j])
    BY <1>2, <1>5 DEF Added
  <2>6. QED
    BY <1>5, <2>4, <2>5, FollowsEach DEF Added, a
<1>6. QED
  BY <1>3, <1>4, <1>5, SaveAlarms

LEMMA FollowsStep ==
  ASSUME TypeOK, OpenAlarmTracksTarget, OneOpenAlarm, AlarmJustified, AlarmFollowsHistory,
         [Next]_vars
  PROVE  AlarmFollowsHistory'
<1>1. CASE \E c \in checks, outcome \in Outcomes : Save(c, outcome)
  BY <1>1, FollowsSave
<1>2. CASE ~\E c \in checks, outcome \in Outcomes : Save(c, outcome)
  <2>1. ASSUME NEW i \in DOMAIN alarms PROVE Follows(results, alarms'[i])
    <3>1. /\ SameAlarm(alarms[i], alarms'[i])
          /\ alarms'[i].last = alarms[i].last
          /\ \/ alarms'[i].status = alarms[i].status
             \/ (alarms[i].status = "open" /\ alarms'[i].status = "closed")
      BY <1>2, OtherAlarms
    <3>2. Follows(results, alarms[i])
      BY FollowsEach
    <3>3. QED
      BY <3>1, <3>2, FollowsAlone
  <2>2. DOMAIN alarms' = DOMAIN alarms /\ results' = results
    BY <1>2, OtherAlarms
  <2>3. QED
    BY <2>1, <2>2, FollowsEach
<1>3. QED
  BY <1>1, <1>2

\* An alarm follows its target for every schedule of checks, updates, stops
\* and crashes: a reply ends it and nothing else resolves it, an error never
\* moves it, and while it is open last_observed_at is the latest no_reply.
THEOREM AlarmsFollow == Spec => []AlarmFollowsHistory
<1>1. Init => AlarmFollowsHistory
  BY FollowsEach DEF Init
<1>2. TypeOK /\ OpenAlarmTracksTarget /\ OneOpenAlarm /\ AlarmJustified
        /\ AlarmFollowsHistory /\ [Next]_vars
        => AlarmFollowsHistory'
  BY FollowsStep
<1>3. QED
  BY <1>1, <1>2, AlarmsAreJustified, OpenAlarmsAreUnique, AlarmsTrackTargets, TypeCorrect,
     PTL DEF Spec
=============================================================================
