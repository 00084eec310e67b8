---------------------------- MODULE MonitorProofs ----------------------------
(***************************************************************************)
(* Theorems about Monitor for every number of devices, addresses and       *)
(* modes, every threshold and concurrency limit, and all bounds.           *)
(***************************************************************************)
EXTENDS Monitor, SequenceTheorems, FiniteSetTheorems, TLAPS

\* Removing one element keeps a sequence a sequence.
LEMMA RemoveOneType ==
  ASSUME NEW S, NEW q \in Seq(S), NEW i \in 1 .. Len(q)
  PROVE  SubSeq(q, 1, i - 1) \o SubSeq(q, i + 1, Len(q)) \in Seq(S)
<1>1. Len(q) \in Nat
  BY LenProperties
<1>2. SubSeq(q, 1, i - 1) \in Seq(S)
  BY <1>1, SubSeqProperties
<1>3. SubSeq(q, i + 1, Len(q)) \in Seq(S)
  BY <1>1, SubSeqProperties
<1>4. QED
  BY <1>2, <1>3, ConcatProperties

\* Appending keeps a sequence a sequence.
LEMMA AppendType ==
  ASSUME NEW S, NEW q \in Seq(S), NEW x \in S
  PROVE  Append(q, x) \in Seq(S)
BY AppendProperties

\* Writing a field of a check or of an alarm row keeps its type.
LEMMA CheckFields ==
  ASSUME NEW c \in Check
  PROVE  /\ [c EXCEPT !.disturbed = TRUE] \in Check
         /\ [c EXCEPT !.cancelled = TRUE] \in Check
         /\ [c EXCEPT !.phase = "probing"] \in Check
BY DEF Check

LEMMA AlarmFields ==
  ASSUME NEW a \in Alarm
  PROVE  /\ [a EXCEPT !.acked = TRUE] \in Alarm
         /\ \A id \in Nat :
              /\ [a EXCEPT !.last = id] \in Alarm
              /\ [a EXCEPT !.status = "resolved", !.last = id,
                           !.reason = "reply_received"] \in Alarm
         /\ \A reason \in {"target_changed", "device_deactivated"} :
              [a EXCEPT !.status = "closed", !.reason = reason] \in Alarm
BY DEF Alarm

LEMMA AlarmRows ==
  ASSUME TypeOK
  PROVE  /\ DOMAIN alarms = 1 .. Len(alarms)
         /\ \A i \in DOMAIN alarms : alarms[i] \in Alarm
BY DEF TypeOK

LEMMA CountedType ==
  ASSUME NEW row \in [version : 0 .. MaxVersion, count : Nat, first : Nat], NEW id \in Nat
  PROVE  Counted(row, id) \in [version : 0 .. MaxVersion, count : Nat, first : Nat]
<1>1. row.count + 1 \in Nat /\ (IF row.count = 0 THEN id ELSE row.first) \in Nat
  OBVIOUS
<1>2. \A n, k \in Nat : [row EXCEPT !.count = n, !.first = k]
                          \in [version : 0 .. MaxVersion, count : Nat, first : Nat]
  OBVIOUS
<1>3. Counted(row, id) = [row EXCEPT !.count = row.count + 1,
                                     !.first = IF row.count = 0 THEN id ELSE row.first]
  BY DEF Counted
<1>4. QED
  BY <1>1, <1>2, <1>3

LEMMA InitType == Init => TypeOK
<1> SUFFICES ASSUME Init PROVE TypeOK
  OBVIOUS
<1> USE MonitorAssumption DEF MonitorAssumption, Init
<1>1. /\ up \in BOOLEAN /\ mode \in Modes
      /\ active \subseteq Devices /\ checks \subseteq Check
  OBVIOUS
<1>8. epoch \in 0 .. MaxEpoch + 1 /\ era \in 0 .. MaxEra
  OBVIOUS
<1>2. /\ queue \in Seq(Devices) /\ alarms \in Seq(Alarm) /\ results \in Seq(Result)
  BY EmptySeq
<1>3. sched \in [phase : {"off", "sleeping", "sweeping", "stopping"},
                 pending : SUBSET Devices, rest : SUBSET Devices]
  BY DEF SchedOff, Sched
<1>4. device \in [Devices -> [active : BOOLEAN, ip : Addresses \cup {NoAddress},
                              version : 0 .. MaxVersion]]
  OBVIOUS
<1>5. streak \in [Devices \X Modes -> [version : 0 .. MaxVersion, count : Nat, first : Nat]]
  BY DEF NoStreak
<1>6. \A d \in Devices : ~device[d].active /\ ~Registered(d)
  BY DEF Registered
<1>7. QED
  BY <1>1, <1>2, <1>3, <1>4, <1>5, <1>6, <1>8 DEF TypeOK

\* The types of the tables, the shape of a check in flight and the shape of
\* the memory, as the lemmas below use them.
DeviceType == device \in [Devices -> [active : BOOLEAN, ip : Addresses \cup {NoAddress},
                                      version : 0 .. MaxVersion]]
StreakType == streak \in [Devices \X Modes ->
                            [version : 0 .. MaxVersion, count : Nat, first : Nat]]
SchedType  == sched \in [phase : {"off", "sleeping", "sweeping", "stopping"},
                         pending : SUBSET Devices, rest : SUBSET Devices]

LEMMA TypeCreateDevice ==
  ASSUME TypeOK, NEW d \in Devices, NEW ip \in Addresses, NEW act \in BOOLEAN,
         CreateDevice(d, ip, act)
  PROVE  TypeOK'
BY MonitorAssumption
   DEF TypeOK, MonitorAssumption, memory, SchedOff, Sched, Registered, CreateDevice

\* A new target version: the alarms and streaks of the device are written,
\* and the checks of the device are marked.
LEMMA TypeCloseDeviceAlarms ==
  ASSUME TypeOK, NEW d \in Devices,
         NEW reason \in {"target_changed", "device_deactivated"},
         CloseDeviceAlarms(d, reason)
  PROVE  alarms' \in Seq(Alarm) /\ StreakType'
<1>1. \A i \in DOMAIN alarms : alarms[i] \in Alarm
  BY DEF TypeOK
<1>2. \A i \in DOMAIN alarms :
        [alarms[i] EXCEPT !.status = "closed", !.reason = reason] \in Alarm
  BY <1>1, AlarmFields
<1>3. Len(alarms) \in Nat /\ DOMAIN alarms = 1 .. Len(alarms)
  BY DEF TypeOK
<1>4. alarms' \in [1 .. Len(alarms) -> Alarm]
  BY <1>1, <1>2, <1>3 DEF CloseDeviceAlarms
<1>5. alarms' \in Seq(Alarm)
  BY <1>3, <1>4, SeqDef
<1>6. StreakType'
  BY DEF CloseDeviceAlarms, TypeOK, StreakType
<1>7. QED
  BY <1>5, <1>6

LEMMA TypeDisturb ==
  ASSUME TypeOK, NEW S, Disturb(S)
  PROVE  checks' \subseteq Check
<1>1. \A c \in checks : [c EXCEPT !.disturbed = TRUE] \in Check
  BY CheckFields DEF TypeOK
<1>2. QED
  BY <1>1 DEF Disturb, TypeOK

LEMMA TypeUpdateDevice ==
  ASSUME TypeOK, NEW d \in Devices, NEW ip \in Addresses, NEW act \in BOOLEAN,
         UpdateDevice(d, ip, act)
  PROVE  TypeOK'
<1>1. alarms' \in Seq(Alarm) /\ StreakType'
  BY TypeCloseDeviceAlarms DEF UpdateDevice
<1>2. checks' \subseteq Check
  BY TypeDisturb DEF UpdateDevice
<1>3. DeviceType' /\ \A e \in Devices \ {d} : device'[e] = device[e]
  BY MonitorAssumption DEF MonitorAssumption, UpdateDevice, TypeOK, DeviceType, Registered
<1>4. device'[d].ip = ip /\ device'[d].active = act /\ Registered(d)'
  BY MonitorAssumption DEF MonitorAssumption, UpdateDevice, TypeOK, Registered
<1>5. /\ \A e \in Devices : device'[e].active => Registered(e)'
      /\ \A e \in Devices : Registered(e)' => device'[e].ip \in Addresses
  BY <1>3, <1>4 DEF TypeOK, Registered
<1>6. up /\ UNCHANGED <<up, mode, epoch, active, queue, sched, results, era>>
  BY DEF UpdateDevice
<1>7. QED
  BY <1>1, <1>2, <1>3, <1>5, <1>6 DEF TypeOK, StreakType, DeviceType

LEMMA TypeAcknowledge ==
  ASSUME TypeOK, NEW i \in DOMAIN alarms, Acknowledge(i)
  PROVE  TypeOK'
<1>1. [alarms[i] EXCEPT !.acked = TRUE] \in Alarm
  BY AlarmFields, AlarmRows
<1>2. alarms' = [alarms EXCEPT ![i] = [alarms[i] EXCEPT !.acked = TRUE]]
  BY DEF Acknowledge
<1>3. alarms' \in Seq(Alarm)
  BY <1>1, <1>2, ExceptSeq DEF TypeOK
<1>4. QED
  BY <1>3 DEF TypeOK, Acknowledge, memory, Registered, SchedOff

\* A check that begins is well formed: only a registered device is active.
LEMMA TypeBeginCheck ==
  ASSUME TypeOK, up, NEW d \in Devices, NEW src \in Sources, BeginCheck(d, src)
  PROVE  active' \subseteq Devices /\ checks' \subseteq Check /\ queue' \in Seq(Devices)
<1>1. /\ device[d].ip \in Addresses /\ device[d].version \in 1 .. MaxVersion
      /\ epoch \in 1 .. MaxEpoch + 1
  BY MonitorAssumption DEF MonitorAssumption, TypeOK, BeginCheck, Registered
<1>2. \A ph \in {"queued", "probing"} : NewCheck(d, src, ph) \in Check
  BY <1>1 DEF NewCheck, Check, TypeOK
<1>3. Append(queue, d) \in Seq(Devices)
  BY AppendType DEF TypeOK
<1>4. QED
  BY <1>2, <1>3 DEF BeginCheck, TypeOK

LEMMA TypeStartManual ==
  ASSUME TypeOK, NEW d \in Devices, StartManual(d)
  PROVE  TypeOK'
<1>1. active' \subseteq Devices /\ checks' \subseteq Check /\ queue' \in Seq(Devices)
  BY TypeBeginCheck DEF StartManual, Sources
<1>2. QED
  BY <1>1 DEF TypeOK, StartManual, database, Registered

LEMMA TypeSweepCheck ==
  ASSUME TypeOK, NEW d \in Devices, SweepCheck(d)
  PROVE  TypeOK'
<1>1. up
  BY DEF TypeOK, SweepCheck, SchedOff, Sched
<1>2. active' \subseteq Devices /\ checks' \subseteq Check /\ queue' \in Seq(Devices)
  BY <1>1, TypeBeginCheck DEF SweepCheck, Sources, TypeOK
<1>3. SchedType'
  BY DEF TypeOK, SweepCheck, SchedType
<1>4. QED
  BY <1>1, <1>2, <1>3 DEF TypeOK, SweepCheck, database, Registered, SchedType

LEMMA TypeGrantSlot ==
  ASSUME TypeOK, GrantSlot
  PROVE  TypeOK'
<1>1. \A c \in checks : [c EXCEPT !.phase = "probing"] \in Check
  BY CheckFields DEF TypeOK
<1>2. checks' \subseteq Check
  BY <1>1 DEF GrantSlot, TypeOK
<1>3. queue' \in Seq(Devices)
  BY HeadTailProperties DEF GrantSlot, TypeOK
<1>4. up
  BY DEF GrantSlot, TypeOK
<1>5. QED
  BY <1>2, <1>3, <1>4 DEF TypeOK, GrantSlot, database, Registered

\* evaluate_result keeps the types of the two tables it writes.
LEMMA TypeEvaluate ==
  ASSUME TypeOK, NEW c \in checks, NEW outcome \in Outcomes, NEW id \in Nat,
         Evaluate(c, outcome, id)
  PROVE  alarms' \in Seq(Alarm) /\ StreakType'
<1> DEFINE key == <<c.device, c.mode>>
<1>1. c \in Check
  BY DEF TypeOK
<1>2. /\ c.device \in Devices /\ c.ip \in Addresses /\ c.mode \in Modes
      /\ c.version \in 1 .. MaxVersion /\ key \in Devices \X Modes
  BY <1>1 DEF Check
<1>3. OpenAlarms(c.device, c.ip, c.mode) \subseteq DOMAIN alarms
  BY DEF OpenAlarms
<1>4. StreakFor(c) \in [version : 0 .. MaxVersion, count : Nat, first : Nat]
  <2>1. streak[key] \in [version : 0 .. MaxVersion, count : Nat, first : Nat]
    BY <1>2 DEF TypeOK
  <2>2. c.version \in 0 .. MaxVersion
    BY <1>2, MonitorAssumption DEF MonitorAssumption
  <2>3. QED
    BY <2>1, <2>2 DEF StreakFor, NoStreak
<1>5. CASE ~StillCurrent(c)
  BY <1>5 DEF Evaluate, TypeOK, StreakType
<1>6. CASE StillCurrent(c) /\ EvaluateNoReply(c, id)
  <2> DEFINE next == Counted(StreakFor(c), id)
             new  == [device |-> c.device, ip |-> c.ip, mode |-> c.mode,
                      first |-> next.first, opened |-> id, last |-> id,
                      status |-> "open", reason |-> "none", acked |-> FALSE]
  <2>1. next \in [version : 0 .. MaxVersion, count : Nat, first : Nat]
    BY <1>4, CountedType
  <2>2. StreakType'
    BY <1>2, <1>6, <2>1 DEF EvaluateNoReply, TypeOK, StreakType
  <2>3. new \in Alarm
    BY <1>2, <2>1 DEF Alarm
  <2>4. \A i \in DOMAIN alarms : [alarms[i] EXCEPT !.last = id] \in Alarm
    BY AlarmFields, AlarmRows
  <2>5. CASE \E i \in OpenAlarms(c.device, c.ip, c.mode) :
               alarms' = [alarms EXCEPT ![i].last = id]
    <3>1. PICK i \in DOMAIN alarms : alarms' = [alarms EXCEPT ![i].last = id]
      BY <1>3, <2>5
    <3>2. alarms' = [alarms EXCEPT ![i] = [alarms[i] EXCEPT !.last = id]]
      BY <3>1
    <3>3. QED
      BY <2>2, <2>4, <3>2, ExceptSeq, AlarmRows DEF TypeOK
  <2>6. CASE alarms' = Append(alarms, new)
    BY <2>2, <2>3, <2>6, AppendType DEF TypeOK
  <2>7. CASE UNCHANGED alarms
    BY <2>2, <2>7 DEF TypeOK
  <2>8. QED
    BY <1>6, <2>5, <2>6, <2>7 DEF EvaluateNoReply
<1>7. CASE StillCurrent(c) /\ EvaluateOther(c, outcome, id)
  <2>1. StreakType'
    <3>1. [version |-> c.version, count |-> 0, first |-> 0]
            \in [version : 0 .. MaxVersion, count : Nat, first : Nat]
      BY <1>2, MonitorAssumption DEF MonitorAssumption
    <3>2. QED
      BY <1>7, <3>1 DEF EvaluateOther, TypeOK, StreakType
  <2>2. \A i \in DOMAIN alarms :
          [alarms[i] EXCEPT !.status = "resolved", !.last = id,
                            !.reason = "reply_received"] \in Alarm
    BY AlarmFields, AlarmRows
  <2>3. CASE \E i \in OpenAlarms(c.device, c.ip, c.mode) :
               alarms' = [alarms EXCEPT ![i].status = "resolved",
                                        ![i].last = id,
                                        ![i].reason = "reply_received"]
    <3>1. PICK i \in DOMAIN alarms :
            alarms' = [alarms EXCEPT ![i].status = "resolved",
                                     ![i].last = id,
                                     ![i].reason = "reply_received"]
      BY <1>3, <2>3
    <3>2. alarms' = [alarms EXCEPT ![i] =
                       [alarms[i] EXCEPT !.status = "resolved", !.last = id,
                                         !.reason = "reply_received"]]
      BY <3>1 DEF TypeOK
    <3>3. QED
      BY <2>1, <2>2, <3>2, ExceptSeq, AlarmRows DEF TypeOK
  <2>4. CASE UNCHANGED alarms
    BY <2>1, <2>4 DEF TypeOK
  <2>5. QED
    BY <1>7, <2>3, <2>4 DEF EvaluateOther
<1>8. QED
  BY <1>5, <1>6, <1>7 DEF Evaluate

LEMMA TypeSave ==
  ASSUME TypeOK, NEW c \in checks, NEW outcome \in Outcomes, Save(c, outcome)
  PROVE  TypeOK'
<1> DEFINE row == [device |-> c.device, ip |-> c.ip, version |-> c.version,
                   mode |-> c.mode, outcome |-> outcome, current |-> StillCurrent(c),
                   era |-> era, disturbed |-> c.disturbed]
<1>1. up /\ era \in 1 .. MaxEra /\ Len(results) + 1 \in Nat /\ c \in Check
  BY MonitorAssumption DEF TypeOK, MonitorAssumption
<1>2. StillCurrent(c) \in BOOLEAN
  BY DEF StillCurrent
<1>3. row \in Result
  BY <1>1, <1>2 DEF Result, Check
<1>4. results' \in Seq(Result)
  BY <1>3, AppendType DEF Save, TypeOK
<1>5. alarms' \in Seq(Alarm) /\ StreakType'
  BY <1>1, TypeEvaluate DEF Save
<1>6. active' \subseteq Devices /\ checks' \subseteq Check
  BY DEF Save, Release, TypeOK
<1>7. QED
  BY <1>1, <1>4, <1>5, <1>6 DEF TypeOK, Save, Registered, StreakType

LEMMA TypeAbandon ==
  ASSUME TypeOK, NEW c \in checks, Abandon(c)
  PROVE  TypeOK'
BY DEF TypeOK, database, Registered, Abandon, Release

LEMMA TypeLeaveCancelled ==
  ASSUME TypeOK, NEW c \in checks, LeaveCancelled(c)
  PROVE  TypeOK'
<1>1. up
  BY DEF TypeOK
<1>2. queue' \in Seq(Devices)
  <2>1. CASE UNCHANGED queue
    BY <2>1 DEF TypeOK
  <2>2. CASE \E i \in 1 .. Len(queue) :
               queue' = SubSeq(queue, 1, i - 1) \o SubSeq(queue, i + 1, Len(queue))
    BY <2>2, RemoveOneType DEF TypeOK
  <2>3. QED
    BY <2>1, <2>2 DEF LeaveCancelled
<1>3. active' \subseteq Devices /\ checks' \subseteq Check
  BY DEF LeaveCancelled, Release, TypeOK
<1>4. QED
  BY <1>1, <1>2, <1>3 DEF TypeOK, LeaveCancelled, database, Registered

LEMMA TypeScheduler ==
  ASSUME TypeOK, StartScheduler \/ SweepBegin \/ SweepBatch \/ SweepEnd
  PROVE  TypeOK'
BY DEF TypeOK, database, SchedOff, Sched, Registered,
       StartScheduler, SweepBegin, SweepBatch, SweepEnd

LEMMA TypeStopBegin ==
  ASSUME TypeOK, StopBegin
  PROVE  TypeOK'
<1>1. \A c \in checks : [c EXCEPT !.cancelled = TRUE] \in Check
  BY CheckFields DEF TypeOK
<1>2. checks' \subseteq Check
  BY <1>1 DEF StopBegin, TypeOK
<1>3. up /\ SchedType'
  BY DEF StopBegin, TypeOK, SchedType, SchedOff, Sched
<1>4. QED
  BY <1>2, <1>3 DEF TypeOK, StopBegin, database, Registered, SchedType

\* reset_streaks keeps the rows and zeroes their counters.
LEMMA TypeResetStreaks ==
  ASSUME TypeOK, ResetStreaks
  PROVE  StreakType'
BY DEF TypeOK, ResetStreaks, StreakType

LEMMA TypeStopFinish ==
  ASSUME TypeOK, StopFinish
  PROVE  TypeOK'
<1>1. StreakType'
  BY TypeResetStreaks DEF StopFinish, Reset, StreakType, TypeOK
<1>2. checks' \subseteq Check
  BY TypeDisturb DEF StopFinish, Reset
<1>3. epoch' \in 1 .. MaxEpoch + 1 /\ era' \in 1 .. MaxEra
  BY MonitorAssumption DEF StopFinish, Reset, TypeOK, MonitorAssumption
<1>4. up /\ SchedType'
  BY DEF StopFinish, SchedType, SchedOff, Sched
<1>5. QED
  BY <1>1, <1>2, <1>3, <1>4 DEF TypeOK, StopFinish, Registered, SchedType, StreakType

LEMMA TypeBoot ==
  ASSUME TypeOK, NEW m \in Modes, Boot(m)
  PROVE  TypeOK'
<1>1. StreakType'
  BY TypeResetStreaks DEF Boot
<1>2. epoch' \in 1 .. MaxEpoch + 1 /\ era' \in 1 .. MaxEra /\ up' = TRUE
  BY MonitorAssumption DEF Boot, TypeOK, MonitorAssumption
<1>3. QED
  BY <1>1, <1>2 DEF TypeOK, Boot, Registered, StreakType

LEMMA TypeCrash ==
  ASSUME TypeOK, Crash
  PROVE  TypeOK'
<1>1. queue' \in Seq(Devices) /\ SchedType'
  BY EmptySeq DEF Crash, SchedType, SchedOff, Sched
<1>2. epoch' \in 0 .. MaxEpoch + 1 /\ up' = FALSE
  BY MonitorAssumption DEF Crash, MonitorAssumption
<1>3. /\ active' \subseteq Devices /\ checks' \subseteq Check
      /\ active' = {} /\ checks' = {} /\ queue' = <<>> /\ sched' = SchedOff'
  BY DEF Crash, SchedOff
<1>4. QED
  BY <1>1, <1>2, <1>3 DEF TypeOK, Crash, database, Registered, SchedType

LEMMA StepType == TypeOK /\ [Next]_vars => TypeOK'
<1>1. ASSUME TypeOK, UNCHANGED vars PROVE TypeOK'
  BY <1>1 DEF vars, memory, database, TypeOK, Registered
<1>2. QED
  BY <1>1, TypeCreateDevice, TypeUpdateDevice, TypeAcknowledge, TypeStartManual,
     TypeSweepCheck, TypeGrantSlot, TypeSave, TypeAbandon, TypeLeaveCancelled,
     TypeScheduler, TypeStopBegin, TypeStopFinish, TypeBoot, TypeCrash
     DEF Next, EndCheck

\* Monitor keeps the types of its tables and of the process memory.
THEOREM TypeCorrect == Spec => []TypeOK
<1>1. QED
  BY InitType, StepType, PTL DEF Spec

-----------------------------------------------------------------------------
(***************************************************************************)
(* Alarms.  A step either opens no alarm, or is the Save of a measurement  *)
(* that still speaks of its device and finds no open alarm of its target.  *)
(***************************************************************************)
NothingOpens ==
  /\ DOMAIN alarms' = DOMAIN alarms
  /\ \A i \in DOMAIN alarms :
       alarms'[i].status = "open" =>
         /\ alarms[i].status = "open"
         /\ alarms'[i].device = alarms[i].device
         /\ alarms'[i].ip = alarms[i].ip
         /\ alarms'[i].mode = alarms[i].mode

OpensOne(c) ==
  /\ StillCurrent(c)
  /\ OpenAlarms(c.device, c.ip, c.mode) = {}
  /\ DOMAIN alarms' = 1 .. Len(alarms) + 1
  /\ \A i \in 1 .. Len(alarms) : alarms'[i] = alarms[i]
  /\ alarms'[Len(alarms) + 1].device = c.device
  /\ alarms'[Len(alarms) + 1].ip = c.ip
  /\ alarms'[Len(alarms) + 1].mode = c.mode

LEMMA EvaluateOpens ==
  ASSUME TypeOK, NEW c \in checks, NEW outcome \in Outcomes, NEW id \in Nat,
         Evaluate(c, outcome, id)
  PROVE  NothingOpens \/ OpensOne(c)
<1>1. DOMAIN alarms = 1 .. Len(alarms) /\ Len(alarms) \in Nat
  BY DEF TypeOK
<1>2. OpenAlarms(c.device, c.ip, c.mode) \subseteq DOMAIN alarms
  BY DEF OpenAlarms
<1>3. \A i \in DOMAIN alarms : alarms[i] \in Alarm
  BY AlarmRows
<1>4. CASE UNCHANGED alarms
  BY <1>4 DEF NothingOpens
<1>5. CASE \E i \in OpenAlarms(c.device, c.ip, c.mode) :
             alarms' = [alarms EXCEPT ![i].last = id]
  <2>1. PICK i \in DOMAIN alarms : alarms' = [alarms EXCEPT ![i].last = id]
    BY <1>2, <1>5
  <2>2. alarms'[i] = [alarms[i] EXCEPT !.last = id]
    BY <2>1
  <2>3. /\ alarms'[i].status = alarms[i].status /\ alarms'[i].device = alarms[i].device
        /\ alarms'[i].ip = alarms[i].ip /\ alarms'[i].mode = alarms[i].mode
    BY <1>3, <2>2 DEF Alarm
  <2>4. QED
    BY <2>1, <2>3 DEF NothingOpens
<1>6. CASE \E i \in OpenAlarms(c.device, c.ip, c.mode) :
             alarms' = [alarms EXCEPT ![i].status = "resolved",
                                      ![i].last = id,
                                      ![i].reason = "reply_received"]
  <2>1. PICK i \in DOMAIN alarms :
          alarms' = [alarms EXCEPT ![i].status = "resolved",
                                   ![i].last = id,
                                   ![i].reason = "reply_received"]
    BY <1>2, <1>6
  <2>2. alarms' = [alarms EXCEPT ![i] =
                     [alarms[i] EXCEPT !.status = "resolved", !.last = id,
                                       !.reason = "reply_received"]]
    BY <2>1
  <2>3. alarms'[i].status = "resolved"
    BY <1>3, <2>2 DEF Alarm
  <2>4. QED
    BY <2>2, <2>3 DEF NothingOpens
<1>7. CASE /\ StillCurrent(c)
           /\ OpenAlarms(c.device, c.ip, c.mode) = {}
           /\ \E first \in {Counted(StreakFor(c), id).first} :
                alarms' = Append(alarms,
                 [device |-> c.device, ip |-> c.ip, mode |-> c.mode,
                  first |-> first, opened |-> id, last |-> id,
                  status |-> "open", reason |-> "none", acked |-> FALSE])
  BY <1>1, <1>7 DEF OpensOne
<1>8. QED
  BY <1>4, <1>5, <1>6, <1>7 DEF Evaluate, EvaluateNoReply, EvaluateOther

LEMMA CloseOpensNothing ==
  ASSUME TypeOK, NEW d \in Devices,
         NEW reason \in {"target_changed", "device_deactivated"},
         CloseDeviceAlarms(d, reason)
  PROVE  /\ NothingOpens
         /\ \A i \in DOMAIN alarms : alarms'[i].status = "open" => alarms[i].device # d
<1>1. \A i \in DOMAIN alarms : alarms[i] \in Alarm
  BY AlarmRows
<1>2. \A i \in DOMAIN alarms :
        [alarms[i] EXCEPT !.status = "closed", !.reason = reason].status = "closed"
  BY <1>1 DEF Alarm
<1>3. \A i \in DOMAIN alarms : alarms'[i].status = "open" => alarms'[i] = alarms[i]
  BY <1>2 DEF CloseDeviceAlarms
<1>4. \A i \in DOMAIN alarms : alarms'[i].status = "open" => alarms[i].device # d
  BY <1>2 DEF CloseDeviceAlarms, Closes
<1>5. QED
  BY <1>3, <1>4 DEF NothingOpens, CloseDeviceAlarms

LEMMA AcknowledgeOpensNothing ==
  ASSUME TypeOK, NEW i \in DOMAIN alarms, Acknowledge(i)
  PROVE  NothingOpens
<1>1. alarms' = [alarms EXCEPT ![i] = [alarms[i] EXCEPT !.acked = TRUE]]
  BY DEF Acknowledge
<1>2. alarms[i] \in Alarm
  BY AlarmRows
<1>3. /\ alarms'[i].status = alarms[i].status /\ alarms'[i].device = alarms[i].device
      /\ alarms'[i].ip = alarms[i].ip /\ alarms'[i].mode = alarms[i].mode
  BY <1>1, <1>2 DEF Alarm
<1>4. QED
  BY <1>1, <1>3 DEF NothingOpens

\* Every other action leaves the devices and the alarms alone.
LEMMA OtherActions ==
  ASSUME [Next]_vars,
         ~\E d \in Devices, ip \in Addresses, act \in BOOLEAN :
            CreateDevice(d, ip, act) \/ UpdateDevice(d, ip, act),
         ~\E i \in DOMAIN alarms : Acknowledge(i),
         ~\E c \in checks, outcome \in Outcomes : Save(c, outcome)
  PROVE  UNCHANGED <<device, alarms, results>>
BY DEF Next, vars, memory, database, EndCheck, StartManual, SweepCheck, GrantSlot,
       Abandon, LeaveCancelled, StartScheduler, SweepBegin, SweepBatch, SweepEnd,
       StopBegin, StopFinish, Boot, Crash

LEMMA TracksStep ==
  ASSUME TypeOK, OpenAlarmTracksTarget, [Next]_vars
  PROVE  OpenAlarmTracksTarget'
<1>1. \A i \in DOMAIN alarms : alarms[i].device \in Devices
  BY AlarmRows DEF Alarm
<1>2. ASSUME NothingOpens, UNCHANGED device PROVE OpenAlarmTracksTarget'
  BY <1>2 DEF NothingOpens, OpenAlarmTracksTarget
<1>3. ASSUME NEW d \in Devices, NEW ip \in Addresses, NEW act \in BOOLEAN,
             CreateDevice(d, ip, act)
      PROVE  OpenAlarmTracksTarget'
  <2>1. ~device[d].active /\ UNCHANGED alarms
    BY <1>3 DEF CreateDevice, TypeOK
  <2>2. \A e \in Devices \ {d} : device'[e] = device[e]
    BY <1>3 DEF CreateDevice, TypeOK
  <2>3. QED
    BY <1>1, <2>1, <2>2 DEF OpenAlarmTracksTarget
<1>4. ASSUME NEW d \in Devices, NEW ip \in Addresses, NEW act \in BOOLEAN,
             UpdateDevice(d, ip, act)
      PROVE  OpenAlarmTracksTarget'
  <2>1. PICK reason \in {"target_changed", "device_deactivated"} :
          CloseDeviceAlarms(d, reason)
    BY <1>4 DEF UpdateDevice
  <2>2. /\ NothingOpens
        /\ \A i \in DOMAIN alarms : alarms'[i].status = "open" => alarms[i].device # d
    BY <2>1, CloseOpensNothing
  <2>3. \A e \in Devices \ {d} : device'[e] = device[e]
    BY <1>4 DEF UpdateDevice, TypeOK
  <2>4. QED
    BY <1>1, <2>2, <2>3 DEF OpenAlarmTracksTarget, NothingOpens
<1>5. ASSUME NEW i \in DOMAIN alarms, Acknowledge(i)
      PROVE  OpenAlarmTracksTarget'
  BY <1>2, <1>5, AcknowledgeOpensNothing DEF Acknowledge
<1>6. ASSUME NEW c \in checks, NEW outcome \in Outcomes, Save(c, outcome)
      PROVE  OpenAlarmTracksTarget'
  <2>1. Len(results) + 1 \in Nat
    BY DEF TypeOK
  <2>2. NothingOpens \/ OpensOne(c)
    BY <1>6, <2>1, EvaluateOpens DEF Save
  <2>3. UNCHANGED device
    BY <1>6 DEF Save
  <2>4. CASE OpensOne(c)
    <3>1. DOMAIN alarms = 1 .. Len(alarms) /\ Len(alarms) \in Nat
      BY DEF TypeOK
    <3>2. device[c.device].active /\ device[c.device].ip = c.ip
      BY <2>4 DEF OpensOne, StillCurrent
    <3>3. QED
      BY <2>3, <2>4, <3>1, <3>2 DEF OpensOne, OpenAlarmTracksTarget
  <2>5. QED
    BY <1>2, <2>2, <2>3, <2>4
<1>7. CASE UNCHANGED <<device, alarms, results>>
  BY <1>2, <1>7 DEF NothingOpens
<1>8. QED
  BY <1>3, <1>4, <1>5, <1>6, <1>7, OtherActions

\* An open alarm always speaks of its device as it is: active, at the alarm's
\* IP -- whatever order measurements, updates, stops and crashes come in.
THEOREM AlarmsTrackTargets == Spec => []OpenAlarmTracksTarget
<1>1. Init => OpenAlarmTracksTarget
  BY DEF Init, OpenAlarmTracksTarget
<1>2. QED
  BY <1>1, TracksStep, TypeCorrect, PTL DEF Spec

-----------------------------------------------------------------------------
(***************************************************************************)
(* The alarms table is an alarm feed.                                      *)
(***************************************************************************)
Seen(a) == [device |-> a.device, ip |-> a.ip, mode |-> a.mode, status |-> a.status]

FeedOK ==
  /\ FeedAlarms \in Seq([device : Devices, ip : Addresses, mode : Modes,
                         status : {"open", "resolved", "closed"}])
  /\ DOMAIN FeedAlarms = DOMAIN alarms /\ Len(FeedAlarms) = Len(alarms)
  /\ \A i \in DOMAIN alarms : FeedAlarms[i] = Seen(alarms[i])

LEMMA FeedIs == TypeOK => FeedOK
<1>. SUFFICES ASSUME TypeOK PROVE FeedOK
  OBVIOUS
<1>1. /\ DOMAIN alarms = 1 .. Len(alarms) /\ Len(alarms) \in Nat
      /\ \A i \in DOMAIN alarms : alarms[i] \in Alarm
  BY AlarmRows DEF TypeOK
<1>2. \A i \in DOMAIN alarms : Seen(alarms[i]) \in
        [device : Devices, ip : Addresses, mode : Modes,
         status : {"open", "resolved", "closed"}]
  BY <1>1 DEF Alarm, Seen
<1>3. FeedAlarms = [i \in 1 .. Len(alarms) |-> Seen(alarms[i])]
  BY <1>1 DEF FeedAlarms, Seen
<1>4. QED
  BY <1>1, <1>2, <1>3 DEF FeedOK

LEMMA FeedIsNext == TypeOK' => FeedOK'
BY FeedIs, PTL

\* A table whose rows look the same is the same feed.
LEMMA SameFeed ==
  ASSUME DOMAIN alarms' = DOMAIN alarms,
         \A i \in DOMAIN alarms : Seen(alarms'[i]) = Seen(alarms[i])
  PROVE  FeedAlarms' = FeedAlarms
BY DEF FeedAlarms, Seen

\* A sequence that is another one and an element more is what Append makes.
LEMMA OneMore ==
  ASSUME NEW S, NEW F \in Seq(S), NEW G \in Seq(S), Len(G) = Len(F) + 1,
         \A k \in 1 .. Len(F) : G[k] = F[k]
  PROVE  G = Append(F, G[Len(F) + 1])
<1>. DEFINE x == G[Len(F) + 1]
           A == Append(F, x)
<1>1. Len(F) \in Nat
  OBVIOUS
<1>2. x \in S
  BY <1>1
<1>3. A \in Seq(S) /\ Len(A) = Len(F) + 1
  BY <1>2
<1>4. \A k \in 1 .. Len(F) + 1 : A[k] = G[k]
  BY <1>1, <1>2
<1>5. QED
  BY <1>3, <1>4

LEMMA EvaluateFeeds ==
  ASSUME TypeOK, TypeOK', OpenAlarmTracksTarget, NEW c \in checks, NEW outcome \in Outcomes,
         NEW id \in Nat, Evaluate(c, outcome, id), UNCHANGED device
  PROVE  Feed!Next \/ UNCHANGED FeedAlarms
<1>1. /\ DOMAIN alarms = 1 .. Len(alarms) /\ Len(alarms) \in Nat
      /\ \A i \in DOMAIN alarms : alarms[i] \in Alarm
  BY AlarmRows DEF TypeOK
<1>2. UNCHANGED FeedTarget
  BY DEF FeedTarget
<1>3. CASE UNCHANGED alarms
  BY <1>3 DEF FeedAlarms
<1>4. ASSUME NEW i \in OpenAlarms(c.device, c.ip, c.mode), alarms' = [alarms EXCEPT ![i].last = id]
      PROVE  UNCHANGED FeedAlarms
  <2>1. i \in DOMAIN alarms /\ alarms'[i] = [alarms[i] EXCEPT !.last = id]
    BY <1>4 DEF OpenAlarms
  <2>2. Seen(alarms'[i]) = Seen(alarms[i])
    BY <1>1, <2>1 DEF Alarm, Seen
  <2>3. QED
    BY <1>4, <2>1, <2>2, SameFeed
<1>5. ASSUME NEW i \in OpenAlarms(c.device, c.ip, c.mode),
             alarms' = [alarms EXCEPT ![i].status = "resolved", ![i].last = id,
                                      ![i].reason = "reply_received"]
      PROVE  Feed!Resolve(i) /\ i \in DOMAIN FeedAlarms
  <2>1. /\ i \in DOMAIN alarms /\ DOMAIN alarms' = DOMAIN alarms
        /\ alarms'[i] = [alarms[i] EXCEPT !.status = "resolved", !.last = id,
                                          !.reason = "reply_received"]
        /\ \A k \in DOMAIN alarms \ {i} : alarms'[k] = alarms[k]
    BY <1>5 DEF OpenAlarms
  <2>2. /\ FeedAlarms[i].device = alarms[i].device /\ FeedAlarms[i].ip = alarms[i].ip
        /\ FeedAlarms[i].status = "open" /\ alarms[i].status = "open"
        /\ i \in DOMAIN FeedAlarms
    BY <2>1, FeedIs DEF FeedOK, Seen, OpenAlarms, IsOpenFor
  <2>3. /\ alarms[i].device \in Devices
        /\ device[alarms[i].device].active /\ device[alarms[i].device].active \in BOOLEAN
        /\ device[alarms[i].device].ip = alarms[i].ip
    BY <1>1, <2>1, <2>2 DEF OpenAlarmTracksTarget, Alarm, TypeOK
  <2>4. FeedTarget[FeedAlarms[i].device] = [active |-> TRUE, ip |-> FeedAlarms[i].ip]
    BY <2>2, <2>3 DEF FeedTarget
  <2>5. Seen(alarms'[i]) = [Seen(alarms[i]) EXCEPT !.status = "resolved"]
    BY <1>1, <2>1 DEF Seen, Alarm
  <2>6. FeedAlarms' = [FeedAlarms EXCEPT ![i].status = "resolved"]
    <3>1. FeedAlarms' = [k \in DOMAIN alarms |-> Seen(alarms'[k])]
      BY <2>1 DEF FeedAlarms, Seen
    <3>2. FeedAlarms = [k \in DOMAIN alarms |-> Seen(alarms[k])]
      BY DEF FeedAlarms, Seen
    <3>3. QED
      BY <2>1, <2>5, <3>1, <3>2
  <2>7. QED
    BY <1>2, <2>2, <2>4, <2>6 DEF Feed!Resolve, Feed!IsOpenOf
<1>6. ASSUME NEW first, StillCurrent(c), OpenAlarms(c.device, c.ip, c.mode) = {},
             alarms' = Append(alarms,
                 [device |-> c.device, ip |-> c.ip, mode |-> c.mode,
                  first |-> first, opened |-> id, last |-> id,
                  status |-> "open", reason |-> "none", acked |-> FALSE])
      PROVE  Feed!Raise(c.device, c.mode) /\ c.device \in Devices /\ c.mode \in Modes
  <2>1. c.device \in Devices /\ c.mode \in Modes
    BY DEF TypeOK, Check
  <2>2. device[c.device].active /\ device[c.device].ip = c.ip
    BY <1>6 DEF StillCurrent
  <2>3. FeedTarget[c.device].active /\ FeedTarget[c.device].ip = c.ip
    BY <2>1, <2>2 DEF FeedTarget
  <2>4. ASSUME NEW i \in DOMAIN FeedAlarms, FeedAlarms[i].device = c.device,
               FeedAlarms[i].status = "open", FeedAlarms[i].mode = c.mode
        PROVE  FALSE
    <3>1. /\ i \in DOMAIN alarms /\ alarms[i].device = c.device
          /\ alarms[i].status = "open" /\ alarms[i].mode = c.mode
      BY <2>4, FeedIs DEF FeedOK, Seen
    <3>2. alarms[i].ip = c.ip
      BY <2>2, <3>1 DEF OpenAlarmTracksTarget
    <3>3. QED
      BY <1>6, <3>1, <3>2 DEF OpenAlarms, IsOpenFor
  <2>5. FeedAlarms' = Append(FeedAlarms, [device |-> c.device, ip |-> c.ip, mode |-> c.mode,
                                          status |-> "open"])
    <3>1. /\ DOMAIN alarms' = 1 .. Len(alarms) + 1
          /\ \A i \in 1 .. Len(alarms) : alarms'[i] = alarms[i]
          /\ Seen(alarms'[Len(alarms) + 1]) = [device |-> c.device, ip |-> c.ip,
                                               mode |-> c.mode, status |-> "open"]
      BY <1>1, <1>6 DEF Seen
    <3>. DEFINE S == [device : Devices, ip : Addresses, mode : Modes,
                      status : {"open", "resolved", "closed"}]
    <3>2. FeedAlarms \in Seq(S) /\ Len(FeedAlarms) = Len(alarms)
      BY FeedIs DEF FeedOK
    <3>3. FeedAlarms' \in Seq(S) /\ Len(FeedAlarms') = Len(alarms) + 1
      <4>1. Len(alarms') = Len(alarms) + 1
        BY <1>1, <1>6
      <4>2. QED
        BY <4>1, FeedIsNext DEF FeedOK
    <3>4. \A i \in DOMAIN alarms' : FeedAlarms'[i] = Seen(alarms'[i])
      BY FeedIsNext DEF FeedOK, Seen
    <3>5. \A i \in 1 .. Len(FeedAlarms) : FeedAlarms'[i] = FeedAlarms[i]
      <4>1. TAKE i \in 1 .. Len(FeedAlarms)
      <4>2. i \in DOMAIN alarms /\ i \in DOMAIN alarms' /\ alarms'[i] = alarms[i]
        BY <1>1, <3>1, <3>2
      <4>3. FeedAlarms[i] = Seen(alarms[i])
        BY <4>2, FeedIs DEF FeedOK
      <4>4. FeedAlarms'[i] = Seen(alarms'[i])
        BY <4>2, <3>4 DEF Seen
      <4>5. QED
        BY <4>2, <4>3, <4>4 DEF Seen
    <3>6. FeedAlarms' = Append(FeedAlarms, FeedAlarms'[Len(FeedAlarms) + 1])
      <4>. HIDE DEF S
      <4>1. QED
        BY <3>2, <3>3, <3>5, OneMore
    <3>7. QED
      BY <1>1, <3>1, <3>2, <3>4, <3>6
  <2>6. QED
    BY <1>2, <2>1, <2>3, <2>4, <2>5 DEF Feed!Raise, Feed!IsOpenOf
<1>7. QED
  BY <1>3, <1>4, <1>5, <1>6 DEF Evaluate, EvaluateNoReply, EvaluateOther, Feed!Next

\* A device that is not registered has no address.
Unplaced == \A d \in Devices : ~Registered(d) => device[d].ip = NoAddress

LEMMA UnplacedStep ==
  ASSUME TypeOK, Unplaced, [Next]_vars
  PROVE  Unplaced'
<1>1. CASE UNCHANGED device
  BY <1>1 DEF Unplaced, Registered
<1>2. ASSUME NEW d \in Devices, NEW ip \in Addresses, NEW act \in BOOLEAN,
             CreateDevice(d, ip, act) \/ UpdateDevice(d, ip, act)
      PROVE  Unplaced'
  <2>1. /\ device'[d].version > 0
        /\ \A e \in Devices \ {d} : device'[e] = device[e]
    BY <1>2 DEF CreateDevice, UpdateDevice, Registered, TypeOK
  <2>2. QED
    BY <2>1 DEF Unplaced, Registered
<1>3. QED
  BY <1>1, <1>2, OtherActions DEF Acknowledge, Save

LEMMA RetargetStep ==
  ASSUME TypeOK, OpenAlarmTracksTarget, Unplaced, NEW d \in Devices, NEW ip \in Addresses,
         NEW act \in BOOLEAN, CreateDevice(d, ip, act) \/ UpdateDevice(d, ip, act)
  PROVE  Feed!Next
<1>. DEFINE t == [active |-> act, ip |-> ip]
<1>1. /\ \A i \in DOMAIN alarms : alarms[i] \in Alarm
      /\ \A e \in Devices : device[e].active \in BOOLEAN
  BY AlarmRows DEF TypeOK
<1>2. FeedTarget' = [FeedTarget EXCEPT ![d] = t]
  <2>1. /\ \A e \in Devices \ {d} : device'[e] = device[e]
        /\ device'[d].active = act /\ device'[d].ip = ip
    BY DEF CreateDevice, UpdateDevice, TypeOK
  <2>2. QED
    BY <2>1 DEF FeedTarget
<1>3. t # FeedTarget[d]
  <2>1. device[d].ip # ip \/ device[d].active # act
    BY MonitorAssumption DEF CreateDevice, UpdateDevice, Unplaced
  <2>2. QED
    BY <2>1 DEF FeedTarget
<1>4. \A e \in Devices \ {d} : FeedTarget[e].ip # t.ip
  BY DEF CreateDevice, UpdateDevice, FeedTarget
<1>5. /\ DOMAIN alarms' = DOMAIN alarms
      /\ \A i \in DOMAIN alarms :
           Seen(alarms'[i]) = IF alarms[i].device = d /\ alarms[i].status = "open"
                              THEN [Seen(alarms[i]) EXCEPT !.status = "closed"] ELSE Seen(alarms[i])
  <2>1. CASE CreateDevice(d, ip, act)
    <3>1. ~device[d].active /\ alarms' = alarms
      BY <2>1 DEF CreateDevice, TypeOK
    <3>2. \A i \in DOMAIN alarms : ~(alarms[i].device = d /\ alarms[i].status = "open")
      BY <3>1 DEF OpenAlarmTracksTarget
    <3>3. QED
      BY <3>1, <3>2
  <2>2. CASE UpdateDevice(d, ip, act)
    <3>1. PICK reason : CloseDeviceAlarms(d, reason)
      BY <2>2 DEF UpdateDevice
    <3>2. \A i \in DOMAIN alarms :
            Seen([alarms[i] EXCEPT !.status = "closed", !.reason = reason]) =
              [Seen(alarms[i]) EXCEPT !.status = "closed"]
      BY <1>1 DEF Seen, Alarm
    <3>3. QED
      BY <3>1, <3>2 DEF CloseDeviceAlarms, Closes
  <2>3. QED
    BY <2>1, <2>2
<1>6. FeedAlarms' = [i \in DOMAIN FeedAlarms |->
                       IF Feed!IsOpenOf(FeedAlarms[i], d)
                       THEN [FeedAlarms[i] EXCEPT !.status = "closed"] ELSE FeedAlarms[i]]
  <2>1. FeedAlarms' = [i \in DOMAIN alarms |-> Seen(alarms'[i])]
    BY <1>5 DEF FeedAlarms, Seen
  <2>2. /\ DOMAIN FeedAlarms = DOMAIN alarms
        /\ \A i \in DOMAIN alarms : /\ FeedAlarms[i] = Seen(alarms[i])
                                    /\ FeedAlarms[i].device = alarms[i].device
                                    /\ FeedAlarms[i].status = alarms[i].status
    BY FeedIs DEF FeedOK, Seen
  <2>3. QED
    BY <1>5, <2>1, <2>2 DEF Feed!IsOpenOf
<1>7. t \in Feed!Targets
  BY DEF Feed!Targets
<1>8. Feed!Retarget(d, t)
  BY <1>2, <1>3, <1>4, <1>6 DEF Feed!Retarget
<1>9. QED
  BY <1>7, <1>8 DEF Feed!Next

LEMMA FeedStep ==
  ASSUME TypeOK, TypeOK', OpenAlarmTracksTarget, Unplaced, [Next]_vars
  PROVE  Feed!Next \/ UNCHANGED <<FeedTarget, FeedAlarms>>
<1>1. ASSUME NEW i \in DOMAIN alarms, Acknowledge(i)
      PROVE  UNCHANGED <<FeedTarget, FeedAlarms>>
  <2>1. /\ alarms' = [alarms EXCEPT ![i] = [alarms[i] EXCEPT !.acked = TRUE]]
        /\ device' = device /\ alarms[i] \in Alarm
    BY <1>1, AlarmRows DEF Acknowledge
  <2>2. Seen(alarms'[i]) = Seen(alarms[i])
    BY <2>1 DEF Seen, Alarm
  <2>3. FeedAlarms' = FeedAlarms
    BY <2>1, <2>2, SameFeed
  <2>4. QED
    BY <2>1, <2>3 DEF FeedTarget
<1>2. ASSUME NEW c \in checks, NEW outcome \in Outcomes, Save(c, outcome)
      PROVE  Feed!Next \/ UNCHANGED <<FeedTarget, FeedAlarms>>
  <2>1. Len(results) + 1 \in Nat
    BY DEF TypeOK
  <2>2. device' = device /\ Evaluate(c, outcome, Len(results) + 1)
    BY <1>2 DEF Save
  <2>3. Feed!Next \/ UNCHANGED FeedAlarms
    BY <2>1, <2>2, EvaluateFeeds
  <2>4. FeedTarget' = FeedTarget
    BY <2>2 DEF FeedTarget
  <2>5. QED
    BY <2>3, <2>4
<1>3. CASE UNCHANGED <<device, alarms, results>>
  BY <1>3 DEF FeedTarget, FeedAlarms
<1>4. QED
  BY <1>1, <1>2, <1>3, RetargetStep, OtherActions

\* The alarms table implements AlarmFeed: one alarm at a time, for a device as it
\* is, at most one open per mode, ended once, by a reply or with its target --
\* through late measurements, sweeps, stops, crashes and acknowledgements.
THEOREM ImplementsFeed == Spec => FeedSpec
<1>1. Init => Feed!Init /\ Unplaced
  <2>1. ASSUME Init
        PROVE  Feed!Init /\ Unplaced
    <3>1. /\ alarms = <<>>
          /\ \A d \in Devices : /\ device[d].active = FALSE /\ device[d].ip = NoAddress
                                /\ device[d].version = 0
      BY <2>1 DEF Init
    <3>2. FeedAlarms = <<>>
      BY <3>1 DEF FeedAlarms
    <3>3. FeedTarget \in [Devices -> Feed!Targets]
      BY <3>1 DEF FeedTarget, Feed!Targets
    <3>4. QED
      BY <3>1, <3>2, <3>3 DEF Feed!Init, Unplaced
  <2>2. QED
    BY <2>1
<1>2. TypeOK /\ TypeOK' /\ OpenAlarmTracksTarget /\ Unplaced /\ [Next]_vars
        => [Feed!Next]_<<FeedTarget, FeedAlarms>>
  BY FeedStep
<1>3. TypeOK /\ Unplaced /\ [Next]_vars => Unplaced'
  BY UnplacedStep
<1>4. QED
  BY <1>1, <1>2, <1>3, TypeCorrect, AlarmsTrackTargets, PTL DEF Spec, FeedSpec, Feed!Spec
-----------------------------------------------------------------------------
LEMMA OneOpenStep ==
  ASSUME TypeOK, OpenAlarmTracksTarget, OneOpenAlarm, [Next]_vars
  PROVE  OneOpenAlarm'
<1>1. ASSUME NothingOpens PROVE OneOpenAlarm'
  BY <1>1 DEF NothingOpens, OneOpenAlarm
<1>2. ASSUME NEW c \in checks, NEW outcome \in Outcomes, Save(c, outcome)
      PROVE  OneOpenAlarm'
  <2>1. Len(results) + 1 \in Nat
    BY DEF TypeOK
  <2>2. NothingOpens \/ OpensOne(c)
    BY <1>2, <2>1, EvaluateOpens DEF Save
  <2>3. CASE OpensOne(c)
    <3>1. DOMAIN alarms = 1 .. Len(alarms) /\ Len(alarms) \in Nat
      BY DEF TypeOK
    <3>2. device[c.device].ip = c.ip
      BY <2>3 DEF OpensOne, StillCurrent
    <3>3. \A i \in 1 .. Len(alarms) :
            ~(/\ alarms[i].status = "open"
              /\ alarms[i].device = c.device /\ alarms[i].mode = c.mode)
      BY <2>3, <3>1, <3>2
         DEF OpensOne, OpenAlarms, IsOpenFor, OpenAlarmTracksTarget
    <3>4. QED
      BY <2>3, <3>1, <3>3 DEF OpensOne, OneOpenAlarm
  <2>4. QED
    BY <1>1, <2>2, <2>3
<1>3. ASSUME NEW d \in Devices, NEW ip \in Addresses, NEW act \in BOOLEAN,
             CreateDevice(d, ip, act) \/ UpdateDevice(d, ip, act)
      PROVE  OneOpenAlarm'
  <2>1. CASE CreateDevice(d, ip, act)
    BY <1>1, <2>1 DEF CreateDevice, NothingOpens
  <2>2. CASE UpdateDevice(d, ip, act)
    <3>1. PICK reason \in {"target_changed", "device_deactivated"} :
            CloseDeviceAlarms(d, reason)
      BY <2>2 DEF UpdateDevice
    <3>2. QED
      BY <1>1, <3>1, CloseOpensNothing
  <2>3. QED
    BY <1>3, <2>1, <2>2
<1>4. ASSUME NEW i \in DOMAIN alarms, Acknowledge(i)
      PROVE  OneOpenAlarm'
  BY <1>1, <1>4, AcknowledgeOpensNothing
<1>5. CASE UNCHANGED <<device, alarms, results>>
  BY <1>1, <1>5 DEF NothingOpens
<1>6. QED
  BY <1>2, <1>3, <1>4, <1>5, OtherActions

\* No device has two open alarms in one mode: the lookup by IP that precedes
\* the opening finds every open alarm of the device because open alarms track
\* their targets.
THEOREM OpenAlarmsAreUnique == Spec => []OneOpenAlarm
<1>1. Init => OneOpenAlarm
  BY DEF Init, OneOpenAlarm
<1>2. QED
  BY <1>1, OneOpenStep, AlarmsTrackTargets, TypeCorrect, PTL DEF Spec

-----------------------------------------------------------------------------
(***************************************************************************)
(* Measurements.  What a check carries tells whether it was disturbed: an  *)
(* undisturbed check still speaks of the device, a disturbed one has an    *)
(* old epoch or an old target version, and neither ever comes back.        *)
(***************************************************************************)
Knows(c) ==
  /\ c.epoch <= epoch
  /\ c.version <= device[c.device].version
  /\ c.disturbed => c.epoch < epoch \/ c.version < device[c.device].version
  /\ ~c.disturbed => StillCurrent(c)

ChecksKnow == \A c \in checks : Knows(c)

LEMMA DisturbedFields ==
  ASSUME NEW c \in Check
  PROVE  LET b == [c EXCEPT !.disturbed = TRUE]
         IN  b.disturbed /\ b.epoch = c.epoch /\ b.version = c.version /\ b.device = c.device
BY DEF Check

LEMMA KnowsStep ==
  ASSUME TypeOK, ChecksKnow, [Next]_vars
  PROVE  ChecksKnow'
<1>1. \A c \in checks : c \in Check /\ c.device \in Devices /\ c.version \in Nat /\ c.epoch \in Nat
  BY MonitorAssumption DEF TypeOK, Check, MonitorAssumption
<1>2. epoch \in Nat /\ \A d \in Devices : device[d].version \in Nat
  BY MonitorAssumption DEF TypeOK, MonitorAssumption
<1>3. ASSUME checks' \subseteq checks, UNCHANGED <<epoch, device>>
      PROVE  ChecksKnow'
  BY <1>3 DEF ChecksKnow, Knows, StillCurrent
<1>4. ASSUME NEW d \in Devices, NEW ip \in Addresses, NEW act \in BOOLEAN,
             CreateDevice(d, ip, act)
      PROVE  ChecksKnow'
  <2>1. device[d].version = 0 /\ \A e \in Devices \ {d} : device'[e] = device[e]
    BY <1>2, <1>4 DEF CreateDevice, TypeOK, Registered
  <2>2. \A c \in checks : c.device # d
    BY <1>1, <1>2, <2>1 DEF TypeOK, Check, ChecksKnow, Knows
  <2>3. UNCHANGED <<checks, epoch>>
    BY <1>4 DEF CreateDevice, memory
  <2>4. QED
    BY <1>1, <2>1, <2>2, <2>3 DEF ChecksKnow, Knows, StillCurrent
<1>5. ASSUME NEW d \in Devices, NEW ip \in Addresses, NEW act \in BOOLEAN,
             UpdateDevice(d, ip, act)
      PROVE  ChecksKnow'
  <2>1. /\ device'[d].version = device[d].version + 1
        /\ \A e \in Devices \ {d} : device'[e] = device[e]
        /\ epoch' = epoch
    BY <1>5 DEF UpdateDevice, TypeOK
  <2>2. ASSUME NEW c \in checks, c.device = d
        PROVE  Knows([c EXCEPT !.disturbed = TRUE])'
    <3>1. c.version < device'[d].version
      BY <1>1, <1>2, <2>1, <2>2 DEF ChecksKnow, Knows
    <3>2. c.epoch <= epoch'
      BY <2>1 DEF ChecksKnow, Knows
    <3>3. QED
      BY <1>1, <1>2, <2>1, <2>2, <3>1, <3>2, DisturbedFields DEF Knows
  <2>3. ASSUME NEW c \in checks, c.device # d
        PROVE  Knows(c)'
    BY <1>1, <2>1, <2>3 DEF ChecksKnow, Knows, StillCurrent
  <2>4. QED
    BY <1>5, <2>2, <2>3 DEF UpdateDevice, Disturb, ChecksKnow
<1>6. ASSUME up, NEW d \in Devices, NEW src \in Sources, BeginCheck(d, src),
             UNCHANGED <<epoch, device>>
      PROVE  ChecksKnow'
  <2>1. ASSUME NEW c, NEW phase \in {"queued", "probing"}, c = NewCheck(d, src, phase)
        PROVE  Knows(c)'
    BY <1>2, <1>6, <2>1 DEF NewCheck, Knows, StillCurrent, BeginCheck
  <2>2. \A c \in checks : Knows(c)'
    BY <1>6 DEF ChecksKnow, Knows, StillCurrent
  <2>3. QED
    BY <1>6, <2>1, <2>2 DEF BeginCheck, ChecksKnow
<1>7. ASSUME NEW d \in Devices, StartManual(d) \/ SweepCheck(d)
      PROVE  ChecksKnow'
  <2>1. up
    BY <1>7 DEF TypeOK, StartManual, SweepCheck, SchedOff, Sched
  <2>2. UNCHANGED <<epoch, device>>
    BY <1>7 DEF StartManual, SweepCheck, database
  <2>3. CASE \E src \in Sources : BeginCheck(d, src)
    BY <1>6, <2>1, <2>2, <2>3
  <2>4. CASE UNCHANGED checks
    BY <1>3, <2>2, <2>4
  <2>5. QED
    BY <1>7, <2>3, <2>4 DEF StartManual, SweepCheck, Sources
<1>8. CASE GrantSlot
  <2>1. PICK c \in checks :
          checks' = (checks \ {c}) \cup {[c EXCEPT !.phase = "probing"]}
    BY <1>8 DEF GrantSlot
  <2>2. UNCHANGED <<epoch, device>>
    BY <1>8 DEF GrantSlot, database
  <2>3. Knows([c EXCEPT !.phase = "probing"])'
    BY <1>1, <2>2 DEF Check, ChecksKnow, Knows, StillCurrent
  <2>4. QED
    BY <2>1, <2>2, <2>3 DEF ChecksKnow, Knows, StillCurrent
<1>9. ASSUME NEW c \in checks, EndCheck(c)
      PROVE  ChecksKnow'
  BY <1>3, <1>9 DEF EndCheck, Save, Abandon, LeaveCancelled, Release, database
<1>10. CASE StopBegin
  <2>1. UNCHANGED <<epoch, device>>
    BY <1>10 DEF StopBegin, database
  <2>2. \A c \in checks : Knows([c EXCEPT !.cancelled = TRUE])'
    BY <1>1, <2>1 DEF Check, ChecksKnow, Knows, StillCurrent
  <2>3. \A c \in checks : Knows(c)'
    BY <2>1 DEF ChecksKnow, Knows, StillCurrent
  <2>4. QED
    BY <1>10, <2>2, <2>3 DEF StopBegin, ChecksKnow
<1>11. CASE StopFinish
  <2>1. epoch' = epoch + 1 /\ UNCHANGED device
    BY <1>11 DEF StopFinish, Reset
  <2>2. ASSUME NEW c \in checks
        PROVE  Knows([c EXCEPT !.disturbed = TRUE])'
    <3>1. c.epoch < epoch' /\ c.version <= device'[c.device].version
      BY <1>1, <1>2, <2>1 DEF ChecksKnow, Knows
    <3>2. QED
      BY <1>1, <1>2, <2>1, <3>1, DisturbedFields DEF Knows
  <2>3. QED
    BY <1>11, <2>2 DEF StopFinish, Reset, Disturb, ChecksKnow
<1>12. ASSUME NEW m \in Modes, Boot(m) \/ Crash
       PROVE  ChecksKnow'
  BY <1>12 DEF Boot, Crash, TypeOK, ChecksKnow
<1>13. ASSUME NEW i \in DOMAIN alarms, Acknowledge(i)
       PROVE  ChecksKnow'
  BY <1>3, <1>13 DEF Acknowledge, memory
<1>14. CASE StartScheduler \/ SweepBegin \/ SweepBatch \/ SweepEnd \/ UNCHANGED vars
  BY <1>3, <1>14 DEF StartScheduler, SweepBegin, SweepBatch, SweepEnd, vars, memory, database
<1>15. CASE Crash
  BY <1>15 DEF Crash, ChecksKnow
<1>16. QED
  BY <1>4, <1>5, <1>7, <1>8, <1>9, <1>10, <1>11, <1>12, <1>13, <1>14, <1>15 DEF Next

LEMMA CurrentStep ==
  ASSUME TypeOK, ChecksKnow, CurrentMeansUndisturbed, [Next]_vars
  PROVE  CurrentMeansUndisturbed'
<1>1. ASSUME NEW c \in checks, NEW outcome \in Outcomes, Save(c, outcome)
      PROVE  CurrentMeansUndisturbed'
  <2> DEFINE row == [device |-> c.device, ip |-> c.ip, version |-> c.version,
                     mode |-> c.mode, outcome |-> outcome, current |-> StillCurrent(c),
                     era |-> era, disturbed |-> c.disturbed]
  <2>1. results' = Append(results, row)
    BY <1>1 DEF Save
  <2>2. c \in Check /\ c.device \in Devices /\ c.version \in Nat /\ c.epoch \in Nat
    BY MonitorAssumption DEF TypeOK, Check, MonitorAssumption
  <2>3. epoch \in Nat /\ device[c.device].version \in Nat
    BY <2>2, MonitorAssumption DEF TypeOK, MonitorAssumption
  <2>4. c.disturbed => ~StillCurrent(c)
    BY <2>2, <2>3 DEF ChecksKnow, Knows, StillCurrent
  <2>5. StillCurrent(c) <=> ~c.disturbed
    BY <2>4 DEF ChecksKnow, Knows
  <2>6. row.current <=> ~row.disturbed
    BY <2>5
  <2>7. /\ DOMAIN results = 1 .. Len(results) /\ Len(results) \in Nat
        /\ DOMAIN results' = 1 .. Len(results) + 1
        /\ \A i \in 1 .. Len(results) : results'[i] = results[i]
        /\ results'[Len(results) + 1] = row
    <3> HIDE DEF row
    <3>1. QED
      BY <2>1 DEF TypeOK
  <2>8. QED
    BY <2>6, <2>7 DEF CurrentMeansUndisturbed
<1>2. CASE UNCHANGED results
  BY <1>2 DEF CurrentMeansUndisturbed
<1>3. (~\E c \in checks, outcome \in Outcomes : Save(c, outcome)) => UNCHANGED results
  BY OtherActions DEF CreateDevice, UpdateDevice, Acknowledge
<1>4. QED
  BY <1>1, <1>2, <1>3

\* A stored measurement is current exactly when neither its target changed
\* nor a reset happened while its probe was in flight; comparing the version
\* and the epoch is enough because both only grow.
THEOREM CurrentIsUndisturbed == Spec => []CurrentMeansUndisturbed
<1>1. Init => ChecksKnow /\ CurrentMeansUndisturbed
  BY DEF Init, ChecksKnow, CurrentMeansUndisturbed
<1>2. QED
  BY <1>1, KnowsStep, CurrentStep, TypeCorrect, PTL DEF Spec
-----------------------------------------------------------------------------
(***************************************************************************)
(* The life of an alarm: what a step may do to a row, action by action.    *)
(***************************************************************************)
SameAlarm(a, b) ==
  /\ <<a.device, a.ip, a.mode, a.first, a.opened>> = <<b.device, b.ip, b.mode, b.first, b.opened>>
  /\ a.acked => b.acked

Lived(i) ==
  LET a == alarms[i]
      b == alarms'[i]
  IN  /\ i \in DOMAIN alarms'
      /\ SameAlarm(a, b)
      /\ a.status # b.status =>
           /\ a.status = "open"
           /\ b.status = "resolved" =>
                LET r == results'[Len(results')]
                IN  /\ Len(results') = Len(results) + 1
                    /\ r.outcome = "reply" /\ r.current
                    /\ <<r.device, r.ip, r.mode>> = <<a.device, a.ip, a.mode>>
           /\ b.status = "closed" =>
                /\ device'[a.device].version > device[a.device].version
                /\ b.reason = "target_changed" <=> device'[a.device].ip # a.ip

LEMMA LivedUnchanged ==
  ASSUME NEW i \in DOMAIN alarms, i \in DOMAIN alarms',
         SameAlarm(alarms[i], alarms'[i]), alarms'[i].status = alarms[i].status
  PROVE  Lived(i)
BY DEF Lived

LEMMA LivedAcknowledge ==
  ASSUME TypeOK, NEW j \in DOMAIN alarms, Acknowledge(j), NEW i \in DOMAIN alarms
  PROVE  Lived(i)
<1>1. alarms' = [alarms EXCEPT ![j] = [alarms[j] EXCEPT !.acked = TRUE]]
  BY DEF Acknowledge
<1>2. \A k \in DOMAIN alarms : alarms[k] \in Alarm
  BY AlarmRows
<1>3. i \in DOMAIN alarms'
  BY <1>1
<1>4. CASE i = j
  <2>1. alarms'[i] = [alarms[i] EXCEPT !.acked = TRUE]
    BY <1>1, <1>4
  <2>2. SameAlarm(alarms[i], alarms'[i]) /\ alarms'[i].status = alarms[i].status
    BY <1>2, <2>1 DEF Alarm, SameAlarm
  <2>3. QED
    BY <1>3, <2>2, LivedUnchanged
<1>5. CASE i # j
  <2>1. alarms'[i] = alarms[i]
    BY <1>1, <1>5
  <2>2. QED
    BY <1>3, <2>1, LivedUnchanged DEF SameAlarm
<1>6. QED
  BY <1>4, <1>5

\* The reason tells the two causes apart because an open alarm has the
\* device's address.
LEMMA LivedUpdateDevice ==
  ASSUME TypeOK, OpenAlarmTracksTarget,
         NEW d \in Devices, NEW ip \in Addresses, NEW act \in BOOLEAN,
         UpdateDevice(d, ip, act), NEW i \in DOMAIN alarms
  PROVE  Lived(i)
<1> DEFINE reason == IF ip # device[d].ip THEN "target_changed" ELSE "device_deactivated"
<1>1. /\ alarms' = [k \in DOMAIN alarms |->
                      IF Closes(alarms[k], d, reason)
                      THEN [alarms[k] EXCEPT !.status = "closed", !.reason = reason]
                      ELSE alarms[k]]
  BY DEF UpdateDevice, CloseDeviceAlarms
<1>2. device'[d].version = device[d].version + 1 /\ device'[d].ip = ip
  BY DEF UpdateDevice, TypeOK
<1>3. device[d].version \in Nat
  BY MonitorAssumption DEF TypeOK, MonitorAssumption
<1>4. alarms[i] \in Alarm /\ i \in DOMAIN alarms'
  BY <1>1, AlarmRows
<1>5. CASE Closes(alarms[i], d, reason)
  <2>1. alarms'[i] = [alarms[i] EXCEPT !.status = "closed", !.reason = reason]
    BY <1>1, <1>5
  <2>2. /\ SameAlarm(alarms[i], alarms'[i])
        /\ alarms'[i].status = "closed" /\ alarms'[i].reason = reason
    BY <1>4, <2>1 DEF Alarm, SameAlarm
  <2>3. alarms[i].status = "open" /\ alarms[i].device = d /\ alarms[i].ip = device[d].ip
    BY <1>5 DEF Closes, OpenAlarmTracksTarget
  <2>4. device'[d].version > device[d].version
    BY <1>2, <1>3
  <2>5. reason = "target_changed" <=> device'[d].ip # alarms[i].ip
    BY <1>2, <2>3
  <2>6. QED
    BY <1>4, <2>2, <2>3, <2>4, <2>5 DEF Lived
<1>6. CASE ~Closes(alarms[i], d, reason)
  <2>1. alarms'[i] = alarms[i]
    BY <1>1, <1>6
  <2>2. QED
    BY <1>4, <2>1, LivedUnchanged DEF SameAlarm
<1>7. QED
  BY <1>5, <1>6

LEMMA LivedSave ==
  ASSUME TypeOK, NEW c \in checks, NEW outcome \in Outcomes, Save(c, outcome),
         NEW i \in DOMAIN alarms
  PROVE  Lived(i)
<1> DEFINE id  == Len(results) + 1
           row == [device |-> c.device, ip |-> c.ip, version |-> c.version,
                   mode |-> c.mode, outcome |-> outcome, current |-> StillCurrent(c),
                   era |-> era, disturbed |-> c.disturbed]
<1>1. /\ DOMAIN alarms = 1 .. Len(alarms) /\ Len(alarms) \in Nat
      /\ \A k \in DOMAIN alarms : alarms[k] \in Alarm
  BY AlarmRows DEF TypeOK
<1>2. Evaluate(c, outcome, id)
  BY DEF Save
<1>3. /\ Len(results') = Len(results) + 1
      /\ results'[Len(results')] = row
  <2>1. results' = Append(results, row)
    BY DEF Save
  <2> HIDE DEF row
  <2>2. QED
    BY <2>1 DEF TypeOK
<1>4. ASSUME alarms'[i] = alarms[i], i \in DOMAIN alarms'
      PROVE  Lived(i)
  BY <1>4, LivedUnchanged DEF SameAlarm
<1>5. ASSUME NEW j \in DOMAIN alarms, alarms' = [alarms EXCEPT ![j].last = id]
      PROVE  Lived(i)
  <2>1. alarms'[j] = [alarms[j] EXCEPT !.last = id] /\ i \in DOMAIN alarms'
    BY <1>5
  <2>2. SameAlarm(alarms[j], alarms'[j]) /\ alarms'[j].status = alarms[j].status
    BY <1>1, <2>1 DEF Alarm, SameAlarm
  <2>3. CASE i = j
    BY <2>1, <2>2, <2>3, LivedUnchanged
  <2>4. CASE i # j
    BY <1>4, <1>5, <2>1, <2>4
  <2>5. QED
    BY <2>3, <2>4
<1>6. ASSUME StillCurrent(c), outcome = "reply",
             NEW j \in OpenAlarms(c.device, c.ip, c.mode),
             alarms' = [alarms EXCEPT ![j] =
                          [alarms[j] EXCEPT !.status = "resolved", !.last = id,
                                            !.reason = "reply_received"]]
      PROVE  Lived(i)
  <2>1. /\ j \in DOMAIN alarms /\ alarms[j].status = "open"
        /\ <<alarms[j].device, alarms[j].ip, alarms[j].mode>> = <<c.device, c.ip, c.mode>>
    BY DEF OpenAlarms, IsOpenFor
  <2>2. SameAlarm(alarms[j], alarms'[j]) /\ alarms'[j].status = "resolved"
    <3>1. /\ alarms[j] \in Alarm
          /\ alarms'[j] = [alarms[j] EXCEPT !.status = "resolved", !.last = id,
                                            !.reason = "reply_received"]
      BY <1>1, <1>6, <2>1
    <3>2. QED
      BY <3>1 DEF Alarm, SameAlarm
  <2>3. /\ row.outcome = "reply" /\ row.current
        /\ <<row.device, row.ip, row.mode>> = <<c.device, c.ip, c.mode>>
    BY <1>6
  <2>4. i \in DOMAIN alarms'
    BY <1>6
  <2>5. CASE i = j
    <3> HIDE DEF row
    <3>1. QED
      BY <1>3, <2>1, <2>2, <2>3, <2>4, <2>5 DEF Lived
  <2>6. CASE i # j
    BY <1>4, <1>6, <2>4, <2>6
  <2>7. QED
    BY <2>5, <2>6
<1>7. ASSUME NEW new, alarms' = Append(alarms, new)
      PROVE  Lived(i)
  <2>1. alarms'[i] = alarms[i] /\ i \in DOMAIN alarms'
    BY <1>1, <1>7 DEF TypeOK
  <2>2. QED
    BY <1>4, <2>1
<1>8. CASE ~StillCurrent(c)
  BY <1>2, <1>4, <1>8 DEF Evaluate
<1>9. CASE StillCurrent(c) /\ EvaluateNoReply(c, id)
  BY <1>4, <1>5, <1>7, <1>9 DEF EvaluateNoReply, OpenAlarms
<1>10. CASE StillCurrent(c) /\ EvaluateOther(c, outcome, id)
  <2>1. CASE UNCHANGED alarms
    BY <1>4, <2>1
  <2>2. CASE /\ outcome = "reply"
             /\ \E j \in OpenAlarms(c.device, c.ip, c.mode) :
                  alarms' = [alarms EXCEPT ![j].status = "resolved",
                                           ![j].last = id,
                                           ![j].reason = "reply_received"]
    <3>1. PICK j \in OpenAlarms(c.device, c.ip, c.mode) :
            alarms' = [alarms EXCEPT ![j].status = "resolved",
                                     ![j].last = id,
                                     ![j].reason = "reply_received"]
      BY <2>2
    <3>2. alarms' = [alarms EXCEPT ![j] =
                       [alarms[j] EXCEPT !.status = "resolved", !.last = id,
                                         !.reason = "reply_received"]]
      BY <3>1
    <3>3. QED
      BY <1>6, <1>10, <2>2, <3>2
  <2>3. QED
    BY <1>10, <2>1, <2>2 DEF EvaluateOther, Resolves
<1>11. QED
  BY <1>2, <1>8, <1>9, <1>10 DEF Evaluate

LEMMA LivedStep ==
  ASSUME TypeOK, OpenAlarmTracksTarget, [Next]_vars
  PROVE  \A i \in DOMAIN alarms : Lived(i)
<1>1. ASSUME UNCHANGED alarms
      PROVE  \A i \in DOMAIN alarms : Lived(i)
  BY <1>1, LivedUnchanged DEF SameAlarm
<1>2. QED
  BY <1>1, LivedAcknowledge, LivedUpdateDevice, LivedSave, OtherActions DEF CreateDevice

\* An alarm keeps its identity, its opening and its acknowledgement; it ends
\* once: resolved by a recorded reply of its target, or closed by a change of
\* its device, with the reason that tells which.
THEOREM AlarmsEndOnce == Spec => AlarmLifecycle
<1>1. TypeOK /\ OpenAlarmTracksTarget /\ [Next]_vars => [\A i \in DOMAIN alarms : Lived(i)]_vars
  BY LivedStep
<1>2. (\A i \in DOMAIN alarms : Lived(i)) =>
        \A i \in DOMAIN alarms :
          LET a == alarms[i]
              b == alarms'[i]
          IN  /\ i \in DOMAIN alarms'
              /\ <<a.device, a.ip, a.mode, a.first, a.opened>> =
                   <<b.device, b.ip, b.mode, b.first, b.opened>>
              /\ a.acked => b.acked
              /\ a.status # b.status =>
                   /\ a.status = "open"
                   /\ b.status = "resolved" =>
                        LET r == results'[Len(results')]
                        IN  /\ Len(results') = Len(results) + 1
                            /\ r.outcome = "reply" /\ r.current
                            /\ <<r.device, r.ip, r.mode>> = <<a.device, a.ip, a.mode>>
                   /\ b.status = "closed" =>
                        /\ device'[a.device].version > device[a.device].version
                        /\ b.reason = "target_changed" <=> device'[a.device].ip # a.ip
  BY Zenon DEF Lived, SameAlarm
<1>3. QED
  BY <1>1, <1>2, TypeCorrect, AlarmsTrackTargets, PTL DEF Spec, AlarmLifecycle
-----------------------------------------------------------------------------
(***************************************************************************)
(* The tasks: the checks in flight, the marks of check() in                *)
(* _active_devices, the semaphore's queue, sweeps and stops.               *)
(***************************************************************************)

\* Marking a check or moving it on changes neither whose it is nor who asked.
LEMMA CheckKeeps ==
  ASSUME NEW c \in Check
  PROVE  /\ \A b \in {[c EXCEPT !.disturbed = TRUE], [c EXCEPT !.cancelled = TRUE]} :
              b.device = c.device /\ b.phase = c.phase /\ b.source = c.source
         /\ LET b == [c EXCEPT !.phase = "probing"]
            IN  b.device = c.device /\ b.phase = "probing" /\ b.source = c.source
BY DEF Check

\* The checks stay, one for one; only their flags may be written.
Relabelled ==
  \E F \in [checks -> checks'] :
    /\ checks' = {F[c] : c \in checks}
    /\ \A c \in checks : /\ F[c].device = c.device
                          /\ F[c].phase = c.phase
                          /\ F[c].source = c.source

LEMMA DisturbRelabels ==
  ASSUME TypeOK, NEW S, Disturb(S)
  PROVE  Relabelled
<1> DEFINE F == [c \in checks |-> IF c \in S THEN [c EXCEPT !.disturbed = TRUE] ELSE c]
<1>1. \A c \in checks :
        LET b == [c EXCEPT !.disturbed = TRUE]
        IN  b.device = c.device /\ b.phase = c.phase /\ b.source = c.source
  BY CheckKeeps DEF TypeOK
<1>2. checks' = {F[c] : c \in checks}
  BY DEF Disturb
<1>3. \A c \in checks : /\ F[c].device = c.device
                        /\ F[c].phase = c.phase
                        /\ F[c].source = c.source
  BY <1>1
<1>4. F \in [checks -> checks']
  BY <1>2
<1> HIDE DEF F
<1>5. QED
  BY <1>2, <1>3, <1>4 DEF Relabelled

LEMMA StopRelabels ==
  ASSUME TypeOK, StopBegin
  PROVE  Relabelled
<1> DEFINE F == [c \in checks |->
                   IF c.source = "scheduled" THEN [c EXCEPT !.cancelled = TRUE] ELSE c]
<1>1. \A c \in checks :
        LET b == [c EXCEPT !.cancelled = TRUE]
        IN  b.device = c.device /\ b.phase = c.phase /\ b.source = c.source
  BY CheckKeeps DEF TypeOK
<1>2. checks' = {F[c] : c \in checks}
  BY DEF StopBegin
<1>3. \A c \in checks : /\ F[c].device = c.device
                        /\ F[c].phase = c.phase
                        /\ F[c].source = c.source
  BY <1>1
<1>4. F \in [checks -> checks']
  BY <1>2
<1> HIDE DEF F
<1>5. QED
  BY <1>2, <1>3, <1>4 DEF Relabelled

\* A new check is of the device and the source it was begun for.
LEMMA NewCheckIs ==
  ASSUME NEW d, NEW src, NEW phase
  PROVE  LET b == NewCheck(d, src, phase)
         IN  b.device = d /\ b.phase = phase /\ b.source = src
BY DEF NewCheck

-----------------------------------------------------------------------------
(***************************************************************************)
(* Sweeps leave no check behind.                                           *)
(***************************************************************************)
LEMMA OrphanStep ==
  ASSUME TypeOK, NoOrphanScheduledChecks, [Next]_vars
  PROVE  NoOrphanScheduledChecks'
<1>1. \A c \in checks : c \in Check
  BY DEF TypeOK
<1>2. ASSUME UNCHANGED sched, \A b \in checks' : \E c \in checks : b.source = c.source
      PROVE  NoOrphanScheduledChecks'
  BY <1>2 DEF NoOrphanScheduledChecks, Scheduled
<1>3. ASSUME Relabelled
      PROVE  \A b \in checks' : \E c \in checks : b.source = c.source
  BY <1>3 DEF Relabelled
<1>4. ASSUME NEW d \in Devices, StartManual(d)
      PROVE  NoOrphanScheduledChecks'
  BY <1>4, NewCheckIs DEF StartManual, BeginCheck, NoOrphanScheduledChecks, Scheduled
<1>5. ASSUME NEW d \in Devices, SweepCheck(d)
      PROVE  NoOrphanScheduledChecks'
  <2>1. sched.phase \notin {"off", "sleeping"}
    BY <1>5 DEF SweepCheck, NoOrphanScheduledChecks
  <2>2. sched'.phase = sched.phase
    BY <1>5 DEF SweepCheck, TypeOK
  <2>3. QED
    BY <2>1, <2>2 DEF NoOrphanScheduledChecks
<1>6. CASE GrantSlot
  <2>1. PICK c \in checks :
          checks' = (checks \ {c}) \cup {[c EXCEPT !.phase = "probing"]}
    BY <1>6 DEF GrantSlot
  <2>2. [c EXCEPT !.phase = "probing"].source = c.source
    BY <1>1, CheckKeeps
  <2>3. UNCHANGED sched
    BY <1>6 DEF GrantSlot
  <2>4. \A b \in checks' : \E x \in checks : b.source = x.source
    BY <2>1, <2>2
  <2>5. QED
    BY <1>2, <2>3, <2>4
<1>7. ASSUME NEW c \in checks, EndCheck(c)
      PROVE  NoOrphanScheduledChecks'
  BY <1>2, <1>7 DEF EndCheck, Save, Abandon, LeaveCancelled, Release
<1>8. CASE StartScheduler \/ SweepEnd
  <2>1. Scheduled = {} /\ UNCHANGED checks
    BY <1>8 DEF StartScheduler, SweepEnd, NoOrphanScheduledChecks
  <2>2. sched'.pending = {} /\ sched'.rest = {}
    BY <1>8 DEF StartScheduler, SweepEnd, Sched
  <2>3. Scheduled' = {}
    BY <2>1 DEF Scheduled
  <2>4. QED
    BY <2>2, <2>3 DEF NoOrphanScheduledChecks
<1>9. CASE SweepBegin \/ SweepBatch \/ StopBegin
  BY <1>9 DEF SweepBegin, SweepBatch, StopBegin, Sched, NoOrphanScheduledChecks
<1>10. CASE StopFinish
  <2>1. \A b \in checks' : \E c \in checks : b.source = c.source
    BY <1>3, <1>10, DisturbRelabels DEF StopFinish, Reset
  <2>2. Scheduled' = {}
    BY <1>10, <2>1 DEF StopFinish, Scheduled
  <2>3. QED
    BY <1>10, <2>2 DEF StopFinish, SchedOff, Sched, NoOrphanScheduledChecks
<1>11. CASE Crash
  BY <1>11 DEF Crash, SchedOff, Sched, NoOrphanScheduledChecks, Scheduled
<1>12. ASSUME UNCHANGED <<checks, sched>>
       PROVE  NoOrphanScheduledChecks'
  BY <1>12 DEF NoOrphanScheduledChecks, Scheduled
<1>13. ASSUME NEW d \in Devices, NEW ip \in Addresses, NEW act \in BOOLEAN,
              CreateDevice(d, ip, act) \/ UpdateDevice(d, ip, act)
       PROVE  NoOrphanScheduledChecks'
  BY <1>2, <1>3, <1>12, <1>13, DisturbRelabels DEF CreateDevice, UpdateDevice, memory
<1>14. ASSUME \/ \E i \in DOMAIN alarms : Acknowledge(i)
              \/ \E m \in Modes : Boot(m)
              \/ UNCHANGED vars
       PROVE  NoOrphanScheduledChecks'
  BY <1>12, <1>14 DEF Acknowledge, Boot, vars, memory
<1>15. QED
  BY <1>4, <1>5, <1>6, <1>7, <1>8, <1>9, <1>10, <1>11, <1>13, <1>14 DEF Next

\* Outside of a sweep and of a stop in progress no scheduled check is in
\* flight: the sweep ends only when its batch is gathered, and stop() awaits
\* the task it cancelled before it resets the streaks.
THEOREM SweepsLeaveNothing == Spec => []NoOrphanScheduledChecks
<1>1. Init => NoOrphanScheduledChecks
  BY DEF Init, SchedOff, Sched, NoOrphanScheduledChecks, Scheduled
<1>2. QED
  BY <1>1, OrphanStep, TypeCorrect, PTL DEF Spec
-----------------------------------------------------------------------------
(***************************************************************************)
(* A device is checked by one task at a time.  ChecksAreExclusive is       *)
(* inductive as it stands; its parts, named:                               *)
(***************************************************************************)
DevicesOf(S) == {c.device : c \in S}
Queued       == {c \in checks : c.phase = "queued"}
InQueue      == {queue[i] : i \in DOMAIN queue}

Marked  == active = DevicesOf(checks)
Once    == \A b, c \in checks : b.device = c.device => b = c
Waiting == InQueue = DevicesOf(Queued)
Orderly == \A i, j \in DOMAIN queue : queue[i] = queue[j] => i = j
Slots   == Cardinality(Probing) <= MaxConcurrent

LEMMA ExclusiveParts ==
  ChecksAreExclusive <=> Marked /\ Once /\ Waiting /\ Orderly /\ Slots
BY DEF ChecksAreExclusive, Marked, Once, Waiting, Orderly, Slots, DevicesOf, Queued, InQueue

LEMMA ExclusivePartsNext ==
  ChecksAreExclusive' <=> Marked' /\ Once' /\ Waiting' /\ Orderly' /\ Slots'
BY DEF ChecksAreExclusive, Marked, Once, Waiting, Orderly, Slots, DevicesOf, Queued, InQueue

\* One check per device: there are no more checks than devices.
LEMMA FinitelyManyChecks ==
  ASSUME TypeOK, Once
  PROVE  /\ IsFiniteSet(checks)
         /\ IsFiniteSet(Probing) /\ Cardinality(Probing) \in Nat
<1> DEFINE f == [c \in checks |-> c.device]
<1>1. \A c \in checks : c.device \in Devices
  BY DEF TypeOK, Check
<1>2. f \in Injection(checks, Devices)
  BY <1>1 DEF Once, Injection, IsInjective
<1>3. IsFiniteSet(checks)
  BY <1>2, FS_Injection, MonitorAssumption DEF MonitorAssumption
<1>4. Probing \in SUBSET checks
  BY DEF Probing
<1>5. IsFiniteSet(Probing)
  BY <1>3, <1>4, FS_Subset
<1>6. QED
  BY <1>3, <1>5, FS_CardinalityType

\* The semaphore's queue as a set: its head leaves, its tail stays.
LEMMA QueueTail ==
  ASSUME TypeOK, Orderly, queue # <<>>, queue' = Tail(queue)
  PROVE  InQueue' = InQueue \ {Head(queue)} /\ Orderly' /\ Head(queue) \in InQueue
<1>1. Len(queue) \in Nat /\ Len(queue) > 0 /\ DOMAIN queue = 1 .. Len(queue)
  BY LenProperties, EmptySeq DEF TypeOK
<1>2. /\ queue' \in Seq(Devices) /\ Len(queue') = Len(queue) - 1
      /\ \A i \in 1 .. Len(queue') : queue'[i] = queue[i + 1]
  BY HeadTailProperties DEF TypeOK
<1>3. DOMAIN queue' = 1 .. Len(queue) - 1
  BY <1>2, LenProperties
<1>4. Head(queue) = queue[1]
  BY <1>1 DEF TypeOK
<1>5. Orderly'
  BY <1>1, <1>2, <1>3 DEF Orderly
<1>6. InQueue' \subseteq InQueue \ {queue[1]}
  BY <1>1, <1>2, <1>3 DEF InQueue, Orderly
<1>7. ASSUME NEW i \in 2 .. Len(queue)
      PROVE  queue[i] \in InQueue'
  <2>1. i - 1 \in 1 .. Len(queue) - 1 /\ queue'[i - 1] = queue[i]
    BY <1>1, <1>2
  <2>2. QED
    BY <1>3, <2>1 DEF InQueue
<1>8. InQueue \ {queue[1]} \subseteq InQueue'
  BY <1>1, <1>7 DEF InQueue
<1>9. queue[1] \in InQueue
  BY <1>1 DEF InQueue
<1>10. QED
  BY <1>4, <1>5, <1>6, <1>8, <1>9

LEMMA QueueAppend ==
  ASSUME TypeOK, Orderly, NEW d \in Devices, d \notin InQueue, queue' = Append(queue, d)
  PROVE  InQueue' = InQueue \cup {d} /\ Orderly'
<1>1. Len(queue) \in Nat /\ DOMAIN queue = 1 .. Len(queue)
  BY LenProperties DEF TypeOK
<1>2. /\ queue' \in Seq(Devices) /\ Len(queue') = Len(queue) + 1
      /\ \A i \in 1 .. Len(queue) : queue'[i] = queue[i]
      /\ queue'[Len(queue) + 1] = d
  BY AppendProperties DEF TypeOK
<1>3. DOMAIN queue' = 1 .. Len(queue) + 1
  BY <1>2, LenProperties
<1>4. QED
  BY <1>1, <1>2, <1>3 DEF InQueue, Orderly

\* What is left of a sequence without its i-th element.
LEMMA Before ==
  ASSUME NEW S, NEW q \in Seq(S), NEW i \in 1 .. Len(q)
  PROVE  LET p == SubSeq(q, 1, i - 1)
         IN  p \in Seq(S) /\ Len(p) = i - 1 /\ \A j \in 1 .. i - 1 : p[j] = q[j]
OBVIOUS

LEMMA After ==
  ASSUME NEW S, NEW q \in Seq(S), NEW i \in 1 .. Len(q)
  PROVE  LET p == SubSeq(q, i + 1, Len(q))
         IN  p \in Seq(S) /\ Len(p) = Len(q) - i /\ \A j \in 1 .. Len(q) - i : p[j] = q[i + j]
OBVIOUS

LEMMA Joined ==
  ASSUME NEW S, NEW q \in Seq(S), NEW r \in Seq(S)
  PROVE  LET p == q \o r
         IN  /\ p \in Seq(S) /\ Len(p) = Len(q) + Len(r)
             /\ \A j \in 1 .. Len(q) : p[j] = q[j]
             /\ \A j \in Len(q) + 1 .. Len(q) + Len(r) : p[j] = r[j - Len(q)]
OBVIOUS

LEMMA WithoutOne ==
  ASSUME NEW S, NEW q \in Seq(S), NEW i \in 1 .. Len(q)
  PROVE  LET p == SubSeq(q, 1, i - 1) \o SubSeq(q, i + 1, Len(q))
         IN  /\ p \in Seq(S) /\ Len(p) = Len(q) - 1
             /\ \A j \in 1 .. i - 1 : p[j] = q[j]
             /\ \A j \in i .. Len(q) - 1 : p[j] = q[j + 1]
<1> DEFINE l == SubSeq(q, 1, i - 1)
           r == SubSeq(q, i + 1, Len(q))
<1>1. Len(q) \in Nat /\ i \in Nat /\ 1 <= i /\ i <= Len(q)
  BY LenProperties
<1>2. l \in Seq(S) /\ Len(l) = i - 1 /\ \A j \in 1 .. i - 1 : l[j] = q[j]
  BY Before
<1>3. r \in Seq(S) /\ Len(r) = Len(q) - i /\ \A j \in 1 .. Len(q) - i : r[j] = q[i + j]
  BY After
<1> HIDE DEF l, r
<1>4. Len(l \o r) = Len(q) - 1 /\ l \o r \in Seq(S)
  BY <1>1, <1>2, <1>3
<1>5. \A j \in 1 .. i - 1 : (l \o r)[j] = q[j]
  BY <1>1, <1>2, <1>3
<1>6. ASSUME NEW j \in i .. Len(q) - 1
      PROVE  (l \o r)[j] = q[j + 1]
  <2>1. (l \o r)[j] = r[j - (i - 1)]
    BY <1>1, <1>2, <1>3
  <2>2. j - (i - 1) \in 1 .. Len(q) - i /\ i + (j - (i - 1)) = j + 1
    BY <1>1
  <2>3. QED
    BY <1>3, <2>1, <2>2
<1>7. QED
  BY <1>4, <1>5, <1>6 DEF l, r

LEMMA OthersStay ==
  ASSUME NEW S, NEW q \in Seq(S), NEW i \in 1 .. Len(q)
  PROVE  LET w == SubSeq(q, 1, i - 1) \o SubSeq(q, i + 1, Len(q))
         IN  /\ w \in Seq(S) /\ Len(w) = Len(q) - 1
             /\ \A j \in 1 .. Len(w) : \E k \in 1 .. Len(q) : k # i /\ w[j] = q[k]
             /\ \A j \in 1 .. Len(q) : j # i => \E k \in 1 .. Len(w) : w[k] = q[j]
             /\ (\A j, k \in 1 .. Len(q) : q[j] = q[k] => j = k)
                  => \A j, k \in 1 .. Len(w) : w[j] = w[k] => j = k
<1> DEFINE n == Len(q)
           p == SubSeq(q, 1, i - 1) \o SubSeq(q, i + 1, Len(q))
<1>0. n \in Nat /\ i \in 1 .. n
  BY LenProperties
<1>a. /\ p \in Seq(S) /\ Len(p) = n - 1
      /\ \A j \in 1 .. i - 1 : p[j] = q[j]
      /\ \A j \in i .. n - 1 : p[j] = q[j + 1]
  BY WithoutOne
<1> HIDE DEF n, p
<1> DEFINE old(j) == IF j < i THEN j ELSE j + 1
<1>1. \A j \in 1 .. n - 1 : old(j) \in 1 .. n /\ old(j) # i
  BY <1>0
<1>2. \A j \in 1 .. n - 1 : p[j] = q[old(j)]
  <2> TAKE j \in 1 .. n - 1
  <2>1. CASE j < i
    <3>1. j \in 1 .. i - 1
      BY <1>0, <2>1
    <3>2. QED
      BY <1>a, <2>1, <3>1
  <2>2. CASE ~(j < i)
    <3>1. j \in i .. n - 1
      BY <1>0, <2>2
    <3>2. QED
      BY <1>a, <2>2, <3>1
  <2>3. QED
    BY <1>0, <2>1, <2>2
<1>3. \A j, k \in 1 .. n - 1 : old(j) = old(k) => j = k
  BY <1>0
<1>4. \A j \in 1 .. n : j # i => \E k \in 1 .. n - 1 : old(k) = j
  <2> TAKE j \in 1 .. n
  <2> HAVE j # i
  <2>1. CASE j < i
    <3>1. j \in 1 .. n - 1 /\ old(j) = j
      BY <1>0, <2>1
    <3>2. QED
      BY <3>1
  <2>2. CASE j > i
    <3>1. j - 1 \in 1 .. n - 1 /\ old(j - 1) = j
      BY <1>0, <2>2
    <3>2. QED
      BY <3>1
  <2>3. QED
    BY <1>0, <2>1, <2>2
<1> HIDE DEF old
<1>5. ASSUME \A j, k \in 1 .. n : q[j] = q[k] => j = k
      PROVE  \A j, k \in 1 .. n - 1 : p[j] = p[k] => j = k
  BY <1>1, <1>2, <1>3, <1>5
<1>6. \A j \in 1 .. n - 1 : \E k \in 1 .. n : k # i /\ p[j] = q[k]
  BY <1>1, <1>2
<1>7. ASSUME NEW j \in 1 .. n, j # i
      PROVE  \E k \in 1 .. n - 1 : p[k] = q[j]
  <2>1. PICK k \in 1 .. n - 1 : old(k) = j
    BY <1>4, <1>7
  <2>2. QED
    BY <1>2, <2>1
<1>8. QED
  BY <1>a, <1>5, <1>6, <1>7 DEF n, p

\* A cancelled waiter leaves from the middle of the queue.
LEMMA QueueRemove ==
  ASSUME TypeOK, Orderly, NEW i \in 1 .. Len(queue),
         queue' = SubSeq(queue, 1, i - 1) \o SubSeq(queue, i + 1, Len(queue))
  PROVE  InQueue' = InQueue \ {queue[i]} /\ Orderly'
<1>1. PICK q : q = queue
  OBVIOUS
<1>2. PICK p : p = queue'
  OBVIOUS
<1>3. q \in Seq(Devices) /\ i \in 1 .. Len(q) /\ Len(q) \in Nat
  BY <1>1, LenProperties DEF TypeOK
<1>4. LET w == SubSeq(q, 1, i - 1) \o SubSeq(q, i + 1, Len(q))
      IN  /\ w \in Seq(Devices) /\ Len(w) = Len(q) - 1
          /\ \A j \in 1 .. Len(w) : \E k \in 1 .. Len(q) : k # i /\ w[j] = q[k]
          /\ \A j \in 1 .. Len(q) : j # i => \E k \in 1 .. Len(w) : w[k] = q[j]
          /\ (\A j, k \in 1 .. Len(q) : q[j] = q[k] => j = k)
               => \A j, k \in 1 .. Len(w) : w[j] = w[k] => j = k
  BY <1>3, OthersStay
<1>5. p = SubSeq(q, 1, i - 1) \o SubSeq(q, i + 1, Len(q))
  BY <1>1, <1>2
<1>6. p \in Seq(Devices) /\ DOMAIN q = 1 .. Len(q) /\ DOMAIN p = 1 .. Len(p)
  BY <1>3, <1>4, <1>5, LenProperties
<1>7. \A j, k \in DOMAIN q : q[j] = q[k] => j = k
  BY <1>1 DEF Orderly
<1>8. /\ \A j \in DOMAIN p : \E k \in DOMAIN q : k # i /\ p[j] = q[k]
      /\ \A j \in DOMAIN q : j # i => \E k \in DOMAIN p : p[k] = q[j]
      /\ \A j, k \in DOMAIN p : p[j] = p[k] => j = k
  BY <1>4, <1>5, <1>6, <1>7
<1> HIDE <1>4, <1>5
<1>9. i \in DOMAIN q /\ \A k \in DOMAIN q : k # i => q[k] # q[i]
  BY <1>3, <1>6, <1>7
<1>10. \A x : (\E j \in DOMAIN p : x = p[j]) <=> x # q[i] /\ \E k \in DOMAIN q : x = q[k]
  <2>1. ASSUME NEW j \in DOMAIN p
        PROVE  p[j] # q[i] /\ \E k \in DOMAIN q : p[j] = q[k]
    <3>1. PICK k \in DOMAIN q : k # i /\ p[j] = q[k]
      BY <1>8
    <3>2. QED
      BY <1>9, <3>1, Zenon
  <2>2. ASSUME NEW k \in DOMAIN q, q[k] # q[i]
        PROVE  \E j \in DOMAIN p : q[k] = p[j]
    <3>1. k # i
      BY <2>2, Zenon
    <3>2. PICK j \in DOMAIN p : p[j] = q[k]
      BY <1>8, <3>1, Zenon
    <3>3. QED
      BY <3>2, Zenon
  <2>3. QED
    BY <2>1, <2>2, Zenon
<1>11. {p[j] : j \in DOMAIN p} = {q[j] : j \in DOMAIN q} \ {q[i]}
  BY <1>10, Zenon
<1>12. InQueue = {q[j] : j \in DOMAIN q} /\ InQueue' = {p[j] : j \in DOMAIN p}
  BY <1>1, <1>2, Zenon DEF InQueue
<1>13. Orderly'
  BY <1>2, <1>8, Zenon DEF Orderly
<1>14. QED
  BY <1>1, <1>11, <1>12, <1>13, Zenon

\* An update of the device or a stop marks checks and moves none.
LEMMA ExclusiveRelabel ==
  ASSUME TypeOK, ChecksAreExclusive, Relabelled, UNCHANGED <<active, queue>>
  PROVE  ChecksAreExclusive'
<1>1. PICK F \in [checks -> checks'] :
        /\ checks' = {F[c] : c \in checks}
        /\ \A c \in checks : F[c].device = c.device /\ F[c].phase = c.phase
  BY DEF Relabelled
<1>2. Marked /\ Once /\ Waiting /\ Orderly /\ Slots
  BY ExclusiveParts
<1>3. DevicesOf(checks') = DevicesOf(checks)
  BY <1>1 DEF DevicesOf
<1>4. Marked' /\ Orderly'
  BY <1>2, <1>3 DEF Marked, Orderly, DevicesOf
<1>5. Once'
  BY <1>1, <1>2 DEF Once
<1>6. DevicesOf(Queued)' = DevicesOf(Queued) /\ InQueue' = InQueue
  BY <1>1 DEF DevicesOf, Queued, InQueue
<1>7. Waiting'
  BY <1>2, <1>6 DEF Waiting
<1>8. Slots'
  <2> DEFINE G == [c \in Probing |-> F[c]]
  <2>1. G \in Surjection(Probing, Probing')
    BY <1>1 DEF Surjection, Probing
  <2>2. IsFiniteSet(Probing) /\ Cardinality(Probing) \in Nat
    BY <1>2, FinitelyManyChecks
  <2>3. IsFiniteSet(Probing') /\ Cardinality(Probing') <= Cardinality(Probing)
    BY <2>1, <2>2, FS_Surjection
  <2>4. Cardinality(Probing') \in Nat
    BY <2>3, FS_CardinalityType
  <2>5. QED
    BY <1>2, <2>2, <2>3, <2>4, MonitorAssumption DEF Slots, MonitorAssumption
<1>10. QED
  BY <1>4, <1>5, <1>7, <1>8, ExclusivePartsNext

\* A check begins only for a device no check in flight is about.
LEMMA ExclusiveBegin ==
  ASSUME TypeOK, ChecksAreExclusive, NEW d \in Devices, NEW src, BeginCheck(d, src)
  PROVE  ChecksAreExclusive'
<1>1. Marked /\ Once /\ Waiting /\ Orderly /\ Slots
  BY ExclusiveParts
<1>2. PICK b : /\ checks' = checks \cup {b} /\ b.device = d
               /\ \/ b.phase = "probing" /\ SlotFree /\ UNCHANGED queue
                  \/ b.phase = "queued" /\ queue' = Append(queue, d)
  BY NewCheckIs DEF BeginCheck
<1>3. d \notin active /\ active' = active \cup {d}
  BY DEF BeginCheck, Busy
<1>4. \A c \in checks : c.device # d
  BY <1>1, <1>3 DEF Marked, DevicesOf
<1>5. Marked'
  BY <1>1, <1>2, <1>3 DEF Marked, DevicesOf
<1>6. Once'
  BY <1>1, <1>2, <1>4 DEF Once
<1>7. IsFiniteSet(Probing) /\ Cardinality(Probing) \in Nat
  BY <1>1, FinitelyManyChecks
<1>9. CASE b.phase = "probing" /\ SlotFree /\ UNCHANGED queue
  <2>1. Queued' = Queued /\ Probing' = Probing \cup {b}
    BY <1>2, <1>9 DEF Queued, Probing
  <2>2. Waiting' /\ Orderly'
    BY <1>1, <1>9, <2>1 DEF Waiting, Orderly, InQueue, DevicesOf
  <2>3. Cardinality(Probing \cup {b}) <= Cardinality(Probing) + 1
    BY <1>7, FS_AddElement
  <2>4. Cardinality(Probing \cup {b}) \in Nat
    BY <1>7, FS_AddElement, FS_CardinalityType
  <2>5. Slots'
    BY <1>7, <1>9, <2>1, <2>3, <2>4, MonitorAssumption DEF Slots, SlotFree, MonitorAssumption
  <2>6. QED
    BY <1>5, <1>6, <2>2, <2>5, ExclusivePartsNext
<1>10. CASE b.phase = "queued" /\ queue' = Append(queue, d)
  <2>1. Queued' = Queued \cup {b} /\ Probing' = Probing
    BY <1>2, <1>10 DEF Queued, Probing
  <2>2. d \notin InQueue
    BY <1>1, <1>4 DEF Waiting, DevicesOf, Queued
  <2>3. InQueue' = InQueue \cup {d} /\ Orderly'
    BY <1>1, <1>10, <2>2, QueueAppend
  <2>4. DevicesOf(Queued)' = DevicesOf(Queued) \cup {d}
    BY <1>2, <2>1 DEF DevicesOf
  <2>5. Waiting'
    BY <1>1, <2>3, <2>4 DEF Waiting
  <2>6. Slots'
    BY <1>1, <2>1 DEF Slots
  <2>7. QED
    BY <1>5, <1>6, <2>3, <2>5, <2>6, ExclusivePartsNext
<1>11. QED
  BY <1>2, <1>9, <1>10

\* The head of the queue is a check that waits; with a free slot it probes.
LEMMA ExclusiveGrant ==
  ASSUME TypeOK, ChecksAreExclusive, GrantSlot
  PROVE  ChecksAreExclusive'
<1>1. Marked /\ Once /\ Waiting /\ Orderly /\ Slots
  BY ExclusiveParts
<1>2. PICK c \in checks :
        /\ c.device = Head(queue)
        /\ checks' = (checks \ {c}) \cup {[c EXCEPT !.phase = "probing"]}
  BY DEF GrantSlot
<1>3. PICK b : b = [c EXCEPT !.phase = "probing"]
  OBVIOUS
<1>4. b.device = c.device /\ b.phase = "probing" /\ checks' = (checks \ {c}) \cup {b}
  BY <1>2, <1>3, CheckKeeps DEF TypeOK
<1>5. /\ InQueue' = InQueue \ {c.device} /\ Orderly'
      /\ c.device \in InQueue
  BY <1>1, <1>2, QueueTail DEF GrantSlot
<1>6. c.phase = "queued"
  BY <1>1, <1>2, <1>5 DEF Waiting, DevicesOf, Queued, Once
<1>7. Marked'
  <2>1. DevicesOf(checks') = DevicesOf(checks)
    BY <1>2, <1>4 DEF DevicesOf
  <2>2. UNCHANGED active
    BY DEF GrantSlot
  <2>3. QED
    BY <1>1, <2>1, <2>2 DEF Marked, DevicesOf
<1>8. Once'
  BY <1>1, <1>2, <1>4 DEF Once
<1>9. Queued' = Queued \ {c} /\ Probing' = Probing \cup {b}
  BY <1>2, <1>4, <1>6 DEF Queued, Probing
<1>10. Waiting'
  <2>1. DevicesOf(Queued \ {c}) = DevicesOf(Queued) \ {c.device}
    BY <1>1, <1>2 DEF DevicesOf, Queued, Once
  <2>2. DevicesOf(Queued)' = DevicesOf(Queued) \ {c.device}
    BY <1>9, <2>1 DEF DevicesOf
  <2>3. QED
    BY <1>1, <1>5, <2>2 DEF Waiting
<1>11. Slots'
  <2>1. IsFiniteSet(Probing) /\ Cardinality(Probing) \in Nat
    BY <1>1, FinitelyManyChecks
  <2>2. Cardinality(Probing \cup {b}) <= Cardinality(Probing) + 1
    BY <2>1, FS_AddElement
  <2>3. Cardinality(Probing \cup {b}) \in Nat
    BY <2>1, FS_AddElement, FS_CardinalityType
  <2>4. Cardinality(Probing) < MaxConcurrent
    BY DEF GrantSlot
  <2>5. QED
    BY <1>9, <2>1, <2>2, <2>3, <2>4, MonitorAssumption DEF Slots, MonitorAssumption
<1>12. QED
  BY <1>5, <1>7, <1>8, <1>10, <1>11, ExclusivePartsNext

\* A check ends: it gives back its slot or its place in the queue, and its
\* mark; nobody else's.
LEMMA ExclusiveRelease ==
  ASSUME TypeOK, ChecksAreExclusive, NEW c \in checks, Release(c),
         \/ c.phase = "probing" /\ UNCHANGED queue
         \/ /\ c.phase = "queued"
            /\ \E i \in 1 .. Len(queue) :
                 /\ queue[i] = c.device
                 /\ queue' = SubSeq(queue, 1, i - 1) \o SubSeq(queue, i + 1, Len(queue))
  PROVE  ChecksAreExclusive'
<1>1. Marked /\ Once /\ Waiting /\ Orderly /\ Slots
  BY ExclusiveParts
<1>2. checks' = checks \ {c} /\ active' = active \ {c.device}
  BY DEF Release
<1>3. Marked'
  BY <1>1, <1>2 DEF Marked, Once, DevicesOf
<1>4. Once'
  BY <1>1, <1>2 DEF Once
<1>5. Slots'
  <2>1. Probing' \in SUBSET Probing
    BY <1>2 DEF Probing
  <2>2. IsFiniteSet(Probing) /\ Cardinality(Probing) \in Nat
    BY <1>1, FinitelyManyChecks
  <2>3. Cardinality(Probing') <= Cardinality(Probing) /\ Cardinality(Probing') \in Nat
    BY <2>1, <2>2, FS_Subset, FS_CardinalityType
  <2>4. QED
    BY <1>1, <2>2, <2>3, MonitorAssumption DEF Slots, MonitorAssumption
<1>6. CASE c.phase = "probing" /\ UNCHANGED queue
  <2>1. Queued' = Queued
    BY <1>2, <1>6 DEF Queued
  <2>2. Waiting' /\ Orderly'
    BY <1>1, <1>6, <2>1 DEF Waiting, Orderly, InQueue, DevicesOf
  <2>3. QED
    BY <1>3, <1>4, <1>5, <2>2, ExclusivePartsNext
<1>7. CASE /\ c.phase = "queued"
           /\ \E i \in 1 .. Len(queue) :
                /\ queue[i] = c.device
                /\ queue' = SubSeq(queue, 1, i - 1) \o SubSeq(queue, i + 1, Len(queue))
  <2>1. InQueue' = InQueue \ {c.device} /\ Orderly'
    BY <1>1, <1>7, QueueRemove
  <2>2. DevicesOf(Queued)' = DevicesOf(Queued) \ {c.device}
    BY <1>1, <1>2 DEF DevicesOf, Queued, Once
  <2>3. Waiting'
    BY <1>1, <2>1, <2>2 DEF Waiting
  <2>4. QED
    BY <1>3, <1>4, <1>5, <2>1, <2>3, ExclusivePartsNext
<1>8. QED
  BY <1>6, <1>7

LEMMA ExclusiveStep ==
  ASSUME TypeOK, ChecksAreExclusive, [Next]_vars
  PROVE  ChecksAreExclusive'
<1>1. ASSUME UNCHANGED <<active, checks, queue>>
      PROVE  ChecksAreExclusive'
  BY <1>1 DEF ChecksAreExclusive, Probing
<1>2. ASSUME NEW d \in Devices, NEW ip \in Addresses, NEW act \in BOOLEAN,
             CreateDevice(d, ip, act) \/ UpdateDevice(d, ip, act)
      PROVE  ChecksAreExclusive'
  BY <1>1, <1>2, DisturbRelabels, ExclusiveRelabel DEF CreateDevice, UpdateDevice, memory
<1>3. ASSUME NEW d \in Devices, StartManual(d) \/ SweepCheck(d)
      PROVE  ChecksAreExclusive'
  BY <1>1, <1>3, ExclusiveBegin DEF StartManual, SweepCheck
<1>4. CASE GrantSlot
  BY <1>4, ExclusiveGrant
<1>5. ASSUME NEW c \in checks, EndCheck(c)
      PROVE  ChecksAreExclusive'
  BY <1>5, ExclusiveRelease DEF EndCheck, Save, Abandon, LeaveCancelled
<1>6. CASE StopBegin
  BY <1>6, StopRelabels, ExclusiveRelabel DEF StopBegin
<1>7. CASE StopFinish
  BY <1>7, DisturbRelabels, ExclusiveRelabel DEF StopFinish, Reset
<1>8. CASE Crash
  <2>1. active' = {} /\ checks' = {} /\ queue' = <<>>
    BY <1>8 DEF Crash
  <2>2. Cardinality({}) = 0
    BY FS_EmptySet
  <2>3. QED
    BY <2>1, <2>2, MonitorAssumption DEF ChecksAreExclusive, Probing, MonitorAssumption
<1>9. ASSUME \/ \E i \in DOMAIN alarms : Acknowledge(i)
             \/ \E m \in Modes : Boot(m)
             \/ StartScheduler \/ SweepBegin \/ SweepBatch \/ SweepEnd
             \/ UNCHANGED vars
      PROVE  ChecksAreExclusive'
  BY <1>1, <1>9 DEF Acknowledge, Boot, StartScheduler, SweepBegin, SweepBatch, SweepEnd,
                    vars, memory
<1>10. QED
  BY <1>2, <1>3, <1>4, <1>5, <1>6, <1>7, <1>8, <1>9 DEF Next

\* A device is checked by one task at a time, whoever asks for it: its mark
\* and its place in the queue belong to exactly one check in flight, and
\* never more checks probe than there are slots.
THEOREM OneCheckPerDevice == Spec => []ChecksAreExclusive
<1>1. Init => ChecksAreExclusive
  <2>1. Cardinality({}) = 0
    BY FS_EmptySet
  <2>2. QED
    BY <2>1, MonitorAssumption DEF Init, ChecksAreExclusive, Probing, MonitorAssumption
<1>2. QED
  BY <1>1, ExclusiveStep, TypeCorrect, PTL DEF Spec
=============================================================================
