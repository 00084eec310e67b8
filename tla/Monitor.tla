------------------------------- MODULE Monitor -------------------------------
(***************************************************************************)
(* The monitoring core of AvIT-Data: the device API, the monitoring        *)
(* service that probes a device and records the measurement, the alarm     *)
(* rules that are evaluated inside the recording transaction, the          *)
(* fixed-delay sweep scheduler with its start and stop, and process        *)
(* crashes and boots.                                                      *)
(*                                                                         *)
(* The database (device, streak, alarms, results) survives a crash; the    *)
(* memory of the process (mode, epoch, active, checks, queue, sched) does  *)
(* not.  A measurement has no transaction open while the probe is in       *)
(* flight: what was read before the probe (IP, target version, epoch,      *)
(* mode) is carried in a check record and compared when it is saved.       *)
(*                                                                         *)
(* Measurement ids and alarm ids are positions of the sequences results    *)
(* and alarms; a time stored by the code (first_no_reply_at, opened_at,    *)
(* last_observed_at) is the id of the measurement whose checked_at it is.  *)
(*                                                                         *)
(* An operator whose comment starts with "Mistake:" is no part of the      *)
(* specification: it is the operator after it with one plausible bug, and  *)
(* PROJECT.json names the property that the bug breaks.                    *)
(***************************************************************************)
EXTENDS Naturals, Sequences, FiniteSets

CONSTANTS
  Devices,        \* device ids
  Addresses,      \* IP addresses a device may be given
  Modes,          \* probe modes the process may be configured with
  NoAddress,      \* the address of a device that is not registered
  Threshold,      \* settings.alarm_threshold
  MaxConcurrent,  \* settings.max_concurrent_checks
  MaxResults,     \* bound: measurements recorded or in flight
  MaxVersion,     \* bound: target_version of a device
  MaxEpoch,       \* bound: MonitoringService.epoch of one process
  MaxEra          \* bound: streak resets over all processes

ASSUME MonitorAssumption ==
  /\ IsFiniteSet(Devices)
  /\ NoAddress \notin Addresses
  /\ Threshold \in Nat \ {0}
  /\ MaxConcurrent \in Nat \ {0}
  /\ MaxResults \in Nat
  /\ MaxVersion \in Nat \ {0}
  /\ MaxEpoch \in Nat
  /\ MaxEra \in Nat

VARIABLES
  (* memory of the process *)
  up,        \* the process runs
  mode,      \* provider.mode, fixed while the process runs
  epoch,     \* MonitoringService.epoch
  active,    \* MonitoringService._active_devices
  checks,    \* check_and_record calls between their snapshot and their end
  queue,     \* FIFO of the devices whose check waits for the semaphore
  sched,     \* the scheduler task: phase, batch not yet started, ids left
  (* database *)
  device,    \* the devices table
  streak,    \* the monitor_states table
  alarms,    \* the alarms table
  results,   \* the monitoring_results table
  (* history, read by the properties only *)
  era        \* number of committed streak resets

memory   == <<up, mode, epoch, active, checks, queue, sched>>
database == <<device, streak, alarms, results>>
vars     == <<memory, database, era>>

Outcomes == {"reply", "no_reply", "error"}
Sources  == {"manual", "scheduled"}
-----------------------------------------------------------------------------
(* Helpers.                                                                *)

Registered(d) == device[d].version > 0

\* Mistake: a check marks its device only once it has the semaphore.
BusyWhenProbing(d) == \E c \in checks : c.device = d /\ c.phase = "probing"

Busy(d)       == d \in active
Scheduled     == {c \in checks : c.source = "scheduled"}
Probing       == {c \in checks : c.phase = "probing"}

\* Mistake: an acknowledged alarm is not found.
IsUnseenFor(a, d, ip, m) ==
  <<a.device, a.ip, a.mode, a.status>> = <<d, ip, m, "open">> /\ ~a.acked

IsOpenFor(a, d, ip, m) ==
  a.device = d /\ a.ip = ip /\ a.mode = m /\ a.status = "open"

\* Ids of the open alarms of a target in one mode.
OpenAlarms(d, ip, m) == {i \in DOMAIN alarms : IsOpenFor(alarms[i], d, ip, m)}

\* A monitor_states row that does not exist counts nothing.
NoStreak == [version |-> 0, count |-> 0, first |-> 0]

\* History: every check of S saw its target or its epoch change.
Disturb(S) ==
  checks' = {IF c \in S THEN [c EXCEPT !.disturbed = TRUE] ELSE c : c \in checks}

\* Measurements recorded, in flight, or promised to the running sweep: the
\* quantity MaxResults bounds, so that no started check meets the bound.
Committed ==
  Len(results) + Cardinality(checks)
    + Cardinality(sched.pending) + Cardinality(sched.rest)

\* Mistake: a pending streak survives stops and boots.
KeepStreaks == UNCHANGED streak

\* reset_streaks: one UPDATE without WHERE.
ResetStreaks ==
  streak' = [k \in DOMAIN streak |-> [streak[k] EXCEPT !.count = 0, !.first = 0]]

Closes(a, d, reason) == a.device = d /\ a.status = "open"

\* close_device_alarms: every open alarm of the device, whatever its mode.
CloseDeviceAlarms(d, reason) ==
  /\ alarms' = [i \in DOMAIN alarms |->
                  IF Closes(alarms[i], d, reason)
                  THEN [alarms[i] EXCEPT !.status = "closed", !.reason = reason]
                  ELSE alarms[i]]
  /\ streak' = [k \in DOMAIN streak |->
                  IF k[1] = d THEN [streak[k] EXCEPT !.count = 0, !.first = 0]
                              ELSE streak[k]]
-----------------------------------------------------------------------------
(* The device API and the alarm API.                                       *)

\* POST /api/devices; ip_address is unique.
CreateDevice(d, ip, act) ==
  /\ up
  /\ ~Registered(d)
  /\ \A e \in Devices : device[e].ip # ip
  /\ device' = [device EXCEPT ![d] = [active |-> act, ip |-> ip, version |-> 1]]
  /\ UNCHANGED <<memory, streak, alarms, results, era>>

\* PATCH /api/devices/{id} that moves the device or switches it on or off.
\* (A PATCH of other fields changes nothing that is modelled.)
UpdateDevice(d, ip, act) ==
  LET moved   == ip # device[d].ip
      toggled == act # device[d].active
  IN  /\ up
      /\ Registered(d)
      /\ device[d].version < MaxVersion
      /\ \A e \in Devices \ {d} : device[e].ip # ip
      /\ moved \/ toggled
      /\ device' = [device EXCEPT ![d] = [active  |-> act,
                                          ip      |-> ip,
                                          version |-> @.version + 1]]
      /\ CloseDeviceAlarms(d, IF moved THEN "target_changed" ELSE "device_deactivated")
      /\ Disturb({c \in checks : c.device = d})
      /\ UNCHANGED <<up, mode, epoch, active, queue, sched, results, era>>

\* POST /api/alarms/{id}/acknowledge: once, whatever the status.
Acknowledge(i) ==
  /\ up
  /\ ~alarms[i].acked
  /\ alarms' = [alarms EXCEPT ![i].acked = TRUE]
  /\ UNCHANGED <<memory, device, streak, results, era>>
-----------------------------------------------------------------------------
(* MonitoringService.                                                      *)

\* What check_and_record reads before the probe.  Taking the semaphore does
\* not wait when a slot is free and nobody queues.
NewCheck(d, src, phase) ==
  [device |-> d, ip |-> device[d].ip, version |-> device[d].version,
   epoch |-> epoch, mode |-> mode, source |-> src, phase |-> phase,
   cancelled |-> FALSE, disturbed |-> FALSE]

SlotFree == Cardinality(Probing) < MaxConcurrent /\ queue = <<>>

BeginCheck(d, src) ==
  /\ device[d].active
  /\ ~Busy(d)
  /\ active' = active \cup {d}
  /\ \/ /\ SlotFree
        /\ checks' = checks \cup {NewCheck(d, src, "probing")}
        /\ UNCHANGED queue
     \/ /\ ~SlotFree
        /\ checks' = checks \cup {NewCheck(d, src, "queued")}
        /\ queue' = Append(queue, d)

\* POST /api/devices/{id}/check.  (A refusal, 409, changes no modelled state.)
StartManual(d) ==
  /\ up
  /\ Committed < MaxResults
  /\ BeginCheck(d, "manual")
  /\ UNCHANGED <<up, mode, epoch, sched, database, era>>

\* The semaphore wakes its waiters in arrival order.
GrantSlot ==
  /\ queue # <<>>
  /\ Cardinality(Probing) < MaxConcurrent
  /\ \E c \in checks :
       /\ c.device = Head(queue)
       /\ ~c.cancelled
       /\ checks' = (checks \ {c}) \cup {[c EXCEPT !.phase = "probing"]}
  /\ queue' = Tail(queue)
  /\ UNCHANGED <<up, mode, epoch, active, sched, database, era>>

\* The way out of check(): leave the semaphore, discard the device.
Release(c) ==
  /\ checks' = checks \ {c}
  /\ active' = active \ {c.device}

\* Mistake: the target is compared by its address, not by its version.
StillSameAddress(c) ==
  /\ c.epoch = epoch
  /\ device[c.device].active
  /\ device[c.device].ip = c.ip

\* evaluate_result, first part: does the measurement still speak of the
\* device as it is now?
StillCurrent(c) ==
  /\ c.epoch = epoch
  /\ device[c.device].active
  /\ device[c.device].version = c.version
  /\ device[c.device].ip = c.ip

\* The streak row the measurement adds to: a row of an older target version,
\* or none, starts again from zero.
StreakFor(c) ==
  LET row == streak[<<c.device, c.mode>>]
  IN  IF row.version = c.version THEN row ELSE [NoStreak EXCEPT !.version = c.version]

\* Mistake: one no_reply too late.
BeyondThreshold(count) == count > Threshold

ThresholdReached(count) == count >= Threshold

\* Mistake: first_no_reply_at is overwritten.
CountedWithLatest(row, id) == [row EXCEPT !.count = @ + 1, !.first = id]

Counted(row, id) ==
  [row EXCEPT !.count = @ + 1, !.first = IF row.count = 0 THEN id ELSE @]

EvaluateNoReply(c, id) ==
  LET next == Counted(StreakFor(c), id)
      open == OpenAlarms(c.device, c.ip, c.mode)
  IN  /\ streak' = [streak EXCEPT ![<<c.device, c.mode>>] = next]
      /\ \/ \E i \in open : alarms' = [alarms EXCEPT ![i].last = id]
         \/ /\ open = {}
            /\ ThresholdReached(next.count)
            /\ alarms' = Append(alarms,
                 [device |-> c.device, ip |-> c.ip, mode |-> c.mode,
                  first |-> next.first, opened |-> id, last |-> id,
                  status |-> "open", reason |-> "none", acked |-> FALSE])
         \/ /\ open = {}
            /\ ~ThresholdReached(next.count)
            /\ UNCHANGED alarms

\* Mistake: a technical error resolves the alarm as well.
ResolvesUnlessSilent(outcome) == outcome # "no_reply"

Resolves(outcome) == outcome = "reply"

EvaluateOther(c, outcome, id) ==
  LET open == OpenAlarms(c.device, c.ip, c.mode)
  IN  /\ streak' = [streak EXCEPT ![<<c.device, c.mode>>] =
                      [version |-> c.version, count |-> 0, first |-> 0]]
      /\ \/ /\ Resolves(outcome)
            /\ \E i \in open :
                 alarms' = [alarms EXCEPT ![i].status = "resolved",
                                          ![i].last = id,
                                          ![i].reason = "reply_received"]
         \/ /\ ~Resolves(outcome) \/ open = {}
            /\ UNCHANGED alarms

Evaluate(c, outcome, id) ==
  \/ /\ ~StillCurrent(c)
     /\ UNCHANGED <<streak, alarms>>
  \/ /\ StillCurrent(c)
     /\ outcome = "no_reply"
     /\ EvaluateNoReply(c, id)
  \/ /\ StillCurrent(c)
     /\ outcome # "no_reply"
     /\ EvaluateOther(c, outcome, id)

\* The probe ended: one BEGIN IMMEDIATE transaction inserts the measurement
\* and evaluates it; then the slot and the device are released.
Save(c, outcome) ==
  /\ c.phase = "probing"
  /\ ~c.cancelled
  /\ results' = Append(results,
       [device |-> c.device, ip |-> c.ip, version |-> c.version,
        mode |-> c.mode, outcome |-> outcome, current |-> StillCurrent(c),
        era |-> era, disturbed |-> c.disturbed])
  /\ Evaluate(c, outcome, Len(results) + 1)
  /\ Release(c)
  /\ UNCHANGED <<up, mode, epoch, queue, sched, device, era>>

\* The target is not in the allow-list, or the transaction fails and rolls
\* back: nothing is recorded, the device is released all the same.
Abandon(c) ==
  /\ c.phase = "probing"
  /\ ~c.cancelled
  /\ Release(c)
  /\ UNCHANGED <<up, mode, epoch, queue, sched, database, era>>

\* A cancelled task runs its finally clauses: it leaves the queue or gives
\* its slot back, and discards the device.  It records nothing.
LeaveCancelled(c) ==
  /\ c.cancelled
  /\ Release(c)
  /\ \/ /\ c.phase = "probing"
        /\ UNCHANGED queue
     \/ /\ c.phase = "queued"
        /\ \E i \in 1 .. Len(queue) :
             /\ queue[i] = c.device
             /\ queue' = SubSeq(queue, 1, i - 1) \o SubSeq(queue, i + 1, Len(queue))
  /\ UNCHANGED <<up, mode, epoch, sched, database, era>>
-----------------------------------------------------------------------------
(* MonitoringScheduler.                                                    *)

Sched(phase, pending, rest) == [phase |-> phase, pending |-> pending, rest |-> rest]
SchedOff == Sched("off", {}, {})

\* POST /api/monitoring/start; running already changes nothing.
StartScheduler ==
  /\ up
  /\ sched.phase = "off"
  /\ sched' = Sched("sleeping", {}, {})
  /\ UNCHANGED <<up, mode, epoch, active, checks, queue, database, era>>

\* The delay is over: scan_once reads the ids of the active devices.
SweepBegin ==
  LET ids == {d \in Devices : device[d].active}
  IN  /\ sched.phase = "sleeping"
      /\ Committed + Cardinality(ids) <= MaxResults
      /\ sched' = Sched("sweeping", {}, ids)
      /\ UNCHANGED <<up, mode, epoch, active, checks, queue, database, era>>

\* The batch is gathered: the next one takes at most max_concurrent ids.
\* The query has no ORDER BY, so any ids may come first.
SweepBatch ==
  /\ sched.phase = "sweeping"
  /\ sched.pending = {} /\ Scheduled = {}
  /\ \E batch \in SUBSET sched.rest :
       /\ batch # {}
       /\ Cardinality(batch) <= MaxConcurrent
       /\ Cardinality(batch) = MaxConcurrent \/ batch = sched.rest
       /\ sched' = Sched("sweeping", batch, sched.rest \ batch)
  /\ UNCHANGED <<up, mode, epoch, active, checks, queue, database, era>>

\* Mistake: a busy device is waited for instead of skipped.
SweepCheckWaits(d) ==
  /\ d \in sched.pending
  /\ sched' = [sched EXCEPT !.pending = @ \ {d}]
  /\ BeginCheck(d, "scheduled")
  /\ UNCHANGED <<up, mode, epoch, database, era>>

\* One task of the batch starts: a device that became inactive or is busy is
\* skipped (CheckInProgressError is swallowed).
SweepCheck(d) ==
  /\ d \in sched.pending
  /\ sched' = [sched EXCEPT !.pending = @ \ {d}]
  /\ \/ BeginCheck(d, "scheduled")
     \/ /\ ~device[d].active \/ Busy(d)
        /\ UNCHANGED <<active, checks, queue>>
  /\ UNCHANGED <<up, mode, epoch, database, era>>

SweepEnd ==
  /\ sched.phase = "sweeping"
  /\ sched.pending = {} /\ sched.rest = {} /\ Scheduled = {}
  /\ sched' = Sched("sleeping", {}, {})
  /\ UNCHANGED <<up, mode, epoch, active, checks, queue, database, era>>

\* stop(), first half, under the control lock: cancel the task, and with it
\* the gathered checks; tasks of the batch that did not start never do.
StopBegin ==
  /\ sched.phase \in {"sleeping", "sweeping"}
  /\ epoch < MaxEpoch /\ era < MaxEra
  /\ sched' = Sched("stopping", {}, {})
  /\ checks' = {IF c.source = "scheduled" THEN [c EXCEPT !.cancelled = TRUE] ELSE c :
                  c \in checks}
  /\ UNCHANGED <<up, mode, epoch, active, queue, database, era>>

\* scheduler.reset(): the epoch is bumped before the UPDATE is committed, and
\* stays bumped when the commit fails.
Reset ==
  /\ epoch' = epoch + 1
  /\ Disturb(checks)
  /\ \/ ResetStreaks /\ era' = era + 1
     \/ UNCHANGED <<streak, era>>

\* Mistake: the cancelled task is not awaited.
StopWithoutAwait ==
  /\ up
  /\ sched.phase \in {"off", "stopping"}
  /\ epoch < MaxEpoch /\ era < MaxEra
  /\ sched' = SchedOff
  /\ Reset
  /\ UNCHANGED <<up, mode, active, queue, device, alarms, results>>

\* stop(), second half: the task has ended (or there was none); reset.
StopFinish ==
  /\ up
  /\ sched.phase \in {"off", "stopping"}
  /\ Scheduled = {}
  /\ epoch < MaxEpoch /\ era < MaxEra
  /\ sched' = SchedOff
  /\ Reset
  /\ UNCHANGED <<up, mode, active, queue, device, alarms, results>>
-----------------------------------------------------------------------------
(* The process.                                                            *)

\* Mistake: the lifespan does not call scheduler.reset().
BootWithoutReset(m) ==
  /\ ~up
  /\ era < MaxEra
  /\ up' = TRUE
  /\ mode' = m
  /\ era' = era + 1
  /\ UNCHANGED <<epoch, active, checks, queue, sched, database>>

\* The lifespan takes the process lock, builds the services (the mode is what
\* is configured now) and calls scheduler.reset(); a failing reset aborts it.
Boot(m) ==
  /\ ~up
  /\ era < MaxEra
  /\ up' = TRUE
  /\ mode' = m
  /\ epoch' = 1
  /\ ResetStreaks
  /\ era' = era + 1
  /\ UNCHANGED <<active, checks, queue, sched, device, alarms, results>>

\* The process ends; what was in flight is lost.
Crash ==
  /\ up
  /\ era < MaxEra
  /\ up' = FALSE
  /\ epoch' = 0
  /\ active' = {} /\ checks' = {} /\ queue' = <<>> /\ sched' = SchedOff
  /\ UNCHANGED <<mode, database, era>>
-----------------------------------------------------------------------------
Init ==
  /\ up = FALSE
  /\ mode \in Modes
  /\ epoch = 0
  /\ active = {} /\ checks = {} /\ queue = <<>> /\ sched = SchedOff
  /\ device = [d \in Devices |-> [active |-> FALSE, ip |-> NoAddress, version |-> 0]]
  /\ streak = [k \in Devices \X Modes |-> NoStreak]
  /\ alarms = <<>>
  /\ results = <<>>
  /\ era = 0

EndCheck(c) == \/ \E outcome \in Outcomes : Save(c, outcome)
               \/ Abandon(c)
               \/ LeaveCancelled(c)

Next ==
  \/ \E d \in Devices, ip \in Addresses, act \in BOOLEAN :
       CreateDevice(d, ip, act) \/ UpdateDevice(d, ip, act)
  \/ \E i \in DOMAIN alarms : Acknowledge(i)
  \/ \E d \in Devices : StartManual(d) \/ SweepCheck(d)
  \/ GrantSlot
  \/ \E c \in checks : EndCheck(c)
  \/ StartScheduler \/ SweepBegin \/ SweepBatch \/ SweepEnd
  \/ StopBegin \/ StopFinish
  \/ \E m \in Modes : Boot(m)
  \/ Crash

\* The event loop runs every ready task: a probe ends (its subprocess has a
\* watchdog), a waiter is woken, a sweep goes on, a stop that cancelled the
\* task finishes.  Requests, boots and crashes are not promised; neither is
\* the start of a sweep.
Fairness ==
  /\ \A d \in Devices :
       /\ WF_vars(\E c \in checks : c.device = d /\ EndCheck(c))
       /\ WF_vars(SweepCheck(d))
  /\ WF_vars(GrantSlot)
  /\ WF_vars(SweepBatch)
  /\ WF_vars(SweepEnd)
  /\ WF_vars(sched.phase = "stopping" /\ StopFinish)

Spec == Init /\ [][Next]_vars
FairSpec == Spec /\ Fairness
-----------------------------------------------------------------------------
(* Properties.                                                             *)

Check == [device : Devices, ip : Addresses, version : 1 .. MaxVersion,
          epoch : 1 .. MaxEpoch + 1, mode : Modes, source : Sources,
          phase : {"queued", "probing"}, cancelled : BOOLEAN, disturbed : BOOLEAN]

Result == [device : Devices, ip : Addresses, version : 1 .. MaxVersion,
           mode : Modes, outcome : Outcomes, current : BOOLEAN,
           era : 1 .. MaxEra, disturbed : BOOLEAN]

Alarm == [device : Devices, ip : Addresses, mode : Modes,
          first : Nat, opened : Nat, last : Nat,
          status : {"open", "resolved", "closed"},
          reason : {"none", "reply_received", "target_changed", "device_deactivated"},
          acked : BOOLEAN]

\* Every variable keeps its type: the shape of the tables and of the memory.
\* A process that runs has reset the streaks at least once; one that does not
\* run has no memory; only a registered device is active or has an address.
TypeOK ==
  /\ up \in BOOLEAN
  /\ mode \in Modes
  /\ epoch \in 0 .. MaxEpoch + 1
  /\ active \subseteq Devices
  /\ checks \subseteq Check
  /\ queue \in Seq(Devices)
  /\ sched \in [phase : {"off", "sleeping", "sweeping", "stopping"},
                pending : SUBSET Devices, rest : SUBSET Devices]
  /\ device \in [Devices -> [active : BOOLEAN, ip : Addresses \cup {NoAddress},
                             version : 0 .. MaxVersion]]
  /\ streak \in [Devices \X Modes -> [version : 0 .. MaxVersion, count : Nat, first : Nat]]
  /\ alarms \in Seq(Alarm)
  /\ results \in Seq(Result)
  /\ era \in 0 .. MaxEra
  /\ up => epoch > 0 /\ era > 0
  /\ ~up => active = {} /\ checks = {} /\ queue = <<>> /\ sched = SchedOff
  /\ \A d \in Devices : device[d].active => Registered(d)
  /\ \A d \in Devices : Registered(d) => device[d].ip \in Addresses

\* A device is checked by one task at a time: _active_devices holds exactly
\* the devices of the checks in flight, once each, and the queue exactly those
\* that wait, once each (check(), scan_once and the manual endpoint compete).
ChecksAreExclusive ==
  /\ active = {c.device : c \in checks}
  /\ \A b, c \in checks : b.device = c.device => b = c
  /\ {queue[i] : i \in DOMAIN queue} = {c.device : c \in {b \in checks : b.phase = "queued"}}
  /\ \A i, j \in DOMAIN queue : queue[i] = queue[j] => i = j
  /\ Cardinality(Probing) <= MaxConcurrent

\* A sweep that is over, or stopped, has left no check behind: outside of a
\* sweep and of a stop in progress no scheduled check is in flight.
NoOrphanScheduledChecks ==
  sched.phase \in {"off", "sleeping"} =>
    Scheduled = {} /\ sched.pending = {} /\ sched.rest = {}

\* A measurement is current exactly when neither its target changed nor the
\* streaks were reset (stop) while the probe was in flight -- also when the
\* IP was changed and changed back, or the device switched off and on again.
CurrentMeansUndisturbed ==
  \A i \in DOMAIN results : results[i].current <=> ~results[i].disturbed

\* An open alarm speaks of the device as it is: the device is active and has
\* the alarm's IP.  A late measurement of an old target never reopens one.
\* (Runs check FeedSpec, from which this and the next follow.)
OpenAlarmTracksTarget ==
  \A i \in DOMAIN alarms :
    alarms[i].status = "open" =>
      /\ device[alarms[i].device].active
      /\ device[alarms[i].device].ip = alarms[i].ip

\* At most one open alarm per device and mode, across restarts.
OneOpenAlarm ==
  \A i, j \in DOMAIN alarms :
    /\ alarms[i].status = "open" /\ alarms[j].status = "open"
    /\ alarms[i].device = alarms[j].device /\ alarms[i].mode = alarms[j].mode
    => i = j

\* The current measurements of a device in a mode, ...
CurrentOf(d, m) ==
  {i \in DOMAIN results :
     results[i].device = d /\ results[i].mode = m /\ results[i].current}

\* ... those of the present target since the last streak reset, ...
Relevant(d, m) ==
  {i \in CurrentOf(d, m) : results[i].version = device[d].version /\ results[i].era = era}

\* ... and the unbroken run of no_reply at their end.
Trailing(d, m) ==
  {i \in Relevant(d, m) :
     \A j \in Relevant(d, m) : j >= i => results[j].outcome = "no_reply"}

\* The persisted streak is what the history says: it counts the trailing
\* no_reply measurements of the present target, of the row's mode, since the
\* last stop or boot, and first_no_reply_at is the first of them.
StreakMatchesHistory ==
  \A d \in Devices, m \in Modes :
    LET row == streak[<<d, m>>]
    IN  /\ row.count = Cardinality(Trailing(d, m))
        /\ row.count > 0 =>
             row.first \in Trailing(d, m) /\ \A i \in Trailing(d, m) : row.first <= i

\* No outage goes unreported: a run of Threshold no_reply measurements at the
\* end of the history means that an alarm is open.
NoMissedAlarm ==
  \A d \in Devices, m \in Modes :
    Cardinality(Trailing(d, m)) >= Threshold =>
      \E i \in DOMAIN alarms : /\ alarms[i].status = "open"
                               /\ alarms[i].device = d /\ alarms[i].mode = m

\* No false alarm: from first_no_reply_at to opened_at lie exactly Threshold
\* current measurements of the alarm's device and mode, all no_reply, of one
\* target version and one streak era, so none from before a stop, a boot or a
\* change of target, and no stale one.
AlarmJustified ==
  \A i \in DOMAIN alarms :
    LET a      == alarms[i]
        window == {j \in CurrentOf(a.device, a.mode) : a.first <= j /\ j <= a.opened}
    IN  /\ {a.first, a.opened} \subseteq window
        /\ Cardinality(window) = Threshold
        /\ \A j \in window : /\ results[j].outcome = "no_reply"
                             /\ results[j].ip = a.ip
                             /\ results[j].version = results[a.opened].version
                             /\ results[j].era = results[a.opened].era

\* Once open, an alarm follows the measurements of its target: a reply ends
\* it, and it is resolved only by one; while it is open nothing but an error
\* was measured after last_observed_at; errors never move it.
AlarmFollowsHistory ==
  \A i \in DOMAIN alarms :
    LET a     == alarms[i]
        heard == {j \in CurrentOf(a.device, a.mode) :
                    j > a.opened /\ results[j].outcome # "error"}
    IN  /\ a.last \in heard \cup {a.opened}
        /\ \A j \in heard : j < a.last => results[j].outcome = "no_reply"
        /\ a.status = "resolved" <=> results[a.last].outcome = "reply"
        /\ a.status = "open" => \A j \in heard : j <= a.last

\* What a step may never do to an alarm: drop it, reuse its id, change whom
\* it speaks of, reopen it, take an acknowledgement back.  It is resolved
\* only by the step that records a reply of its target, and closed only by
\* the step that gives its device a new target version.
AlarmLifecycle ==
  [][\A i \in DOMAIN alarms :
       LET a == alarms[i]
           b == alarms'[i]
       IN  /\ i \in DOMAIN alarms'
           /\ <<a.device, a.ip, a.mode, a.first, a.opened>> =
                <<b.device, b.ip, b.mode, b.first, b.opened>>
           /\ a.acked => b.acked
           /\ a.status # b.status =>
                /\ a.status = "open"
                /\ b.status = "resolved" =>
                     LET r == results'[Len(results')]
                     IN  /\ Len(results') = Len(results) + 1
                         /\ r.outcome = "reply" /\ r.current
                         /\ <<r.device, r.ip, r.mode>> = <<a.device, a.ip, a.mode>>
                /\ b.status = "closed" =>
                     /\ device'[a.device].version > device[a.device].version
                     /\ b.reason = "target_changed" <=> device'[a.device].ip # a.ip
    ]_vars

FeedTarget == [d \in Devices |-> [active |-> device[d].active, ip |-> device[d].ip]]
FeedAlarms == [i \in DOMAIN alarms |->
                 [device |-> alarms[i].device, ip |-> alarms[i].ip,
                  mode |-> alarms[i].mode, status |-> alarms[i].status]]

Feed == INSTANCE AlarmFeed WITH
  Places <- Addresses \cup {NoAddress}, target <- FeedTarget, feed <- FeedAlarms

\* The alarms table is an alarm feed: whatever is measured late, reset, restarted
\* or acknowledged, readers see alarms raised and ended as AlarmFeed says.
FeedSpec == Feed!Spec

\* A device is never locked out of checks for good: its check ends, with or
\* without a measurement, a cancellation or a crash.
DevicesAreReleased == \A d \in Devices : Busy(d) ~> ~Busy(d)

\* Every sweep ends: it goes through its batches although manual checks share
\* its slots, or it is stopped.
SweepsEnd == sched.phase = "sweeping" ~> sched.phase # "sweeping"

\* stop() returns: the cancelled checks leave and the streaks are reset.
StopsReturn == sched.phase = "stopping" ~> sched.phase = "off"

\* Nothing hangs: neither the devices, nor the sweeps, nor stop().
NothingHangs == DevicesAreReleased /\ SweepsEnd /\ StopsReturn
=============================================================================
