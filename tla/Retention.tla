------------------------------ MODULE Retention ------------------------------
(***************************************************************************)
(* The cleanup command of AvIT-Data, which deletes old measurements in     *)
(* batches while the application measures, moves devices and is restarted. *)
(*                                                                         *)
(* Measurements are recorded in log, in their order, and stay there: log   *)
(* is the history, kept the positions of those whose rows still exist.     *)
(* The alarm rules are those of module Monitor for one probe mode; the     *)
(* mode is a column of every key here and compared for equality only.      *)
(* The clock does not step back, and every row is evaluated by the         *)
(* transaction that inserts it.                                            *)
(*                                                                         *)
(* An operator whose comment starts with "Mistake:" is no part of the      *)
(* specification: it is the operator after it with one plausible bug.      *)
(***************************************************************************)
EXTENDS Naturals, Sequences, FiniteSets

CONSTANTS
  Devices,     \* device ids
  Addresses,   \* IP addresses
  NoCheck,     \* no check of a device is in flight
  Threshold,   \* settings.alarm_threshold
  BatchSize,   \* --batch-size
  MaxBatches,  \* --max-batches
  MaxTime,     \* bound: the clock stops there
  MaxLog,      \* bound: measurements ever recorded
  MaxVersion   \* bound: target_version of a device

Check == [ip : Addresses, version : Nat, stale : BOOLEAN]

ASSUME NoCheckAssumption == NoCheck \notin Check

ASSUME RetentionAssumption ==
  /\ {Threshold, BatchSize, MaxBatches} \subseteq Nat \ {0}
  /\ {MaxTime, MaxLog, MaxVersion} \subseteq Nat

VARIABLES
  now,     \* the clock
  device,  \* the devices table
  flight,  \* the check of a device between its snapshot and its end
  streak,  \* the monitor_states table
  alarms,  \* the open alarms
  log,     \* every measurement that was ever recorded
  kept,    \* monitoring_results: the positions in log that still have a row
  job      \* the cleanup command: its cutoff (0 when it does not run), batches left

monitor == <<device, flight, streak, alarms, log>>
vars    == <<now, monitor, kept, job>>

Outcomes == {"reply", "no_reply", "error"}
-----------------------------------------------------------------------------
(* The monitoring core, as far as it matters here.                         *)

\* SQLite gives a row the highest id in the table plus one.
NewId ==
  IF kept = {} THEN 1
  ELSE 1 + (CHOOSE n \in {log[i].id : i \in kept} : \A i \in kept : log[i].id <= n)

StartCheck(d) ==
  /\ device[d].active /\ flight[d] = NoCheck
  /\ flight' = [flight EXCEPT ![d] =
                  [ip |-> device[d].ip, version |-> device[d].version, stale |-> FALSE]]
  /\ UNCHANGED <<now, device, streak, alarms, log, kept, job>>

IsCurrent(d, c) ==
  ~c.stale /\ device[d].active /\ device[d].version = c.version /\ device[d].ip = c.ip

NoReply(d, c) ==
  LET old  == IF streak[d].version = c.version THEN streak[d].count ELSE 0
      row  == [version |-> c.version, count |-> old + 1,
               first |-> IF old = 0 THEN now ELSE streak[d].first]
      open == {a \in alarms : a.device = d /\ a.ip = c.ip}
  IN  /\ streak' = [streak EXCEPT ![d] = row]
      /\ alarms' = IF open = {} /\ row.count >= Threshold
                   THEN alarms \cup {[device |-> d, ip |-> c.ip,
                                      first |-> row.first, opened |-> now]}
                   ELSE alarms

Answer(d, c, outcome) ==
  /\ streak' = [streak EXCEPT ![d] = [version |-> c.version, count |-> 0, first |-> 0]]
  /\ alarms' = IF outcome = "reply" THEN {a \in alarms : a.device # d \/ a.ip # c.ip}
                                    ELSE alarms

\* The transaction that ends a check: insert and evaluate.
Save(d, outcome) ==
  LET c == flight[d]
  IN  /\ c # NoCheck /\ Len(log) < MaxLog
      /\ log' = Append(log, [id |-> NewId, device |-> d, ip |-> c.ip, version |-> c.version,
                             current |-> IsCurrent(d, c), outcome |-> outcome, at |-> now])
      /\ kept' = kept \cup {Len(log) + 1}
      /\ flight' = [flight EXCEPT ![d] = NoCheck]
      /\ \/ ~IsCurrent(d, c) /\ UNCHANGED <<streak, alarms>>
         \/ IsCurrent(d, c) /\ outcome = "no_reply" /\ NoReply(d, c)
         \/ IsCurrent(d, c) /\ outcome # "no_reply" /\ Answer(d, c, outcome)
      /\ UNCHANGED <<now, device, job>>

\* The device moves or is switched: its alarms are closed, its streak ends.
UpdateDevice(d, ip, act) ==
  /\ device[d].version < MaxVersion
  /\ \A e \in Devices \ {d} : device[e].ip # ip
  /\ ip # device[d].ip \/ act # device[d].active
  /\ device' = [device EXCEPT ![d] = [active |-> act, ip |-> ip, version |-> @.version + 1]]
  /\ streak' = [streak EXCEPT ![d] = [@ EXCEPT !.count = 0, !.first = 0]]
  /\ alarms' = {a \in alarms : a.device # d}
  /\ UNCHANGED <<now, flight, log, kept, job>>

\* Monitoring stops: streaks end, checks in flight become stale.
Stop ==
  /\ streak' = [d \in Devices |-> [streak[d] EXCEPT !.count = 0, !.first = 0]]
  /\ flight' = [d \in Devices |-> IF flight[d] = NoCheck THEN NoCheck
                                  ELSE [flight[d] EXCEPT !.stale = TRUE]]
  /\ UNCHANGED <<now, device, alarms, log, kept, job>>

\* The process ends and is started again: checks in flight are lost.
Restart ==
  /\ streak' = [d \in Devices |-> [streak[d] EXCEPT !.count = 0, !.first = 0]]
  /\ flight' = [d \in Devices |-> NoCheck]
  /\ UNCHANGED <<now, device, alarms, log, kept, job>>

Tick ==
  /\ now < MaxTime
  /\ now' = now + 1
  /\ UNCHANGED <<monitor, kept, job>>
-----------------------------------------------------------------------------
(* What is protected.                                                      *)

\* Mistake: one measurement per target, whether current or stale.
IsLatestOfTarget(i) ==
  \A j \in kept : log[j].device = log[i].device /\ log[j].version = log[i].version
                    /\ log[j].ip = log[i].ip => log[j].id <= log[i].id

\* Mistake: what is stale needs no latest measurement.
IsLatestCurrent(i) ==
  /\ log[i].current
  /\ \A j \in kept : /\ log[j].device = log[i].device /\ log[j].version = log[i].version
                     /\ log[j].ip = log[i].ip /\ log[j].current
                     => log[j].id <= log[i].id

\* latest_per_target: the highest id of a device, target and is_current.
IsLatest(i) ==
  \A j \in kept : /\ log[j].device = log[i].device /\ log[j].version = log[i].version
                  /\ log[j].ip = log[i].ip /\ log[j].current = log[i].current
                  => log[j].id <= log[i].id

\* Mistake: evidence is counted from the opening.
IsEvidenceOnceOpen(i) ==
  \E a \in alarms : a.device = log[i].device /\ a.ip = log[i].ip /\ log[i].at >= a.opened

\* open_alarm_evidence
IsEvidence(i) ==
  \E a \in alarms : a.device = log[i].device /\ a.ip = log[i].ip /\ log[i].at >= a.first

\* Mistake: a streak is evidence only once it made an alarm.
IsStreakOnceLong(i) ==
  LET row == streak[log[i].device]
  IN  row.version = log[i].version /\ row.count >= Threshold /\ log[i].at >= row.first

\* pending_streak_evidence
IsStreak(i) ==
  LET row == streak[log[i].device]
  IN  row.version = log[i].version /\ row.count > 0 /\ log[i].at >= row.first

Protected(i) == IsLatest(i) \/ IsEvidence(i) \/ IsStreak(i)

Candidates(cutoff) == {i \in kept : log[i].at < cutoff /\ ~Protected(i)}
-----------------------------------------------------------------------------
(* The command.                                                            *)

\* A cutoff in the future is refused.
Begin(cutoff) ==
  /\ job.cutoff = 0 /\ cutoff <= now
  /\ job' = [cutoff |-> cutoff, left |-> MaxBatches]
  /\ UNCHANGED <<now, monitor, kept>>

\* ORDER BY id LIMIT batch_size
FirstOf(S) == {i \in S : Cardinality({j \in S : log[j].id < log[i].id}) < BatchSize}

\* Mistake: one batch too many.
BatchBeyond ==
  LET found == Candidates(job.cutoff)
  IN  /\ job.cutoff > 0 /\ job.left >= 0 /\ found # {}
      /\ kept' = kept \ FirstOf(found)
      /\ job' = [job EXCEPT !.left = @ - 1]
      /\ UNCHANGED <<now, monitor>>

\* One BEGIN IMMEDIATE transaction: candidates are determined anew, and deleted.
Batch ==
  LET found == Candidates(job.cutoff)
  IN  /\ job.cutoff > 0 /\ job.left > 0 /\ found # {}
      /\ kept' = kept \ FirstOf(found)
      /\ job' = [job EXCEPT !.left = @ - 1]
      /\ UNCHANGED <<now, monitor>>

Finish ==
  /\ job.cutoff > 0
  /\ job.left = 0 \/ Candidates(job.cutoff) = {}
  /\ job' = [cutoff |-> 0, left |-> 0]
  /\ UNCHANGED <<now, monitor, kept>>

\* The command is interrupted; committed batches stay.
Kill ==
  /\ job.cutoff > 0
  /\ job' = [cutoff |-> 0, left |-> 0]
  /\ UNCHANGED <<now, monitor, kept>>
-----------------------------------------------------------------------------
Init ==
  /\ now = 1
  /\ \E place \in [Devices -> Addresses] :
       /\ \A d, e \in Devices : d # e => place[d] # place[e]
       /\ device = [d \in Devices |-> [active |-> TRUE, ip |-> place[d], version |-> 1]]
  /\ flight = [d \in Devices |-> NoCheck]
  /\ streak = [d \in Devices |-> [version |-> 0, count |-> 0, first |-> 0]]
  /\ alarms = {}
  /\ log = <<>> /\ kept = {}
  /\ job = [cutoff |-> 0, left |-> 0]

Next ==
  \/ \E d \in Devices : StartCheck(d) \/ \E outcome \in Outcomes : Save(d, outcome)
  \/ \E d \in Devices, ip \in Addresses, act \in BOOLEAN : UpdateDevice(d, ip, act)
  \/ Stop \/ Restart \/ Tick
  \/ \E cutoff \in 1 .. MaxTime : Begin(cutoff)
  \/ Batch \/ Finish \/ Kill

Spec == Init /\ [][Next]_vars
-----------------------------------------------------------------------------
(* Properties.                                                             *)

Entry == [id : Nat \ {0}, device : Devices, ip : Addresses, version : Nat,
          current : BOOLEAN, outcome : Outcomes, at : Nat]

\* Every variable keeps its type; rows exist only of what was recorded; the
\* command never exceeds its batches.
TypeOK ==
  /\ now \in Nat
  /\ device \in [Devices -> [active : BOOLEAN, ip : Addresses, version : Nat]]
  /\ flight \in [Devices -> Check \cup {NoCheck}]
  /\ streak \in [Devices -> [version : Nat, count : Nat, first : Nat]]
  /\ alarms \subseteq [device : Devices, ip : Addresses, first : Nat, opened : Nat]
  /\ log \in Seq(Entry)
  /\ kept \subseteq DOMAIN log
  /\ job \in [cutoff : Nat, left : 0 .. MaxBatches]

\* No id is given twice, although SQLite would give the id of a deleted last
\* row again: audit rows speak of measurements by their id.
IdsAreNeverReused ==
  \A i, j \in DOMAIN log : i # j => log[i].id # log[j].id

\* What current_measurement finds: the last current measurement of the target
\* that a device has now, among the positions of S.
Present(d, S) ==
  {i \in S : /\ log[i].device = d /\ log[i].current
             /\ log[i].version = device[d].version /\ log[i].ip = device[d].ip}

\* The present state of a device survives any cleanup: the last of all its
\* measurements is there to be found.
CurrentIsFound ==
  \A d \in Devices : \A i \in Present(d, DOMAIN log) :
    \E j \in Present(d, kept) : log[j].id >= log[i].id

\* While an alarm is open, every measurement of its target since the first
\* no_reply is there, also those that only a pending streak protected before.
\* (The target is told by its version: it cannot change while the alarm is open.)
EvidenceIsKept ==
  \A a \in alarms : \A i \in DOMAIN log :
    /\ log[i].device = a.device /\ log[i].version = device[a.device].version
    /\ log[i].at >= a.first
    => i \in kept

\* A pending streak can be shown: the no_reply measurements it counts are there.
StreakIsKept ==
  \A d \in Devices :
    LET row   == streak[d]
        shown == {i \in kept : /\ log[i].device = d /\ log[i].version = row.version
                               /\ log[i].current /\ log[i].outcome = "no_reply"
                               /\ log[i].at >= row.first}
    IN  row.count > 0 => Cardinality(shown) >= row.count
=============================================================================
