------------------------------- MODULE Outbox --------------------------------
(***************************************************************************)
(* Notifications of AvIT-Data: the transactional outbox that alarm events  *)
(* are queued in, maintenance windows and alarm silences that suppress     *)
(* them, and the worker that reconciles, claims, re-checks and sends.      *)
(*                                                                         *)
(* The alarms come from the monitoring core (module Monitor); here a       *)
(* measurement of a device may open an alarm, resolves the open one, or    *)
(* changes nothing, and a change of the device closes its alarms.          *)
(*                                                                         *)
(* Row, alarm, window and silence ids are positions of the sequences.  One *)
(* step is one transaction (BEGIN IMMEDIATE serialises the writers); the   *)
(* message on its way to the server is outside of any transaction.         *)
(*                                                                         *)
(* An operator whose comment starts with "Mistake:" is no part of the      *)
(* specification: it is the operator after it with one plausible bug.      *)
(***************************************************************************)
EXTENDS Intervals, Sequences, FiniteSets

CONSTANTS
  Devices,      \* device ids
  Addresses,    \* IP addresses
  Probes,       \* probe modes the process may be configured with
  Simulator,    \* the probe mode of simulated measurements
  Off, Mock,    \* notification modes that send nothing real
  Routes,       \* SMTP routings: host, port, account, sender, recipients
  Deliveries,   \* Off, Mock or routings the process may be configured with
  Limits,       \* values notification_max_attempts may be configured to
  Concurrency,  \* settings.notification_concurrency
  RetryDelay,   \* settings.notification_retry_seconds
  RetryCap,     \* the 3600 seconds a delay never exceeds
  FreshFor,     \* 2 * settings.monitor_interval_seconds
  MaxTime,      \* bound: the clock stops there
  Horizon,      \* bound: no measurement or request later than this
  MaxVersion, MaxAlarms, MaxWindows, MaxSilences,  \* bounds: table sizes
  MaxIntervals, \* bound: windows and silences together
  MaxFaults,    \* bound: failed transactions of the worker
  MaxRestores   \* bound: 1 if the database may become a restored copy

ASSUME OutboxAssumption ==
  /\ Off # Mock /\ {Off, Mock} \cap Routes = {}
  /\ Deliveries \subseteq {Off, Mock} \cup Routes /\ Deliveries # {}
  /\ Limits \subseteq Nat \ {0} /\ Limits # {}
  /\ Concurrency \in Nat \ {0}
  /\ {RetryDelay, RetryCap} \subseteq Nat \ {0}
  /\ FreshFor \in Nat
  /\ MaxTime \in Nat \ {0} /\ Horizon \in Nat
  /\ {MaxVersion, MaxAlarms, MaxWindows, MaxSilences, MaxIntervals} \subseteq Nat
  /\ {MaxFaults, MaxRestores} \subseteq Nat

VARIABLES
  now,       \* the clock
  (* memory of the process *)
  up,        \* the process runs
  config,    \* its settings: probe mode, notification identity, attempts
  phase,     \* the worker task: "off", "idle", "recovered"
  stopping,  \* NotificationWorker._stopping
  work,      \* dispatches in flight
  (* database *)
  device,    \* the devices table
  latest,    \* what current_measurement finds for a device and probe mode
  alarms,    \* the alarms table
  windows,   \* the maintenance_windows table
  silences,  \* the alarm_silences table
  rows,      \* the notification_outbox table
  guard,     \* the recovery_guard table has its row
  (* history and bounds *)
  sent,      \* rows whose message a server accepted, in that order
  faults     \* failed transactions so far

process  == <<up, config, phase, stopping, work>>
feed     == <<device, latest, alarms>>
vars     == <<now, process, feed, windows, silences, rows, guard, sent, faults>>

Active  == {"pending", "retry", "sending"}
Success == {"accepted", "mock_sent"}
Outage     == {"opened", "current_status"}
Resolution == {"resolved", "resolved_summary"}

Identities == {Off, Mock} \cup Routes
Outcomes   == {"reply", "no_reply", "error"}
-----------------------------------------------------------------------------
(* Pure rules.                                                             *)

\* Mistake: the simulator is mailed like the network.
NoClamp(ident, p) == ident

\* A simulated observation never addresses a real recipient.
Clamp(ident, p) == IF p = Simulator /\ ident \in Routes THEN Mock ELSE ident

\* delivery_identity of the running settings for an alarm's probe mode.
Identity(p) == Clamp(config.delivery, p)

\* Is a message about an alarm of device d suppressed at t?  a is the alarm.
SuppressedFor(d, a, t) ==
  \/ \E w \in DOMAIN windows : windows[w].device = d /\ InForce(windows[w], t)
  \/ \E s \in DOMAIN silences : silences[s].alarm = a /\ InForce(silences[s], t)

Suppressed(a) == SuppressedFor(alarms[a].device, a, now)

\* Nothing was measured yet, or not of the present target.
Unmeasured == [at |-> Never, outcome |-> "none"]

\* current_measurement of an alarm: the device is active, at its address.
Current(a) ==
  LET d == device[alarms[a].device]
  IN  IF d.active /\ d.ip = alarms[a].ip
      THEN latest[<<alarms[a].device, alarms[a].probe>>] ELSE Unmeasured

Fresh(m) == m.at # Never /\ now - m.at <= FreshFor

Backoff(attempts) ==
  LET doubled == RetryDelay * 2 ^ (IF attempts > 0 THEN attempts - 1 ELSE 0)
  IN  IF doubled < RetryCap THEN doubled ELSE RetryCap

Row(a, p, type, key, target, suppressed) ==
  LET ident  == Clamp(target, p)
      status == CASE ident = Off -> "disabled"
                  [] ident # Off /\ suppressed -> "suppressed"
                  [] OTHER -> "pending"
  IN  [alarm |-> a, type |-> type, key |-> key, ident |-> ident, status |-> status,
       attempts |-> 0, created |-> now, next |-> IF status = "pending" THEN now ELSE Never,
       settled |-> ident = Off]

\* The unique key of the table: event id (alarm and event key) and target.
Known(rs, r) ==
  \E i \in DOMAIN rs : <<rs[i].alarm, rs[i].key, rs[i].ident>> = <<r.alarm, r.key, r.ident>>

\* INSERT ... ON CONFLICT DO NOTHING.
Insert(rs, r) == IF Known(rs, r) THEN rs ELSE Append(rs, r)
-----------------------------------------------------------------------------
(* The monitoring core, as far as it matters here.                         *)

\* A current measurement of device d is saved and evaluated.  (Bound: one
\* measurement of a target to a clock reading.)
Measure(d, outcome) ==
  LET open == {a \in DOMAIN alarms : /\ alarms[a].status = "open"
                                     /\ alarms[a].device = d
                                     /\ alarms[a].ip = device[d].ip
                                     /\ alarms[a].probe = config.probe}
  IN  /\ up /\ now <= Horizon
      /\ device[d].active
      /\ latest[<<d, config.probe>>].at < now
      /\ latest' = [latest EXCEPT ![<<d, config.probe>>] = [at |-> now, outcome |-> outcome]]
      /\ \/ /\ outcome = "no_reply"
            /\ open = {} /\ Len(alarms) < MaxAlarms
            /\ alarms' = Append(alarms, [device |-> d, ip |-> device[d].ip,
                                         probe |-> config.probe, status |-> "open",
                                         opened |-> now, ended |-> Never])
            /\ LET a == Len(alarms) + 1
               IN  rows' = Insert(rows, Row(a, config.probe, "opened", <<"opened", 0>>,
                                            config.delivery, SuppressedFor(d, a, now)))
         \/ /\ outcome = "reply"
            /\ \E a \in open :
                 /\ alarms' = [alarms EXCEPT ![a].status = "resolved", ![a].ended = now]
                 /\ rows' = Insert(rows, Row(a, config.probe, "resolved", <<"resolved", 0>>,
                                             config.delivery, Suppressed(a)))
         \/ /\ outcome = "reply" => open = {}
            /\ UNCHANGED <<alarms, rows>>
  /\ UNCHANGED <<now, process, device, windows, silences, guard, sent, faults>>

\* Mistake: switching a device off closes nothing.
UpdateDeviceWhenMoved(d, ip, act) ==
  /\ up /\ ~stopping /\ now <= Horizon
  /\ device[d].version < MaxVersion
  /\ \A e \in Devices \ {d} : device[e].ip # ip
  /\ ip # device[d].ip \/ act # device[d].active
  /\ device' = [device EXCEPT ![d] = [active |-> act, ip |-> ip, version |-> @.version + 1]]
  /\ latest' = [k \in DOMAIN latest |-> IF k[1] = d THEN Unmeasured ELSE latest[k]]
  /\ alarms' = [a \in DOMAIN alarms |->
                  IF alarms[a].device = d /\ alarms[a].status = "open" /\ ip # device[d].ip
                  THEN [alarms[a] EXCEPT !.status = "closed", !.ended = now]
                  ELSE alarms[a]]
  /\ UNCHANGED <<now, process, windows, silences, rows, guard, sent, faults>>

\* PATCH /api/devices/{id} that moves the device or switches it on or off.
UpdateDevice(d, ip, act) ==
  /\ up /\ ~stopping /\ now <= Horizon
  /\ device[d].version < MaxVersion
  /\ \A e \in Devices \ {d} : device[e].ip # ip
  /\ ip # device[d].ip \/ act # device[d].active
  /\ device' = [device EXCEPT ![d] = [active |-> act, ip |-> ip, version |-> @.version + 1]]
  /\ latest' = [k \in DOMAIN latest |-> IF k[1] = d THEN Unmeasured ELSE latest[k]]
  /\ alarms' = [a \in DOMAIN alarms |->
                  IF alarms[a].device = d /\ alarms[a].status = "open"
                  THEN [alarms[a] EXCEPT !.status = "closed", !.ended = now]
                  ELSE alarms[a]]
  /\ UNCHANGED <<now, process, windows, silences, rows, guard, sent, faults>>
-----------------------------------------------------------------------------
(* Maintenance and silences: the operations API.                           *)

CreateMaintenance(d, starts, ends) ==
  /\ up /\ ~stopping /\ now <= Horizon
  /\ Len(windows) < MaxWindows /\ Len(windows) + Len(silences) < MaxIntervals
  /\ now <= starts /\ starts < ends /\ SqlLess(starts, ends)
  /\ windows' = Append(windows, [device |-> d, starts |-> starts, ends |-> ends,
                                 cancelled |-> Never, activated |-> FALSE,
                                 ident |-> config.delivery])
  /\ UNCHANGED <<now, process, feed, silences, rows, guard, sent, faults>>

CancelMaintenance(w) ==
  /\ up /\ ~stopping /\ now <= Horizon
  /\ windows[w].cancelled = Never
  /\ windows' = [windows EXCEPT ![w].cancelled = now]
  /\ UNCHANGED <<now, process, feed, silences, rows, guard, sent, faults>>

\* Only an open alarm; the row asks for a reconciliation when the silence ends.
SilenceAlarm(a, ends) ==
  /\ up /\ ~stopping /\ now <= Horizon
  /\ Len(silences) < MaxSilences /\ Len(windows) + Len(silences) < MaxIntervals
  /\ alarms[a].status = "open"
  /\ now < ends /\ SqlLess(now, ends)
  /\ silences' = Append(silences, [alarm |-> a, starts |-> now, ends |-> ends,
                                   cancelled |-> Never])
  /\ rows' = Insert(rows, Row(a, alarms[a].probe, "current_status",
                              <<"silence", Len(silences) + 1>>, config.delivery, TRUE))
  /\ UNCHANGED <<now, process, feed, windows, guard, sent, faults>>

CancelSilence(s) ==
  /\ up /\ ~stopping /\ now <= Horizon
  /\ silences[s].cancelled = Never
  /\ silences' = [silences EXCEPT ![s].cancelled = now]
  /\ UNCHANGED <<now, process, feed, windows, rows, guard, sent, faults>>
-----------------------------------------------------------------------------
(* Reconciliation, a part of the worker's claim transaction.               *)

\* The orders in which the elements of S can be listed.
Listings(S) ==
  {f \in [1 .. Cardinality(S) -> S] : \A x \in S : \E i \in DOMAIN f : f[i] = x}

\* Windows that began since the last reconciliation, ...
DueWindows == {w \in DOMAIN windows : SqlLeq(windows[w].starts, now) /\ ~windows[w].activated}

\* ... and the alarms of their devices that were not over before they began.
Captures ==
  {c \in DueWindows \X DOMAIN alarms :
     LET w == windows[c[1]]
         a == alarms[c[2]]
     IN  /\ Effective(w)
         /\ a.device = w.device
         /\ SqlLess(a.opened, EffectiveEnd(w))
         /\ a.ended = Never \/ SqlLeq(w.starts, a.ended)}

\* A message queued before the end of a captured window is suppressed, also
\* when the process was down for the whole window.
Captured(row) ==
  /\ row.status \in {"pending", "retry"}
  /\ \E c \in Captures :
       row.alarm = c[2] /\ SqlLess(row.created, EffectiveEnd(windows[c[1]]))

CaptureRow(c) ==
  LET a == c[2]
  IN  Row(a, alarms[a].probe, "current_status", <<"maintenance", c[1]>>,
          windows[c[1]].ident, TRUE)

\* capture_maintenance: the rows after it, the captures listed by window.
CapturedRows(list) ==
  [i \in DOMAIN rows |-> IF Captured(rows[i]) THEN [rows[i] EXCEPT !.status = "suppressed"]
                                              ELSE rows[i]]
    \o [k \in DOMAIN list |-> CaptureRow(list[k])]

\* Mistake: the status is not looked at.
UnsettledAny(rs, a) == {i \in DOMAIN rs : rs[i].alarm = a /\ ~rs[i].settled}

\* The suppressed rows of alarm a that nobody settled, ...
Unsettled(rs, a) ==
  {i \in DOMAIN rs : rs[i].alarm = a /\ rs[i].status = "suppressed" /\ ~rs[i].settled}

\* ... those among them that the present settings address as before.
Compatible(rs, a) == {i \in Unsettled(rs, a) : rs[i].ident = Identity(alarms[a].probe)}

Latest(S) == CHOOSE i \in S : \A j \in S : j <= i

\* intervals_for: the ends of the suppressions that touched the alarm's life.
EndsFor(a) ==
  LET touches(i) == /\ SqlLeq(i.starts, now)
                    /\ Effective(i)
                    /\ alarms[a].opened <= EffectiveEnd(i)
                    /\ alarms[a].ended = Never \/ i.starts <= alarms[a].ended
      own == {w \in DOMAIN windows : /\ windows[w].device = alarms[a].device
                                     /\ SqlLeq(alarms[a].opened, windows[w].ends)
                                     /\ touches(windows[w])}
      hush == {s \in DOMAIN silences : silences[s].alarm = a /\ touches(silences[s])}
  IN  {EffectiveEnd(windows[w]) : w \in own} \cup {EffectiveEnd(silences[s]) : s \in hush}

\* The end of the last suppression.
Boundary(rs, a) ==
  IF EndsFor(a) = {} THEN rs[Latest(Compatible(rs, a))].created ELSE Latest(EndsFor(a))

\* Mistake: the last outage message decides.
PreviousOpenIsLast(rs, a) ==
  LET outages == {i \in DOMAIN rs : rs[i].alarm = a /\ rs[i].type \in Outage}
  IN  /\ outages # {}
      /\ rs[Latest(outages)].status \in Success
      /\ rs[Latest(outages)].ident = Identity(alarms[a].probe)

\* An outage was told, and accepted, under the present identity.
PreviousOpen(rs, a) ==
  \E i \in DOMAIN rs :
    /\ rs[i].alarm = a /\ rs[i].type \in Outage /\ rs[i].status \in Success
    /\ rs[i].ident = Identity(alarms[a].probe)

\* Mistake: what still waits to be sent does not count.
ReplacementSent(rs, a) ==
  \E i \in DOMAIN rs :
    /\ rs[i].alarm = a
    /\ rs[i].type \in IF alarms[a].status = "open" THEN Outage ELSE Resolution
    /\ SqlLeq(Boundary(rs, a), rs[i].created)
    /\ rs[i].status \in Success
    /\ rs[i].ident = Identity(alarms[a].probe)

\* A message about the present status was queued since the boundary.
Replacement(rs, a) ==
  \E i \in DOMAIN rs :
    /\ rs[i].alarm = a
    /\ rs[i].type \in IF alarms[a].status = "open" THEN Outage ELSE Resolution
    /\ SqlLeq(Boundary(rs, a), rs[i].created)
    /\ rs[i].status \in Active \cup Success
    /\ rs[i].ident = Identity(alarms[a].probe)

\* Mistake: a closed alarm is handled like an open one.
NothingToTellButClosed(rs, a) ==
  \/ alarms[a].status = "resolved" /\ ~PreviousOpen(rs, a)
  \/ Replacement(rs, a)

\* The suppressed rows of a need no message any more.
NothingToTell(rs, a) ==
  \/ alarms[a].status = "closed"
  \/ alarms[a].status = "resolved" /\ ~PreviousOpen(rs, a)
  \/ Replacement(rs, a)

\* What would be told is known now, for an outage from after the boundary.
KnownNow(rs, a) ==
  LET m == Current(a)
  IN  /\ Fresh(m) /\ m.outcome # "error"
      /\ alarms[a].status = "open" => m.outcome = "no_reply" /\ m.at >= Boundary(rs, a)

\* Alarms whose suppression is over and that have compatible rows.
Reconcilable(rs) == {a \in DOMAIN alarms : ~Suppressed(a) /\ Compatible(rs, a) # {}}

SummaryRow(rs, a) ==
  Row(a, alarms[a].probe,
      IF alarms[a].status = "open" THEN "current_status" ELSE "resolved_summary",
      <<"reconcile", Latest(Compatible(rs, a))>>, config.delivery, FALSE)

\* The alarms whose rows one summary message replaces.
Summarised(rs) ==
  {a \in Reconcilable(rs) : ~NothingToTell(rs, a) /\ KnownNow(rs, a)}

\* The rows after reconcile: rows of another identity are discarded, what
\* needs no message or gets its summary is settled, the rest waits.
ReconciledRows(rs, list) ==
  LET settled(a) == \/ NothingToTell(rs, a)
                    \/ a \in Summarised(rs)
  IN  [i \in DOMAIN rs |->
         LET a == rs[i].alarm
         IN  IF i \notin Unsettled(rs, a) \/ Suppressed(a) THEN rs[i]
             ELSE IF i \notin Compatible(rs, a)
                  THEN [rs[i] EXCEPT !.status = "discarded", !.settled = TRUE]
                  ELSE [rs[i] EXCEPT !.settled = settled(a)]]
        \o [k \in DOMAIN list |-> SummaryRow(rs, list[k])]
-----------------------------------------------------------------------------
(* The worker.                                                             *)

\* recover: a row left in "sending" by a crash or a lost result.
RecoveredRows(limit) ==
  [i \in DOMAIN rows |->
     IF rows[i].status # "sending" THEN rows[i]
     ELSE IF rows[i].attempts >= limit
          THEN [rows[i] EXCEPT !.status = "failed", !.next = Never]
          ELSE [rows[i] EXCEPT !.status = "retry", !.next = now + Backoff(rows[i].attempts)]]

\* Mistake: only a boot recovers.
TickOnly ==
  /\ up /\ ~guard
  /\ phase = "idle" /\ work = {} /\ ~stopping
  /\ phase' = "recovered"
  /\ UNCHANGED <<now, up, config, stopping, work, feed, windows, silences, rows, guard, sent, faults>>

\* A tick begins: nothing of the previous one is in flight.
TickRecover ==
  /\ up /\ ~guard
  /\ phase = "idle" /\ work = {} /\ ~stopping
  /\ rows' = RecoveredRows(config.limit)
  /\ phase' = "recovered"
  /\ UNCHANGED <<now, up, config, stopping, work, feed, windows, silences, guard, sent, faults>>

\* Mistake: the first row that may go, not the first that is active.
IsFirstReady(rs, i) ==
  \A j \in DOMAIN rs : rs[j].alarm = rs[i].alarm /\ rs[j].status \in {"pending", "retry"}
                       /\ SqlLeq(rs[j].next, now) => i <= j

\* Only the first active row of an alarm may go.
IsFirst(rs, i) ==
  \A j \in DOMAIN rs : rs[j].alarm = rs[i].alarm /\ rs[j].status \in Active => i <= j

Ready(rs) ==
  {i \in DOMAIN rs : /\ IsFirst(rs, i)
                     /\ rs[i].status \in {"pending", "retry"}
                     /\ SqlLeq(rs[i].next, now)}

\* The Concurrency lowest ids of S.
Lowest(S) == {i \in S : Cardinality({j \in S : j < i}) < Concurrency}

\* claim: reconcile, then mark what is sent in this tick.
Claim ==
  /\ up /\ phase = "recovered"
  /\ \E captured \in Listings({c \in Captures : ~Known(rows, CaptureRow(c))}) :
       /\ \A i, j \in DOMAIN captured : i < j => captured[i][1] <= captured[j][1]
       /\ LET rs == CapturedRows(captured)
          IN \E told \in Listings({a \in Summarised(rs) : ~Known(rs, SummaryRow(rs, a))}) :
               LET new    == ReconciledRows(rs, told)
                   picked == Lowest(Ready(new))
               IN  /\ rows' = [i \in DOMAIN new |->
                                 IF i \in picked THEN [new[i] EXCEPT !.status = "sending"]
                                                 ELSE new[i]]
                   /\ work' = {[row |-> i, phase |-> "claimed", at |-> now] : i \in picked}
  /\ windows' = [w \in DOMAIN windows |->
                   IF w \in DueWindows THEN [windows[w] EXCEPT !.activated = TRUE]
                                       ELSE windows[w]]
  /\ phase' = "idle"
  /\ UNCHANGED <<now, up, config, stopping, feed, silences, guard, sent, faults>>

\* The claim transaction fails: nothing of it is kept, the tick is over.
ClaimFails ==
  /\ up /\ phase = "recovered"
  /\ faults < MaxFaults
  /\ faults' = faults + 1
  /\ phase' = "idle"
  /\ UNCHANGED <<now, up, config, stopping, work, feed, windows, silences, rows, guard, sent>>

\* The job leaves and its row gets a status that is not "sending".
Leave(j, status, next) ==
  /\ rows' = [rows EXCEPT ![j.row].status = status, ![j.row].next = next]
  /\ work' = work \ {j}

\* Mistake: an attempt counts when its result is known.
StartUncounted(j) ==
  /\ work' = (work \ {j}) \cup {[j EXCEPT !.phase = "sending"]}
  /\ UNCHANGED rows

\* The attempt is counted before the message leaves.
StartSending(j) ==
  /\ rows' = [rows EXCEPT ![j.row].attempts = @ + 1]
  /\ work' = (work \ {j}) \cup {[j EXCEPT !.phase = "sending"]}

Misdirected(i) == rows[i].ident # Identity(alarms[rows[i].alarm].probe)

Overtaken(i) ==
  LET a == alarms[rows[i].alarm]
      d == device[a.device]
  IN  a.status = "closed" \/ ~d.active \/ d.ip # a.ip

\* Mistake: the age of the measurement is not looked at again.
OutdatedUnlessOld(i) ==
  LET a == rows[i].alarm
  IN  /\ rows[i].type = "current_status"
      /\ \/ alarms[a].status # "open"
         \/ Current(a).outcome # "no_reply"

\* A message about the present status has no fresh measurement any more.
Outdated(i) ==
  LET a == rows[i].alarm
  IN  /\ rows[i].type = "current_status"
      /\ \/ alarms[a].status # "open"
         \/ ~Fresh(Current(a))
         \/ Current(a).outcome # "no_reply"

\* Mistake: suppression is looked at in the claim only.
BlockedIfOutdated(i) == Outdated(i)

Blocked(i) == Suppressed(rows[i].alarm) \/ Outdated(i)

\* preflight: the last look before the message leaves.
Preflight(j) ==
  LET i == j.row
  IN  /\ j.phase = "claimed"
      /\ \/ /\ Misdirected(i) \/ Overtaken(i)
            /\ Leave(j, "discarded", Never)
         \/ /\ ~Misdirected(i) /\ ~Overtaken(i) /\ Blocked(i)
            /\ rows' = [rows EXCEPT ![i].status = "suppressed", ![i].next = Never,
                                    ![i].settled = FALSE]
            /\ work' = work \ {j}
         \/ /\ ~Misdirected(i) /\ ~Overtaken(i) /\ ~Blocked(i)
            /\ rows[i].attempts >= config.limit
            /\ Leave(j, "failed", Never)
         \/ /\ ~Misdirected(i) /\ ~Overtaken(i) /\ ~Blocked(i)
            /\ rows[i].attempts < config.limit
            /\ StartSending(j)
      /\ UNCHANGED <<now, up, config, phase, stopping, feed, windows, silences, guard, sent, faults>>

\* The server answers 250 to the message (the mock sender always does).
Accept(j) ==
  /\ j.phase = "sending"
  /\ work' = (work \ {j}) \cup {[j EXCEPT !.phase = "accepted"]}
  /\ sent' = Append(sent, j.row)
  /\ UNCHANGED <<now, up, config, phase, stopping, feed, windows, silences, rows, guard, faults>>

\* complete: the answer was read.
CompleteOk(j) ==
  /\ j.phase = "accepted"
  /\ Leave(j, IF rows[j.row].ident \in Routes THEN "accepted" ELSE "mock_sent", Never)
  /\ UNCHANGED <<now, up, config, phase, stopping, feed, windows, silences, guard, sent, faults>>

\* complete: an error, or a timeout that leaves open whether the message was
\* accepted.
CompleteError(j) ==
  LET row == rows[j.row]
  IN  /\ j.phase \in {"sending", "accepted"}
      /\ row.ident \in Routes
      /\ IF row.attempts >= config.limit
         THEN Leave(j, "failed", Never)
         ELSE Leave(j, "retry", now + Backoff(row.attempts))
  /\ UNCHANGED <<now, up, config, phase, stopping, feed, windows, silences, guard, sent, faults>>

\* The transaction of preflight or complete fails: the row stays "sending".
LoseResult(j) ==
  /\ faults < MaxFaults
  /\ faults' = faults + 1
  /\ work' = work \ {j}
  /\ UNCHANGED <<now, up, config, phase, stopping, feed, windows, silences, rows, guard, sent>>
-----------------------------------------------------------------------------
(* The process and the clock.                                              *)

\* Mistake: worker.start recovers before it looks at the hold.
BootRecovers(p, ident, limit) ==
  /\ ~up
  /\ up' = TRUE
  /\ config' = IF guard THEN [probe |-> Simulator, delivery |-> Off, limit |-> limit]
                        ELSE [probe |-> p, delivery |-> ident, limit |-> limit]
  /\ rows' = RecoveredRows(limit)
  /\ phase' = "idle"
  /\ UNCHANGED <<now, stopping, work, feed, windows, silences, guard, sent, faults>>

\* The lifespan: a restored copy runs simulated, silent and without a worker.
Boot(p, ident, limit) ==
  /\ ~up
  /\ up' = TRUE
  /\ config' = IF guard THEN [probe |-> Simulator, delivery |-> Off, limit |-> limit]
                        ELSE [probe |-> p, delivery |-> ident, limit |-> limit]
  /\ rows' = IF guard THEN rows ELSE RecoveredRows(limit)
  /\ phase' = "idle"
  /\ UNCHANGED <<now, stopping, work, feed, windows, silences, guard, sent, faults>>

\* An orderly shutdown lets the worker drain, ...
StopBegin ==
  /\ up /\ ~stopping
  /\ stopping' = TRUE
  /\ UNCHANGED <<now, up, config, phase, work, feed, windows, silences, rows, guard, sent, faults>>

\* Mistake: the worker is not waited for.
StopWithoutDrain ==
  /\ up /\ stopping
  /\ up' = FALSE /\ phase' = "off" /\ stopping' = FALSE
  /\ UNCHANGED <<now, config, work, feed, windows, silences, rows, guard, sent, faults>>

\* ... then the process ends and gives up the database lock.
StopEnd ==
  /\ up /\ stopping
  /\ phase = "idle" /\ work = {}
  /\ up' = FALSE /\ phase' = "off" /\ stopping' = FALSE
  /\ UNCHANGED <<now, config, work, feed, windows, silences, rows, guard, sent, faults>>

Crash ==
  /\ up
  /\ up' = FALSE /\ phase' = "off" /\ stopping' = FALSE /\ work' = {}
  /\ UNCHANGED <<now, config, feed, windows, silences, rows, guard, sent, faults>>

\* restore-drill: the database is a copy of this one from now on.
Restore ==
  /\ ~up /\ ~guard /\ MaxRestores > 0
  /\ guard' = TRUE
  /\ UNCHANGED <<now, process, feed, windows, silences, rows, sent, faults>>

Tick ==
  /\ now < MaxTime
  /\ now' = now + 1
  /\ UNCHANGED <<process, feed, windows, silences, rows, guard, sent, faults>>
-----------------------------------------------------------------------------
Init ==
  /\ now = 1
  /\ up = FALSE /\ phase = "off" /\ stopping = FALSE /\ work = {}
  /\ config \in [probe : Probes, delivery : Deliveries, limit : Limits]
  /\ device \in [Devices -> [active : {TRUE}, ip : Addresses, version : {1}]]
  /\ \A d, e \in Devices : device[d].ip = device[e].ip => d = e
  /\ latest = [k \in Devices \X (Probes \cup {Simulator}) |-> Unmeasured]
  /\ alarms = <<>> /\ windows = <<>> /\ silences = <<>> /\ rows = <<>>
  /\ guard = FALSE
  /\ sent = <<>> /\ faults = 0

Dispatch(j) == Preflight(j) \/ Accept(j) \/ CompleteOk(j) \/ CompleteError(j)

Next ==
  \/ \E d \in Devices : \/ \E outcome \in Outcomes : Measure(d, outcome)
                        \/ \E ip \in Addresses, act \in BOOLEAN : UpdateDevice(d, ip, act)
                        \/ \E starts, ends \in 1 .. MaxTime : CreateMaintenance(d, starts, ends)
  \/ \E w \in DOMAIN windows : CancelMaintenance(w)
  \/ \E a \in DOMAIN alarms, ends \in 1 .. MaxTime : SilenceAlarm(a, ends)
  \/ \E s \in DOMAIN silences : CancelSilence(s)
  \/ TickRecover \/ Claim \/ ClaimFails
  \/ \E j \in work : Dispatch(j) \/ LoseResult(j)
  \/ \E p \in Probes, ident \in Deliveries, limit \in Limits : Boot(p, ident, limit)
  \/ StopBegin \/ StopEnd \/ Crash \/ Restore
  \/ Tick

Spec == Init /\ [][Next]_vars

\* Claim, or its failure.
TickEnds == up /\ phase = "recovered" /\ phase' = "idle"

\* The clock moves, a running worker polls, every dispatch ends (sends have a
\* deadline).  Boots, crashes, requests and measurements are not promised.
Fairness ==
  /\ WF_vars(Tick)
  /\ WF_vars(TickRecover)
  /\ WF_phase(TickEnds)
  /\ WF_vars(\E j \in work : Dispatch(j))

FairSpec == Spec /\ Fairness
-----------------------------------------------------------------------------
(* Properties.                                                             *)

Alarm == [device : Devices, ip : Addresses, probe : Probes \cup {Simulator},
          status : {"open", "resolved", "closed"}, opened : Nat, ended : Nat]

Window == [device : Devices, starts : Nat, ends : Nat, cancelled : Nat,
           activated : BOOLEAN, ident : Identities]

Silence == [alarm : Nat, starts : Nat, ends : Nat, cancelled : Nat]

Message == [alarm : Nat, type : Outage \cup Resolution,
            key : {"opened", "resolved", "maintenance", "silence", "reconcile"} \X Nat,
            ident : Identities,
            status : Active \cup Success \cup {"disabled", "failed", "suppressed", "discarded"},
            attempts : Nat, created : Nat, next : Nat, settled : BOOLEAN]

Job == [row : Nat, phase : {"claimed", "sending", "accepted"}, at : Nat]

\* Every variable keeps its type; every reference points to a row that exists;
\* a process that is down has nothing in flight.
TypeOK ==
  /\ now \in 1 .. MaxTime
  /\ up \in BOOLEAN /\ stopping \in BOOLEAN /\ guard \in BOOLEAN
  /\ config \in [probe : Probes \cup {Simulator}, delivery : Identities, limit : Limits]
  /\ phase \in {"off", "idle", "recovered"}
  /\ work \subseteq Job
  /\ device \in [Devices -> [active : BOOLEAN, ip : Addresses, version : Nat]]
  /\ latest \in [Devices \X (Probes \cup {Simulator}) ->
                   [at : Nat, outcome : Outcomes \cup {"none"}]]
  /\ alarms \in Seq(Alarm) /\ windows \in Seq(Window) /\ silences \in Seq(Silence)
  /\ rows \in Seq(Message)
  /\ sent \in Seq(DOMAIN rows)
  /\ faults \in 0 .. MaxFaults
  /\ \A i \in DOMAIN rows : rows[i].alarm \in DOMAIN alarms
  /\ \A s \in DOMAIN silences : silences[s].alarm \in DOMAIN alarms
  /\ \A j \in work : j.row \in DOMAIN rows
  /\ ~up => phase = "off" /\ work = {} /\ ~stopping

FeedTarget == [d \in Devices |-> [active |-> device[d].active, ip |-> device[d].ip]]
FeedAlarms == [a \in DOMAIN alarms |->
                 [device |-> alarms[a].device, ip |-> alarms[a].ip,
                  mode |-> alarms[a].probe, status |-> alarms[a].status]]

Feed == INSTANCE AlarmFeed WITH
  Places <- Addresses, Modes <- Probes \cup {Simulator},
  target <- FeedTarget, feed <- FeedAlarms

\* The alarms that are notified about form an alarm feed, like those of Monitor.
FeedSpec == Feed!Spec

\* Of one alarm at most one message is on its way, and it is the first that is
\* still to go: claims of several ticks, retries and recovered rows never
\* overtake, and every job has a row of its own that is marked as being sent.
OneAtATime ==
  /\ \A i, k \in DOMAIN rows :
       rows[i].status = "sending" /\ rows[k].status \in Active /\ rows[i].alarm = rows[k].alarm
       => i <= k
  /\ \A j \in work : rows[j.row].status = "sending"
  /\ \A j, k \in work : j.row = k.row => j = k
  /\ Cardinality(work) <= Concurrency

\* A reader is never told of an outage after its end was told: the server
\* accepts no "opened" or "current_status" of an alarm after a "resolved" or
\* "resolved_summary" of it, whatever is retried, repeated or suppressed.
NewsInOrder ==
  \A p, q \in DOMAIN sent :
    /\ p < q
    /\ rows[sent[p]].alarm = rows[sent[q]].alarm
    /\ rows[sent[p]].type \in Resolution
    => rows[sent[q]].type \in Resolution

\* Delivery is at least once and boundedly often: a row said to be delivered
\* was accepted by a server, and a row is handed to a server at most as often
\* as attempts counts, across crashes, lost results and changed limits.
AttemptsAccountForSends ==
  \A i \in DOMAIN rows :
    LET handed == Cardinality({p \in DOMAIN sent : sent[p] = i})
    IN  /\ rows[i].status \in Success => handed > 0
        /\ handed <= rows[i].attempts
        /\ \E limit \in Limits : rows[i].attempts <= limit

\* Simulated alarms stay in the simulation: no message about one is addressed
\* to a mail server, also when a maintenance window brought the address.
MockStaysMock ==
  \A i \in DOMAIN rows :
    rows[i].ident \in Routes => alarms[rows[i].alarm].probe # Simulator

\* No window or silence was cancelled at the very clock reading it began with:
\* it would have suppressed messages and have no length to reconcile them by.
NoneVanished ==
  /\ \A w \in DOMAIN windows : windows[w].cancelled # windows[w].starts
  /\ \A s \in DOMAIN silences : silences[s].cancelled # silences[s].starts

\* One episode, one message: two messages about the same outage that were
\* neither suppressed nor discarded have the end of a suppression between
\* them, and the end of an outage is told once -- unless it coincides with the
\* begin of a maintenance window.
OneMessagePerEpisode ==
  \A i, j \in DOMAIN rows :
    LET a    == rows[i].alarm
        told == Active \cup Success
        splits(v) == /\ Effective(v)
                     /\ rows[i].created <= EffectiveEnd(v)
                     /\ EffectiveEnd(v) <= rows[j].created
    IN  /\ NoneVanished
        /\ i < j /\ rows[j].alarm = a /\ rows[i].ident = rows[j].ident
        /\ {rows[i].status, rows[j].status} \subseteq told
        => /\ {rows[i].type, rows[j].type} \subseteq Outage
              => \/ \E w \in DOMAIN windows :
                      windows[w].device = alarms[a].device /\ splits(windows[w])
                 \/ \E s \in DOMAIN silences : silences[s].alarm = a /\ splits(silences[s])
           /\ {rows[i].type, rows[j].type} \subseteq Resolution
              => \E w \in DOMAIN windows : windows[w].starts = alarms[a].ended

\* Who was told of an outage is told of its end: when nothing of a resolved
\* alarm is queued or waits for reconciliation, and an outage message was
\* delivered to a target, there is news of the end, and of what was addressed
\* to that target (settings may have changed) not all was left suppressed --
\* by maintenance: a silence of the alarm captures nothing.
ResolutionIsTold ==
  \A i \in DOMAIN rows :
    LET a    == rows[i].alarm
        mine == {j \in DOMAIN rows : rows[j].alarm = a}
        ends == {j \in mine : rows[j].type \in Resolution}
        here == {j \in ends : rows[j].ident = rows[i].ident}
    IN  /\ rows[i].type \in Outage /\ rows[i].status \in Success
        /\ alarms[a].status = "resolved"
        /\ \A j \in mine : rows[j].status \notin Active
        /\ Unsettled(rows, a) = {}
        /\ NoneVanished
        /\ \A s \in DOMAIN silences : silences[s].alarm # a
        => /\ ends # {}
           /\ here # {} => \E j \in here : rows[j].status # "suppressed"

\* The jobs that pass the last check in a step: their message leaves.
Leaving == {j \in work' : j.phase = "sending" /\ j \notin work}

\* The maintenance windows of alarm a's device, and the silences of a.
MaintenanceOf(a) ==
  {windows[w] : w \in {v \in DOMAIN windows : windows[v].device = alarms[a].device}}
HushOf(a) == {silences[s] : s \in {v \in DOMAIN silences : silences[v].alarm = a}}

\* News is from after the interval: a message that leaves was queued after the
\* end of every interval v of S that had begun when it was claimed and that
\* had not come too late for its alarm.
NewsIsFrom(j, S) ==
  LET row == rows[j.row]
      a   == alarms[row.alarm]
  IN  \A v \in S :
        /\ Effective(v) /\ v.starts < j.at
        /\ a.ended = Never \/ v.starts <= a.ended
        => EffectiveEnd(v) <= row.created

\* Maintenance is respected to the last moment: nothing leaves while a window
\* of the device or a silence of the alarm lasts, also one that began after
\* the message was claimed; and nothing from before or within a window that
\* had begun when it was claimed leaves at all -- also when the window ended
\* while the process was down, or was cancelled, or the message waited for a
\* retry.  (A window that both began and ended after the claim is past.)
SendsRespectMaintenance ==
  [][\A j \in Leaving :
       LET a == rows[j.row].alarm
       IN  /\ NewsIsFrom(j, MaintenanceOf(a))
           /\ \A v \in MaintenanceOf(a) \cup HushOf(a) :
                ~(v.starts <= now /\ now < EffectiveEnd(v))]_vars

\* News is from after the silences of the alarm, as from after the windows.
SendsRespectSilences ==
  [][\A j \in Leaving : NewsIsFrom(j, HushOf(rows[j.row].alarm))]_vars

\* "Still unreachable" is never old news: when such a message leaves, after
\* whatever it waited for, the alarm is open, its target did not answer within
\* the last FreshFor, and that measurement is from after all the suppression
\* that was over when the message was queued.
StatusIsCurrent ==
  [][\A j \in Leaving :
       LET row == rows[j.row]
           a   == row.alarm
           m   == Current(a)
       IN  row.type = "current_status"
           => /\ alarms[a].status = "open"
              /\ m.outcome = "no_reply" /\ now - m.at <= FreshFor
              /\ \A v \in MaintenanceOf(a) \cup HushOf(a) :
                   Effective(v) /\ EffectiveEnd(v) <= row.created
                   => EffectiveEnd(v) <= m.at]_vars

\* The table is a ledger: a row never disappears nor changes what it says; a
\* decided row stays decided, a suppressed one never goes out; attempts only
\* grow, and only while sending.
OutboxIsALedger ==
  [][\A i \in DOMAIN rows :
       LET r == rows[i]
           s == rows'[i]
       IN  /\ i \in DOMAIN rows'
           /\ <<r.alarm, r.type, r.key, r.ident, r.created>> =
                <<s.alarm, s.type, s.key, s.ident, s.created>>
           /\ r.status \in Success \cup {"failed", "discarded", "disabled"} => s = r
           /\ r.status = "suppressed" => s.status \in {"suppressed", "discarded"}
           /\ r.settled => s = r
           /\ r.attempts <= s.attempts
           /\ r.attempts < s.attempts => r.status = "sending" /\ s.status = "sending"
    ]_vars

\* A restored copy never works off the queue it was restored with.
RestoredQueueIsFrozen ==
  [][guard => \A i \in DOMAIN rows : rows'[i] = rows[i]]_vars

\* Row i is to be sent, and nothing before it is due after the modelled time.
Waits(i) ==
  /\ i \in DOMAIN rows /\ rows[i].status \in Active
  /\ \A k \in 1 .. i : rows[k].alarm = rows[i].alarm /\ rows[k].status \in Active
                      => rows[k].next <= MaxTime

\* What the queue promises while the process runs: an active row is delivered,
\* given up or suppressed.
RowsLeaveTheQueue ==
  \A i \in 1 .. MaxAlarms * 2 + MaxWindows + MaxSilences :
    (up /\ ~guard /\ Waits(i)) ~> (~up \/ stopping \/ ~Waits(i))

\* A closed alarm does not await reconciliation for ever.
ClosedAlarmsSettle ==
  \A a \in 1 .. MaxAlarms :
    (up /\ ~guard /\ a \in DOMAIN alarms /\ alarms[a].status = "closed"
        /\ Unsettled(rows, a) # {})
      ~> (~up \/ stopping \/ Unsettled(rows, a) = {})

\* Maintenance is [start, end): suppression of a device is in force exactly
\* from the start to the end, or cancellation, of a window.
WindowsAreHalfOpen ==
  \A w \in DOMAIN windows :
    InForce(windows[w], now) <=>
      windows[w].starts <= now /\ now < EffectiveEnd(windows[w])
=============================================================================
