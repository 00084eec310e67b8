# AvIT-Data in TLA+

AvIT-Data (repository root: `src/`) watches network devices with periodic probes, opens and closes
alarms, mails notifications about them and offers a small web panel. It is one Python process
(FastAPI, one asyncio event loop, one SQLite file) plus an operator's command line that works on the
same file, and on copies of it.

This directory models the parts of it in which the order of events matters, checks the models with
TLC and proves the most important facts with TLAPS. All paths below are relative to `src/app/`
unless they start with `docs/`.

Contents: 1 inventory, 2 modules, 3 monitoring core, 4 notifications, 5 backup, 6 retention,
7 reports, 8 accounts, 9 runs, 10 proofs, 11 findings, 12 what is not modelled, 13 plan.

## 1. Inventory

| Component | State | Operations | Where it is hard |
|---|---|---|---|
| **Monitoring core**: `services/monitoring.py`, `services/alarms.py`, `services/scheduler.py`, `api/devices.py`, `api/monitoring.py` | devices, monitor_states (streaks), alarms, monitoring_results; in memory the epoch, the set of busy devices, the semaphore and its waiters, the scheduler task | create / update a device, manual check, sweep, start / stop, acknowledge | what a check reads before its probe is used after it; cancellation of gathered tasks; streaks across stops and boots |
| **Notifications**: `services/notifications.py`, `services/maintenance.py`, `api/operations.py` | notification_outbox, maintenance_windows, alarm_silences; the worker task and its sends in flight | enqueue (inside the alarm transaction), recover, claim with reconciliation, preflight, send, complete, drain; create and cancel windows and silences | at-least-once sending, retries against order, suppression that begins or ends between any two steps, a process that is down during a window, changed settings |
| **Backup and restore drill**: `services/backup.py` | files and their manifests | copy, verify, publish by two hard links, clean up | invocations that race, fail or are killed between two file operations; readers between the links |
| **Data retention**: `services/retention.py`, `services/timestamps.py` | monitoring_results, user_sessions | plan, batched deletion | the monitor commits between batches; SQLite reuses ids |
| **Lifespan and process lock**: `main.py`, `services/process_lock.py` | an OS lock, the recovery hold | boot, shutdown | order of reset, recovery, start and drain |
| **Login, sessions, request checks**: `api/auth.py`, `services/security.py`, `dependencies.py` | user_sessions, cookies, rate limits in memory | login page, login, request, logout | requests that have read a session while it is ended, a slow hash, threads that write late, restored copies |
| **User administration**: `services/users.py`, `cli.py` | users | create, reset password, deactivate | commands that race with logins and with each other: the last active administrator |
| **Reports and CSV export**: `services/reporting.py`, `api/reports.py` | the report being made | metrics, CSV file | several queries beside writers; stored texts compared at whole seconds |
| Audit log, event log: `services/audit.py`, `services/event_logging.py` | append-only | add | none of its own |
| Overview, operations reads | none | queries | |
| Probe adapters, SMTP sender | none | probe, send | timeouts |
| Web panel: `static/*.js` | what the page shows | refresh | a late response of an older request |
| Demonstrations, packaging and verification scripts | none | | |

How they interact: the HTTP handlers, the sweep and the manual checks run on one event loop and meet
only in the database and in `MonitoringService`. A measurement is inserted, evaluated, and its
notification queued, in one `BEGIN IMMEDIATE` transaction, so the writers are serialised. The worker
polls the outbox and never holds a transaction while it sends. Login, logout and reports are plain
functions that run in a pool of threads. The command-line tools are other processes: retention and
user administration write to the live file, backup only reads it. A restored copy carries a
`recovery_guard` row, which makes the application boot in simulation, silent, without a worker.

The correctness of each component, in a sentence: *Monitoring*: alarms and streaks say exactly what
the history of current measurements says, whatever changed while a probe was in flight, and no
device, sweep or stop hangs. *Notifications*: per alarm, messages leave in order, boundedly often,
never about what maintenance covered, and the end of a told outage is told. *Backup*: a manifest
never lies and an invocation never touches another's file. *Retention*: what an alarm, a streak or a
reader still needs is never deleted. *Sessions and users*: what has ended stays ended, a password
that was reset opens nothing, failed logins are bounded. *Reports*: each shows one state exactly.

## 2. Modules

| Module | Role |
|---|---|
| `AlarmFeed` | abstract: what a reader of the alarms may rely on |
| `Monitor` | the monitoring core and the process around it; implements `AlarmFeed` |
| `MonitorProofs` | theorems about its alarms, measurements and tasks |
| `MonitorHistoryProofs` | theorems that compare its streaks and alarms with the history |
| `Intervals` | instants, their order in SQL and in Python, suppression intervals |
| `Outbox` | notifications, maintenance, silences, the worker, the process around it; its alarms implement `AlarmFeed` |
| `OutboxProofs` | theorems about the queue and the worker |
| `OutboxEpisodeProofs` | theorems about what a reader is told of an outage |
| `BackupShelf` | abstract: what a reader of backups may rely on |
| `Backup` | the two-link protocol; implements `BackupShelf` |
| `BackupProofs` | theorems about it, the refinement among them |
| `Retention` | batched deletion beside a monitor for one probe mode |
| `RetentionProofs` | theorems about it |
| `Reports` | reports read beside `Retention`; the texts are those of `Intervals` |
| `ReportsProofs` | theorems about it, which carry those of `RetentionProofs` over |
| `Accounts` | users, sessions, the login rate limit, and the commands on them |
| `AccountsProofs` | theorems about it |
| `MCMonitor`, `MCOutbox`, `MCBackup`, `MCReports`, `MCAccounts` | symmetry sets for TLC |

`Outbox` and `Retention` each contain the slice of the monitoring core they depend on, not the whole
of `Monitor`: its product with either would be beyond TLC. The slice in `Outbox` lets any measurement
open an alarm (a superset of what a threshold allows); the one in `Retention` keeps threshold,
streak and stale checks because the protections are about them, and of the alarms the open ones.
`AlarmFeed` is what the slice in `Outbox` has in common with `Monitor`: alarms are raised one at a time,
for an active device at its present address and once per mode, and each ends once, by a reply of that
address or in the step that gives its device another target. Both modules define `FeedSpec`, by a mapping
that shows of an alarm its device, address, mode and status and of a device its address and activity, and
both are checked and proved to imply it. `Reports` composes: its other steps
are those of `Retention`, held back only where a report holds the lock of the database.

Conventions. One action is one transaction, one file operation, or the code between two awaits.
Database tables are functions or sequences whose positions are ids. An operator whose comment begins
with "Mistake:" belongs to no specification: it is the next operator with one plausible bug, and
`PROJECT.json` pairs it with the property that this bug breaks. Bounds are the constants `Max...`
and `Horizon`; everything else in CONSTANTS is a setting of the program or a set of names.

## 3. Monitoring core (`Monitor`)

*State.* `device`, `streak`, `alarms`, `results` are the tables and survive a `Crash`. `mode`,
`epoch`, `active` (`_active_devices`), `checks`, `queue` (waiters of the semaphore) and `sched`
are memory. A record in `checks` is a running `check_and_record` with what it read before its probe.
`era` and the field `disturbed` are history: the number of streak resets, and whether the target or
the epoch of a check changed since its snapshot. Times that the code stores as clock readings
(`first_no_reply_at`, ...) are ids of measurements.

*Actions.* `CreateDevice`, `UpdateDevice` (closes the alarms, clears the streaks and bumps the
target version in one transaction), `Acknowledge`, `StartManual`, `GrantSlot` (FIFO semaphore),
`Save` (insert and evaluate), `Abandon` (target not allowed, or the transaction fails),
`LeaveCancelled` (finally clauses of a cancelled task), `StartScheduler`, `SweepBegin`,
`SweepBatch`, `SweepCheck`, `SweepEnd`, `StopBegin` and `StopFinish` (the halves of `stop()` around
its await), `Boot`, `Crash`. `Reset` bumps the epoch even if its UPDATE then fails, as
`scheduler.reset` does. An era ends with a reset that was committed: a streak that lives on after a stop
whose UPDATE failed is one streak for `StreakMatchesHistory` and `AlarmJustified`, which do not say that
a failing stop empties it (a second stop does).

*Properties.* `StreakMatchesHistory`, `NoMissedAlarm`, `AlarmJustified` and `AlarmFollowsHistory`
define, from the recorded history alone, what streaks and alarms have to be. `CurrentMeansUndisturbed`
says that comparing snapshots (version, address, activity, epoch) detects exactly the checks whose
world changed. `FeedSpec` says that the alarms are an `AlarmFeed`. `OpenAlarmTracksTarget`, `OneOpenAlarm`
and `AlarmLifecycle` (how an alarm ends, and which step ends it) follow from that and from
`AlarmFollowsHistory` for the most part; they have theorems of their own and are not run besides.
`ChecksAreExclusive` and `NoOrphanScheduledChecks` are about tasks.
Liveness: `NothingHangs`, which is `SweepsEnd`, `StopsReturn` and `DevicesAreReleased`.

*Fairness.* The event loop runs every ready task: a probe ends because its subprocess has a watchdog,
a released semaphore wakes its first waiter, a gathered batch continues. Requests, boots, crashes
and the beginning of a sweep are not promised. The FIFO order of `asyncio.Semaphore`, and that a
cancelled waiter leaves its queue, is taken from the library.

*Abstractions.* Probe outcomes are nondeterministic. A sweep that fails as a whole (the code logs and
goes on) is a sweep without checks. Taking a free semaphore does not yield, so the device is
reserved and the slot taken in one step.

## 4. Notifications (`Intervals`, `Outbox`)

*State.* `rows`, `windows`, `silences`, `guard` are tables, `work` the dispatches in flight, `phase`
the place of the worker within a tick, `config` the settings the process was booted with, `latest`
what `current_measurement` would find. `sent` is history: which rows a server accepted, in order.

*Actions.* `Measure` (alarm and outbox row in one transaction), `UpdateDevice`, `CreateMaintenance`,
`CancelMaintenance`, `SilenceAlarm`, `CancelSilence`; the tick: `TickRecover`, `Claim` (capture of
due windows, reconciliation and claim are one transaction), `ClaimFails`; per dispatch: `Preflight`,
`Accept`, `CompleteOk`, `CompleteError`, `LoseResult`; `Boot` with any settings, `StopBegin` and
`StopEnd` (drain), `Crash`, `Restore`, and the clock `Tick`. `CompleteError` from the phase
"accepted" is the lost answer: the server took the message and the row goes to retry. The last look of
`Preflight` compares routing (`Misdirected`), target (`Overtaken`), suppression and measurement
(`Blocked`), in this order, and counts the attempt in the step that hands the message over.
Queries without ORDER BY may return rows in any order (`Listings`).

*Time.* Suppression compares instants, so the model has a clock. The code compares them as datetimes
in Python and as texts in SQL; `Intervals` has both orders (`<=` and `SqlLeq`), which agree when all
instants are whole seconds (`TicksPerSecond = 1`). The reports and the retention command use
`services/timestamps.py` and are exact.

*Properties.* `NewsInOrder`, `OneAtATime`, `AttemptsAccountForSends`, `OneMessagePerEpisode`,
`ResolutionIsTold`, `SendsRespectMaintenance`, `StatusIsCurrent`, `MockStaysMock`, `OutboxIsALedger`,
`RestoredQueueIsFrozen`, `FeedSpec`; liveness `RowsLeaveTheQueue` and `ClosedAlarmsSettle`.
`SendsRespectMaintenance` compares a message that leaves with every window of its device and silence of
its alarm: none lasts at that moment, whether it began before or after the claim, and the message tells
nothing from before or within a window that had begun at the claim. The first half rests on the second
look of `Preflight`, the second on `capture_maintenance`. `StatusIsCurrent` is about the summaries of
outages that go on: one leaves only while its alarm is open, on the strength of a fresh no_reply that is
from after the end of every window and silence that was over when the summary was queued.

*Fairness.* The clock moves; a running worker polls (`NotificationWorker` loops with a sleep) and a
tick that began ends; every dispatch ends because sends have a deadline. Each by weak fairness.
Within the modelled time: `RowsLeaveTheQueue` speaks of rows whose retry falls inside it.

*Where the properties stop.*

- In creating a window or silence the code reads the clock just before `BEGIN IMMEDIATE`; the model
  reads both at once. The two commits of a preflight that discards or suppresses are one step.
- At most one measurement of a target per clock reading.
- A window or silence that both begins and ends between a claim and its preflight is seen by neither; what
  was claimed before it leaves after it. `SendsRespectMaintenance` does not ask otherwise.
- A server accepts a message before the client gives up, or never. One that accepts later, after the row
  went to retry, is not modelled: `NewsInOrder` is the order up to that, and the hand-overs that
  `AttemptsAccountForSends` counts stay as many.
- A window or silence cancelled at the very reading at which it began has suppressed messages but no
  length, so reconciliation has no boundary for them. `OneMessagePerEpisode` and `ResolutionIsTold`
  exclude it by name (`NoneVanished`).
- A window that begins at exactly the instant an alarm was resolved captures the alarm: its resolution
  may be told again at the end. `OneMessagePerEpisode` allows that one case.
- `ResolutionIsTold` leaves out alarms that have been silenced: a silence captures nothing (see
  finding 2).

## 5. Backup (`BackupShelf`, `Backup`)

Invocations `Jobs` run `Begin`, `Verify`, `Copy`, `LinkTarget`, `LinkManifest`, `Finish`; from
anywhere `Fail` (an error, or the deadline) and then `RemoveManifest`, `RemoveTarget`, `GiveUp`; from
anywhere `Kill`. `Write` changes the live database. A file is who linked it and what it holds; equal
contents have equal hashes. A source is a live database or any path, so backups of restored copies
and restores of those are included. An unlink that itself fails during the cleanup leaves what a
`Kill` leaves. The private temporary files have no effect on anyone and are left out.

`BackupShelf` has, per path, what a reader may trust: a file whose manifest vouches for it. It allows
`Publish` on an empty place and `Withdraw`; a published backup is never replaced. `Backup` maps to it
by `Vouched`. Four further properties say that manifests are true (`ManifestTellsTruth`), that the
reported outcome agrees with what is left on disk (`OutcomeIsHonest`), that no step replaces a file or a
manifest and only the failing invocation that linked one removes it (`OthersAreUntouched`), and that the
recovery guard is hereditary (`QuarantineIsInherited`). For the last, the history variable `lineage` has
of each invocation all those its copy has passed through; a published file is marked exactly if one of
them was a restore, however long the chain and whatever became of the files in between.

## 6. Retention (`Retention`)

`log` is everything ever measured, `kept` the positions that still have a row; their difference is
what was deleted, so properties can speak of what *should* be there. `NewId` gives what SQLite gives
to a plain INTEGER PRIMARY KEY: the highest present id plus one. The command is `Begin`, `Batch` (one
transaction: protections evaluated anew under the write lock, the lowest ids deleted), `Finish`,
`Kill`; beside it the monitor: `StartCheck`, `Save`, `UpdateDevice`, `Stop`, `Restart`, `Tick`.

`IdsAreNeverReused` and `CurrentIsFound` rest on `latest_per_target`, `EvidenceIsKept` on the hand-over
from `pending_streak_evidence` to `open_alarm_evidence` at the moment an alarm opens, `StreakIsKept`
on the former alone.

Evidence in `EvidenceIsKept` is told by the target version: two measurements of different targets may
have the same clock reading. The clock does not step back (the code compares clock readings, so with a
clock that is set back the protections would not hold either). There is one probe mode, and every row
is evaluated in the transaction that inserts it. The deletion of ended sessions is the action `Purge`
of `Accounts`; the dry run and the counts are left out.

## 7. Reports (`Reports`)

A report (`services/reporting.py`) opens an explicit transaction, reads several times and rolls back.
`Count` is the aggregates of `metrics`, `Points` the selection of its points after them, `Export` the
single query of `measurements_csv` with its limit, `Close` the rollback or the end of the process.
The database has a rollback journal (`database.py` sets no other), so a transaction that has read keeps
others from committing: `Other` is any step of `Retention`, which leaves the tables alone while a report
is open (`Shared`). In WAL mode the report would see its snapshot instead, and the same would be shown.

`Matches` is `conditions`: the exact bounds compare `timestamp_key`, which pads the fraction and
therefore orders as the clock does; the coarse bounds compare the stored text, for which the index
exists, with the first 19 characters of a bound. `Coarse` is that comparison: no text sorts before the
prefix of its second, and the text of a whole second, which ends with Z, sorts after all others of its
second (`SqlLeq` of `Intervals`, the order behind finding 1). `Latest` and `Earliest` are ORDER BY with
LIMIT.

`ReportIsExact` says that counts, points and file are those of the measurements in the table at that
moment, by the clock, and that the points are the last ones and the file is complete or refused. It
fails if every query is a transaction of its own, and if the coarse bound loses a measurement.

Left out: the filters by probe mode and source (a conjunct of the query each), round-trip times and
their average, the parsing of the period and its 30 days, the format of the file. A writer that waits
for the report longer than its busy timeout fails and is rolled back; that is a step of `Retention`
that did not happen, or `Kill` for the cleanup.

## 8. Accounts (`Accounts`)

*State.* `users` and `sessions` are tables, `cookie` what each browser holds, `failed` and `blocked` the
two dictionaries of `LoginRateLimiter`, `task` what a handler or a command has read and not written yet,
`saved` a backup. A token is a number in the order of issue and stands for the random id and the row
found by its hash. A password is the number of resets behind it (`key`); a session remembers the
password its login was checked against. `late` marks a login that had read a password before a reset
that committed first.

*Actions.* The handlers run in threads, and a SELECT begins no transaction with this driver, so a
handler that reads and later writes is two actions: `LoginBegin` (session, limit, user and password
hash) and `LoginFails` or `LoginSucceeds`; `RequestBegin` and `Touch` (`resolve_session` updates only
`last_activity_at`), then `Logout`; `DeactivateBegin` (the count) and `DeactivateEnd`. In one action:
`LoginPage`, `Refuse` (an ended session is marked), `CreateUser` and `ResetPassword` (each writes in one
transaction what does not depend on what it read), `Purge` (cleanup of sessions, batches of one),
`Backup`, `Restore` (restore-drill and a boot on the copy, with browsers that kept their cookies),
`Crash` (memory is lost, commands live on) and `Tick`.

*Properties.* `EndedForGood`: a session that was revoked, deleted, expired, disowned, or unused for too
long with no request in flight, is never usable again. `PasswordsEndSessions`: an accepted session knows
the present password. `AttemptsAreBounded`: failed logins per account and per address within a window.
`AnAdminRemains` is finding 3.

*The bound on failed logins.* With one thread it is `login_max_attempts`. Logins that are hashed at the
same time were all let in, so n tasks add n - 1. Each of them records its failure with the clock it read
at its beginning, and `record_failure` sets the end of the lock from that, also backwards; a late one can
therefore reopen the limit early. TLC finds MaxAttempts - 1 + n(n+1)/2 for two and for three tasks, and
nothing less. It needs a lock at least as long as the window (both are 300 s by default, and settings of
their own); with a shorter lock the failures before it still count within the window.

*Where the model stops.*

- The reads of a login before its hash are one step: session, limit and user are read at once.
- A login in flight across `reset-password` succeeds with the former password, and its session is not
  among those the reset revokes. `PasswordsEndSessions` leaves it out (`late`): no document promises
  otherwise. Across a deactivation it creates a session that is refused at its first use.
- The response that sets a cookie arrives with the commit. That a form comes from the page of its
  session (CSRF token, origin) is an input: `fits` for the login page, assumed for login and logout.
- Database ids of deleted sessions may be given again; nothing refers to them, so rows are known by
  token only.
- Audit rows are left out, and names that fit no user count as a user that does not exist yet.

## 9. Runs

| Run | Instance | Shows |
|---|---|---|
| `MonitorAlarms` | 1 device, 2 addresses, 2 modes, threshold 2, 4 measurements, 3 target versions, 2 eras | alarms and streaks follow the history, with moves there and back while a probe is in flight, stops and a restart; the alarms are an `AlarmFeed` |
| `MonitorTasks` | 2 devices, 2 addresses, 2 modes, 1 slot, threshold 1, 3 measurements, fairness | bookkeeping of checks, sweeps, stops, and their liveness |
| `OutboxMaintenance` | 1 alarm, 1 window or 1 silence, 2 attempts, 4 clock readings | order, maintenance and silences respected by what leaves, no stale status |
| `OutboxQueue` | 2 alarms of a device that moves, 2 slots, limits 1 and 2, 1 fault | claims, retries, recovery, counted attempts; the alarms are an `AlarmFeed` |
| `OutboxBoots` | 2 routings, 1 window or 1 silence, 3 readings, restore | single messages, no lost resolution, with changed recipients; rows are a ledger; frozen queue of a restored copy |
| `OutboxLive` | ICMP and simulation, 1 window, 2 versions, 1 fault, fairness | liveness of the queue; simulated alarms stay simulated |
| `OutboxSeconds` | two ticks per second | finding 1 (violation) |
| `OutboxHush` | 1 silence, no window | finding 2 (violation) |
| `BackupRace` | 3 invocations, 3 paths, 1 write | the shelf, manifests, outcomes, quarantine along chains of copies |
| `RetentionBatches` | 1 device, 2 addresses, threshold 3, batches of 1, at most 2, 4 measurements, 2 readings, two ticks per second; reports after 3 measurements, limits 1 | protections between batches, and exact reports at any point between them |
| `AccountsSessions` | 1 user, 1 browser, 2 tasks, 2 sessions, 1 reset, 1 backup, 4 readings; idle 2, absolute 3, limit 1 | ended sessions, passwords, failed logins |
| `AccountsAdmins` | 2 administrators, 2 tasks | finding 3 (violation) |

The largest have about 3.4 million states (`OutboxBoots`), 2.8 (`RetentionBatches`), 2.4
(`OutboxMaintenance`) and 2.3 (`AccountsSessions`), each a few minutes.

Why the bounds suffice. A stale measurement needs two versions, one that returns to its address three.
A streak that is cut short, and then grows to an alarm that is resolved, needs four measurements at
threshold 2. A window needs a reading before, at its start, within and after. Two attempts show a
retry and a last attempt. Three invocations are a winner, a loser that cleans up and a reader, or, with
as many paths, a backup, a restore of it and a backup of that. Batches
of one show every interleaving of batches and commits; with threshold 3 a streak has two measurements
to lose before its alarm. Two instants of one second are enough for the order of texts; a limit of one
point or row is exceeded by two measurements, and reports of the third see a table with a deleted row
before, after and within their period (`ReportAt`, the one bound that is not a maximum). A session
needs a reading to be opened, one to be used and one to expire; two tasks are a request and what
overtakes it, or two logins at the limit; the second token is the session after the login.
`MaxIntervals` bounds windows and silences together: `OutboxMaintenance` and `OutboxBoots` have one of either. Symmetry is used
for names that are compared for equality only, and in no run with liveness. Deadlock is not checked:
every model stops at its bounds.

Each property of each passing run has a mutant in `PROJECT.json` under which TLC finds it violated.

## 10. Proofs

All theorems hold for every value of the constants that satisfies the named assumptions; each proof
module extends the module it is about.

- **`MonitorProofs`**, under `MonitorAssumption`. `TypeCorrect`: one lemma per action.
  `AlarmsTrackTargets`: inductive together with the type invariant: alarms open only for a
  measurement that `StillCurrent` compared with the device, and every action that changes a device
  closes its alarms (`NothingOpens` states what all other actions have in common).
  `OpenAlarmsAreUnique`: follows the same way, because a new alarm needs `OpenAlarms` to be empty for
  the present address and open alarms are at the present address by the previous theorem.
  `CurrentIsUndisturbed`: the inductive invariant adds `ChecksKnow`: a check that is not disturbed
  has the version, address and epoch of now, a disturbed one an older version or epoch.
  `AlarmsEndOnce`: no step drops or reopens an alarm. An alarm is resolved only by the step that
  records a reply, which is of the alarm's own address because open alarms are at the device's; it
  is closed only where the version of its device moves.
  `ImplementsFeed`: a measurement raises or resolves by the previous facts: an open alarm is at the address
  of its device, so no other address can have one of the mode and a reply is of the present target. A
  device is created where none was (`Unplaced`), so this too is a change of target.
  `OneCheckPerDevice` and `SweepsLeaveNothing` are about tasks. Both invariants are inductive
  together with the type invariant. An entry of the queue and a mark in `active` are each added with
  one check and removed with it, in every order of ends, cancellations and stops; a slot is taken
  only while one is free. The checks in flight are finitely many because they map one to one into
  `Devices`, and this is what lets the prover count those that probe.
- **`MonitorHistoryProofs`** compares the tables with every measurement ever recorded. `StreaksMatch`:
  the inductive invariant `StreakInv` adds `Chronicle` (versions of a device and eras grow with the
  history, and one version has one address) and `RowsCountPresent` (a row that counts is of the
  present version). Each measurement either continues the run of failures at the end of the history
  or breaks it, and the row does the same; a stale one does neither, and a stop, a boot or a new
  target leaves both empty. `OutagesAlarm`: a count that reaches the threshold opens an alarm in the
  same step, and whatever ends the alarm ends the run. `AlarmsAreJustified`: when an alarm opens, the
  run of the row is exactly the window it names, because the row has counted since its first reading
  and there was no open alarm while it did. `AlarmsFollow` adds `OneOpenAlarm` (a reading moves the
  only alarm there is) and that alarms were opened in the past.
- **`OutboxProofs`**, under `OutboxAssumption` and `TicksAssumption`. The inductive invariant `IInv`
  joins the types with four facts about the queue: in each alarm a row that is being sent comes
  before every other active row (`FirstSending`); every job has a row of its own that is marked as
  being sent (`JobsOK`); all that was queued about an alarm before an accepted message of it is over
  (`Past`); and the attempts of a row are at least the hand-overs, and more than those while its job is
  on the way to the server (`Accounted`). Well-formed rows (`RowsOK`) include `Ordered`: after a
  resolution no outage message of its alarm is queued that could still leave. Dispatches and
  recovery are shown action by action; all else that touches the queue, reconciliation in
  particular, only suppresses or discards rows that are not being sent, and appends new ones (`Grows`),
  and one lemma shows that growing keeps the invariant. Each action is proved to keep `IInv` and the
  step property `Ledger` at once. `TypeCorrect`, `OneMessageAtATime`, `SimulationStaysInside`,
  `AttemptsAccount`, `RestoredQueueStays` and `NothingIsRewritten` then follow directly;
  `NewsKeepsItsOrder` from `Past` and `Ordered` at the moment the server accepts a message. Attempts
  account for sends only because a claim counts the attempt before the message is handed over, and a
  crash in between leaves the count too high, never too low. `ImplementsFeed` needs, beside `IInv`, only
  that an open alarm is at the address of its active device (`Tracks`); of all the actions three touch
  devices or alarms.
- **`OutboxEpisodeProofs`**: `MaintenanceIsRespected`, `EpisodesAreToldOnce`, `ResolutionsAreTold`,
  `StatusIsNeverOld` and `WindowsAreExact`, under `WholeSeconds`
  (`TicksPerSecond = 1`) besides. The hypothesis is needed: with fractions the order of the texts is
  not that of the instants (finding 1), and TLC refutes all five properties; by `WindowsAreExact`, fractions
  are the whole cause of that finding. The invariant `EInv`, beside
  `IInv`, consists of:
  - `Dated`: nothing lies ahead of the clock, and rows are in the order of their creation;
  - `Reasons`: what is queued for which reason and in which order: the outage message first and once,
    `resolved` before anything else about the end, news of an outage from before its end and of the
    end from after it;
  - `Cleared`: a row that can still leave is from after the end of every window that was reconciled;
  - `Unhushed`: a row that left or can leave was not queued within an interval it could know of;
  - `Hushed`: a row that was suppressed on its own account, not by a summary, has an interval that
    excuses it, from before its alarm ended;
  - `Apart`: between a message that left and a later summary for the same target lies the end of an
    interval, or, for a resolution, the coincidence that the property names;
  - `Punctual`: every window that began before a dispatch was claimed was reconciled before.

  A claim reconciles first, in three stages (`capture_maintenance` takes back what is queued,
  `reconcile` summarises what has waited long enough, then a row is picked), and each is shown to
  continue the rows it finds. `MaintenanceIsRespected` follows from `Punctual` and `Cleared`, for the
  windows that had begun at the claim, and, for those that last, from the comparison of the preflight,
  which with whole seconds finds every interval in force. `EpisodesAreToldOnce` from `Reasons` and `Apart`,
  `WindowsAreExact` from `Dated`.
  TLC checked `EInv` before it was proved, on the instances of `OutboxMaintenance`, `OutboxBoots` and
  `OutboxQueue` with whole seconds.

  `ResolutionsAreTold` needs to know where the end of an outage can get lost. A row of it is hidden
  when it was suppressed and no silence explains that; the invariant `RInv`, beside `EInv`, follows it:
  - `Quenched`: while the end is hidden, an outage message that could still leave is one that a window
    has begun to cover, and will be captured before it is claimed;
  - `Answered`: once a hidden end is settled, its target was told of no outage, or another row tells it
    the end;
  - `Keyed`: a summary names the settled row it was made for;
  - `Finished`: a resolved alarm has a row of its end.

  `Quenched` is what makes `Answered` inductive: an outage that was not told when reconciliation settled
  the end without a summary cannot be told afterwards. TLC checked `RInv` first, on the instances of
  `OutboxBoots` (3 379 718 states) and `OutboxMaintenance` without silences (1 848 657).

  `StatusIsNeverOld` adds one fact to `EInv`, `Informed`: the target of an open alarm, about which news of
  the lasting outage can still leave, was measured after every interval that was over when that news was
  queued. Only `reconcile` queues such news, after it compared the measurement with the boundary, and the
  boundary is the last end of all intervals that touched the alarm (`SummaryIsBased`). It stays so because
  an interval that was over does not change (`BasedStays`; one that is cancelled at that very reading is
  excluded by `Unhushed`), and because a device that is moved closes its alarms. That the measurement is
  still fresh, and still a no_reply, is the comparison of the preflight in the same step.
- **`BackupProofs`**, under `BackupAssumption` and `NoneAssumption`. The inductive invariant relates
  `linked`, the links an invocation remembers, to the entries at its target: a link in `linked` is
  there and its own, an entry by it is in `linked`, and a manifest implies the file. A copy is marked exactly
  if its `lineage` has a restore (`LineageTells`): it takes both from a file at a path, which is still the
copy of the invocation that linked it. From it follow
  `TypeCorrect`, `ManifestsTellTheTruth`, `OutcomesAreHonest`, `FilesOfOthersStay`,
  `QuarantineSpreads` and
  `ImplementsShelf` (every step is a shelf step or a stutter under the mapping).
- **`RetentionProofs`**, under `RetentionAssumption` and `NoCheckAssumption`. The inductive invariant
  (`TopsStay`) says that ids ascend with the history and that the last measurement *ever recorded* of
  each group still has its row. The first needs the second (the id given next is the highest
  present one plus one), the second needs the first (`max(id)` finds the last). `TypeCorrect`,
  `IdsStayUnique` and `PresentStays` follow.
  `EvidenceStays` and `StreaksStay` share a second invariant (`EvidenceInv`), checked by TLC
  first: the cutoff of a job is never ahead of the clock, and what was measured at this reading is
  too young for it (`Timely`); one version of a device has one address in measurements, alarms and
  the check in flight, so that the query, which tells targets by address, protects those of the
  property (`TargetsAgree`); and everything since the first reading of a pending streak is kept and
  holds as many failures as the row counts (`StreaksRest`). The last is what makes the hand-over
  sound: at the moment an alarm opens, its evidence is what the streak protected until then.
- **`ReportsProofs`**, under `ReportsAssumption` besides. `ReportsOnlyRead` (`ReportSpec => Spec`: every
  step is one of `Retention` or none) carries the theorems of `RetentionProofs` over
  (`IdsStayUniqueBeside`, `PresentStaysBeside`). `ReportsSeeOneState`: what a report has read is what
  its queries would find in the present state, because no step changes `tables` while it is open.
  `ReportsAreExact` adds that what the queries find is what was asked for. The coarse comparison of
  texts loses no measurement of the period, because no whole second lies between an instant and the
  second it is in, for any number of ticks per second. And the selection of points is the
  end of a linear order (instant, then id), so the rows it takes are the last ones and as many as fit.
- **`AccountsProofs`**, under `AccountsAssumption` (which asks that the tasks are finitely many: a pool
  has a size). The inductive invariant adds to the types that the
  user of a session, and of a login that will succeed, has a row (`Owned`, also in the backup, and
  `Expected`). `EndsAreFinal` is then a step property: an ended session can only be brought back by a
  row that changes (`RowLasts`: expiry and user never change, an end is never taken back, activity is
  written only by a task that holds the token), by a user who becomes active again (`NoneReturns`; a
  restored copy can do that, and revokes all its sessions), or by a task that takes up its token
  (`TasksCarry`; it must accept it first). One lemma per action shows that none does. `PasswordsEnd` adds `Knows`: a session
  that is not revoked, and a login that is not late, knows the present password of its user. Passwords
  change only in `ResetPassword`, which revokes the sessions in the same step, and in `CreateUser`,
  whose user has none by `Owned`.

  `AttemptsBounded` counts the failures of a window in rounds. For a key (an account or an address) and
  an instant s, take the logins that began after s: a round is what is let in until the next failure
  locks the key. A lock set by one of them outlasts the window, so another round begins only if a login
  from before s, the clock of which lies behind, shortens the lock, and its task then is free for
  the new round. With m tasks not held by such logins, n failures since s and r logins that may still
  fail, `Fits` says 2(n + r) <= 2(MaxAttempts - 1) + m(m + 1), and that all m tasks may begin on top
  unless the key is locked past s + Window. The invariant `BInv` says this of every key and every s
  whose window is not over (`Rounds`), and that nothing is dated ahead of the clock (`Past`). A failure
  moves one login from r to n; a login that begins where nothing is locked adds at most m to r; an older
  login that leaves raises m by one, which pays for a new round. For s at the beginning of the present
  window this is the bound. TLC checked `BInv` first, on the instance of `AccountsSessions` and on one
  with three tasks. A lock shorter than the window is excluded by the property itself.

Only model-checked: liveness (temporal proofs under fairness and ENABLED are beyond the prover). Every
invariant and every action property of a passing run is proved. The properties that a run expects to be
violated are false; of these only `WindowsAreHalfOpen` is proved, under `WholeSeconds`.

## 11. Findings

1. **Windows and whole seconds** (`OutboxSeconds`). `UTCDateTime` writes an instant on a whole second
   without a fraction, and `suppression_reason` (`services/maintenance.py:45`) compares texts in SQL.
   "12:00:00Z" sorts after "12:00:00.4Z", so a window that starts on a whole second is not in force
   for the rest of that second, and one that ends there is in force for the rest of it.
   `docs/operations.md:71` states the interval [start, end), in force exactly at its start.
2. **Messages that wait out a silence** (`OutboxHush`). `capture_maintenance`
   (`services/notifications.py:120`) takes back the queued messages of a device when a window begins,
   also one that is past. Nothing does so for silences: a message queued before the silence that was
   waiting for a retry, or for the process to come back, leaves unchanged after it.
   `docs/operations.md:90` asks, for maintenance and silences alike, for a fresh no_reply from after
   the end.
3. **The last active administrator** (`AccountsAdmins`). `deactivate_user` (`services/users.py:103`)
   counts the active administrators and then writes. The SELECT begins no transaction, and these
   commands take no process lock, so two of them for the two last administrators may both count two and
   both succeed. `README.md:110` of the repository says that the last active administrator cannot be
   deactivated. There is no command that activates a user again; create-user makes a new one.

## 12. Not modelled

- Password hashing, role checks, the origin and CSRF comparisons: pure functions, inputs of `Accounts`.
- Audit and event logs: append-only by-products of modelled transactions.
- Overview and operations reads: single queries without state.
- Probe subprocesses and the SMTP dialogue: their outcomes are nondeterministic here.
- Parsing of settings and requests; message text; the panel's rendering; demonstrations; packaging.
- The operating-system lock of `services/process_lock.py`: that a second process stays out is assumed.

## 13. Plan

Done, in this order of importance: `Monitor` and its proofs, `Outbox` and its proofs, `Backup` with its abstract
shelf and proofs, `Retention` and its proofs, `Accounts` and its proofs, `Reports` and its proofs, `AlarmFeed`, which
`Monitor` and `Outbox` implement. Next: the web panel's history view, where a response may arrive after a
newer request.
