------------------------------- MODULE Reports -------------------------------
(***************************************************************************)
(* Reports of AvIT-Data about the measurements of a device (its metrics    *)
(* and its CSV file), read while the monitor records measurements and the  *)
(* cleanup command of module Retention deletes them.                       *)
(*                                                                         *)
(* A report reads several times in one explicit transaction.  SQLite has a *)
(* rollback journal here: while a transaction has read and is open, another *)
(* can work but not commit.  The measurement's text is that of module      *)
(* Intervals; the filter on it compares an exact key, and a prefix of the  *)
(* text that an index serves.                                              *)
(***************************************************************************)
EXTENDS Retention, Intervals

CONSTANTS
  GraphLimit,  \* GRAPH_LIMIT
  CsvLimit,    \* settings.csv_max_rows
  ReportAt     \* bound: reports are asked for after so many measurements

ASSUME ReportsAssumption ==
  {GraphLimit, CsvLimit} \subseteq Nat \ {0} /\ ReportAt \in Nat

VARIABLE report  \* the report that is being made

tables     == <<device, streak, alarms, log, kept>>
reportVars == <<vars, report>>

NoReport == [phase |-> "none"]

\* The whole second of an instant: the first 19 characters of its text.
Second(t) == t - (t % TicksPerSecond)

\* The bounds that the index serves: no text sorts before the prefix of its
\* second, and that of the whole second, which ends with a Z, after all others.
Coarse(at, start, end) == Second(start) <= at /\ SqlLeq(at, Second(end))

\* conditions
Matches(d, start, end) ==
  {i \in kept : /\ log[i].device = d
                /\ start <= log[i].at /\ log[i].at < end
                /\ Coarse(log[i].at, start, end)}

Before(i, j) == log[i].at < log[j].at \/ (log[i].at = log[j].at /\ log[i].id < log[j].id)

\* ORDER BY timestamp_key DESC, id DESC LIMIT n
Latest(S, n) == {i \in S : Cardinality({j \in S : Before(i, j)}) < n}

\* ORDER BY timestamp_key, id LIMIT n
Earliest(S, n) == {i \in S : Cardinality({j \in S : Before(j, i)}) < n}

\* The aggregates of metrics, ...
Count(d, start, end) ==
  LET found == Matches(d, start, end)
      n(o)  == Cardinality({i \in found : log[i].outcome = o})
  IN  /\ report = NoReport /\ start < end
      /\ report' = [phase |-> "counted", device |-> d, start |-> start, end |-> end,
                    total |-> Cardinality(found), outcomes |-> [o \in Outcomes |-> n(o)]]
      /\ UNCHANGED vars

\* ... and then its points.
Points ==
  /\ report.phase = "counted"
  /\ report' = [phase |-> "shown", device |-> report.device,
                start |-> report.start, end |-> report.end,
                total |-> report.total, outcomes |-> report.outcomes,
                rows |-> Latest(Matches(report.device, report.start, report.end), GraphLimit)]
  /\ UNCHANGED vars

\* measurements_csv: one row more than the limit is read, and refused.
Export(d, start, end) ==
  LET found == Earliest(Matches(d, start, end), CsvLimit + 1)
  IN  /\ report = NoReport /\ start < end
      /\ report' = IF Cardinality(found) > CsvLimit
                   THEN [phase |-> "refused", device |-> d, start |-> start, end |-> end]
                   ELSE [phase |-> "exported", device |-> d, start |-> start, end |-> end,
                         rows |-> found]
      /\ UNCHANGED vars

\* The transaction of the report is rolled back, or its process ends.
Close ==
  /\ report # NoReport
  /\ report' = NoReport
  /\ UNCHANGED vars

\* Mistake: every statement is a transaction of its own.
SharedNever == FALSE

\* The report has read, and holds the lock that keeps others from committing.
Shared == report # NoReport

\* Any other step: it commits nothing while the lock is held.
Other ==
  /\ Next
  /\ Shared => UNCHANGED tables
  /\ UNCHANGED report

ReportInit == Init /\ report = NoReport

ReportNext ==
  \/ Other
  \/ /\ Len(log) = ReportAt
     /\ \E d \in Devices, start, end \in 1 .. MaxTime + 1 :
          Count(d, start, end) \/ Export(d, start, end)
  \/ Points
  \/ Close

ReportSpec == ReportInit /\ [][ReportNext]_reportVars
-----------------------------------------------------------------------------
(* Properties.                                                             *)

\* What the report was asked for, by the clock.
Asked == {i \in kept : /\ log[i].device = report.device
                       /\ report.start <= log[i].at /\ log[i].at < report.end}

\* Until a report is closed, its counts are those of the measurements that the
\* table has of the period, its points are the last of these, as many as fit, and
\* its file has all of them, or is refused if it cannot: whatever is measured and
\* deleted between two reads, and although texts are compared.
ReportIsExact ==
  LET all == Cardinality(Asked)
  IN  report # NoReport =>
        /\ report.phase \in {"counted", "shown"} =>
             /\ report.total = all
             /\ \A o \in Outcomes :
                  report.outcomes[o] = Cardinality({i \in Asked : log[i].outcome = o})
        /\ report.phase = "shown" =>
             /\ report.rows \subseteq Asked
             /\ Cardinality(report.rows) = IF all > GraphLimit THEN GraphLimit ELSE all
             /\ \A i \in report.rows, j \in Asked \ report.rows : Before(j, i)
        /\ report.phase = "exported" => report.rows = Asked /\ all <= CsvLimit
        /\ report.phase = "refused" => all > CsvLimit
=============================================================================
