------------------------------ MODULE Intervals ------------------------------
(***************************************************************************)
(* Instants and suppression intervals of AvIT-Data.                        *)
(*                                                                         *)
(* Python compares datetimes; SQLite compares the texts UTCDateTime wrote: *)
(* an ISO instant with a fraction, "12:00:00.4Z", or, on a whole second,   *)
(* without one, "12:00:00Z".  '.' sorts before 'Z', so the text of a whole *)
(* second sorts after those of the fractions that follow it.  An instant   *)
(* is a number of ticks, TicksPerSecond to the second; with one tick to    *)
(* the second both orders agree.                                           *)
(***************************************************************************)
EXTENDS Naturals

CONSTANT TicksPerSecond

ASSUME TicksAssumption == TicksPerSecond \in Nat \ {0}

\* The instant that stands for a NULL timestamp.
Never == 0

\* The rank of an instant's text among all texts.
SqlKey(t) ==
  IF t % TicksPerSecond = 0 THEN t + TicksPerSecond - 1 ELSE t - 1

SqlLeq(s, t)  == SqlKey(s) <= SqlKey(t)
SqlLess(s, t) == SqlKey(s) < SqlKey(t)

\* effective_end: computed in Python, on datetimes.
EffectiveEnd(i) ==
  IF i.cancelled # Never /\ i.cancelled < i.ends THEN i.cancelled ELSE i.ends

\* A window or silence that was cancelled before it began never was.
Effective(i) == i.starts < EffectiveEnd(i)

\* The WHERE clause of suppression_reason.
InForce(i, t) ==
  /\ SqlLeq(i.starts, t)
  /\ SqlLess(t, i.ends)
  /\ i.cancelled = Never \/ SqlLess(t, i.cancelled)
=============================================================================
