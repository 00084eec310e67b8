---------------------------- MODULE ReportsProofs ----------------------------
(***************************************************************************)
(* Proofs about reports, for any limits and histories of any length: they  *)
(* change nothing for the monitor and the cleanup, so what is proved of    *)
(* these holds beside them, each report shows one state of the tables, and *)
(* it shows exactly the period it was asked for, although texts are        *)
(* compared.                                                               *)
(***************************************************************************)
EXTENDS Reports, RetentionProofs, WellFoundedInduction

\* What a report read is what a single query would find at this moment.
ReportSeesOneState ==
  LET found == Matches(report.device, report.start, report.end)
  IN  /\ report.phase \in {"counted", "shown"} =>
           /\ report.total = Cardinality(found)
           /\ \A o \in Outcomes :
                report.outcomes[o] = Cardinality({i \in found : log[i].outcome = o})
      /\ report.phase = "shown" => report.rows = Latest(found, GraphLimit)
      /\ report.phase = "exported" =>
           report.rows = Earliest(found, CsvLimit + 1) /\ ~(Cardinality(report.rows) > CsvLimit)
      /\ report.phase = "refused" => Cardinality(Earliest(found, CsvLimit + 1)) > CsvLimit
-----------------------------------------------------------------------------
LEMMA OtherIsNext ==
  ASSUME ReportNext
  PROVE  Next \/ UNCHANGED vars
BY DEF ReportNext, Other, Count, Points, Export, Close

LEMMA SameTables ==
  ASSUME UNCHANGED tables
  PROVE  \A d, start, end : /\ Matches(d, start, end)' = Matches(d, start, end)
                            /\ \A S, n : Latest(S, n)' = Latest(S, n)
                            /\ \A S, n : Earliest(S, n)' = Earliest(S, n)
BY DEF tables, Matches, Latest, Earliest, Before

\* A report takes no step that the monitor and the cleanup could tell from none.
THEOREM ReportsOnlyRead == ReportSpec => Spec
<1>1. ReportInit => Init
  BY DEF ReportInit
<1>2. [ReportNext]_reportVars => [Next]_vars
  BY OtherIsNext DEF reportVars
<1>. QED BY <1>1, <1>2, PTL DEF ReportSpec, Spec

\* The steps of a report.
LEMMA CountSees ==
  ASSUME NEW d, NEW start, NEW end, Count(d, start, end)
  PROVE  ReportSeesOneState'
<1>. DEFINE found == Matches(d, start, end)
            r == [phase |-> "counted", device |-> d, start |-> start, end |-> end,
                  total |-> Cardinality(found),
                  outcomes |-> [o \in Outcomes |-> Cardinality({i \in found : log[i].outcome = o})]]
<1>1. report' = r /\ UNCHANGED tables
  BY DEF Count, vars, tables, monitor
<1>2. Matches(d, start, end)' = found /\ log' = log
  BY <1>1, SameTables DEF tables
<1>3. r.phase = "counted" /\ r.device = d /\ r.start = start /\ r.end = end
      /\ r.total = Cardinality(found)
      /\ \A o \in Outcomes : r.outcomes[o] = Cardinality({i \in found : log[i].outcome = o})
  OBVIOUS
<1>. HIDE DEF found, r
<1>. QED BY <1>1, <1>2, <1>3 DEF ReportSeesOneState

LEMMA PointsSee ==
  ASSUME ReportSeesOneState, Points
  PROVE  ReportSeesOneState'
<1>. DEFINE found == Matches(report.device, report.start, report.end)
            r == [phase |-> "shown", device |-> report.device,
                  start |-> report.start, end |-> report.end,
                  total |-> report.total, outcomes |-> report.outcomes,
                  rows |-> Latest(found, GraphLimit)]
<1>1. report' = r /\ report.phase = "counted" /\ UNCHANGED tables
  BY DEF Points, vars, tables, monitor
<1>2. /\ Matches(report.device, report.start, report.end)' = Matches(r.device, r.start, r.end)'
      /\ Matches(r.device, r.start, r.end)' = found
      /\ Latest(found, GraphLimit)' = Latest(found, GraphLimit) /\ log' = log
  <2>1. r.device = report.device /\ r.start = report.start /\ r.end = report.end
    OBVIOUS
  <2>. QED BY <1>1, <2>1, SameTables DEF tables
<1>3. /\ report.total = Cardinality(found)
      /\ \A o \in Outcomes : report.outcomes[o] = Cardinality({i \in found : log[i].outcome = o})
  BY <1>1 DEF ReportSeesOneState
<1>4. /\ r.phase = "shown" /\ r.total = report.total /\ r.outcomes = report.outcomes
      /\ r.rows = Latest(found, GraphLimit)
  OBVIOUS
<1>. QED BY <1>1, <1>2, <1>3, <1>4 DEF ReportSeesOneState

LEMMA ExportSees ==
  ASSUME NEW d, NEW start, NEW end, Export(d, start, end)
  PROVE  ReportSeesOneState'
<1>. DEFINE found == Matches(d, start, end)
            rows == Earliest(found, CsvLimit + 1)
            r == [phase |-> "exported", device |-> d, start |-> start, end |-> end,
                  rows |-> rows]
            no == [phase |-> "refused", device |-> d, start |-> start, end |-> end]
<1>1. UNCHANGED tables
  BY DEF Export, vars, tables, monitor
<1>2. CASE Cardinality(rows) > CsvLimit
  <2>1. report' = no
    BY <1>2 DEF Export
  <2>2. Earliest(Matches(d, start, end), CsvLimit + 1)' = rows
    BY <1>1, SameTables
  <2>3. no.phase = "refused" /\ no.device = d /\ no.start = start /\ no.end = end
    OBVIOUS
  <2>. HIDE DEF found, rows, r, no
  <2>4. Cardinality(rows) > CsvLimit
    BY <1>2
  <2>. QED BY <2>1, <2>2, <2>3, <2>4 DEF ReportSeesOneState
<1>3. CASE ~(Cardinality(rows) > CsvLimit)
  <2>1. report' = r
    BY <1>3 DEF Export
  <2>2. Matches(d, start, end)' = found /\ Earliest(found, CsvLimit + 1)' = rows
    BY <1>1, SameTables
  <2>3. r.phase = "exported" /\ r.device = d /\ r.start = start /\ r.end = end /\ r.rows = rows
    OBVIOUS
  <2>. QED BY <1>3, <2>1, <2>2, <2>3 DEF ReportSeesOneState
<1>. QED BY <1>2, <1>3

LEMMA OtherSees ==
  ASSUME ReportSeesOneState, UNCHANGED report, Shared => UNCHANGED tables
  PROVE  ReportSeesOneState'
<1>1. CASE Shared
  BY <1>1, SameTables DEF ReportSeesOneState, tables
<1>2. CASE ~Shared
  BY <1>2 DEF ReportSeesOneState, Shared, NoReport
<1>. QED BY <1>1, <1>2

LEMMA StepSees ==
  ASSUME ReportSeesOneState, [ReportNext]_reportVars
  PROVE  ReportSeesOneState'
<1>1. CASE Other
  BY <1>1, OtherSees DEF Other
<1>2. ASSUME NEW d, NEW start, NEW end, Count(d, start, end) \/ Export(d, start, end)
      PROVE  ReportSeesOneState'
  BY <1>2, CountSees, ExportSees
<1>3. CASE Points
  BY <1>3, PointsSee
<1>4. CASE Close
  BY <1>4 DEF Close, ReportSeesOneState, NoReport
<1>5. CASE UNCHANGED reportVars
  BY <1>5, OtherSees DEF reportVars, vars, monitor, tables
<1>. QED BY <1>1, <1>2, <1>3, <1>4, <1>5 DEF ReportNext

\* Until it is closed, a report shows what one query would find at this moment,
\* however often it has read: its counts and its points are of one state.
THEOREM ReportsSeeOneState == ReportSpec => []ReportSeesOneState
<1>1. ReportInit => ReportSeesOneState
  BY DEF ReportInit, NoReport, ReportSeesOneState
<1>. QED BY <1>1, StepSees, PTL DEF ReportSpec

\* No measurement gets the id of another one while reports are read.
THEOREM IdsStayUniqueBeside == ReportSpec => []IdsAreNeverReused
BY ReportsOnlyRead, IdsStayUnique, PTL

\* Every device keeps its last current measurement while reports are read.
THEOREM PresentStaysBeside == ReportSpec => []CurrentIsFound
BY ReportsOnlyRead, PresentStays, PTL
-----------------------------------------------------------------------------
(***************************************************************************)
(* The prefix of the text that the index serves loses nothing.             *)
(***************************************************************************)
LEMMA Remainders ==
  ASSUME NEW s \in Nat \ {0}, NEW t \in Nat
  PROVE  t % s \in 0 .. s - 1 /\ t \div s \in Nat /\ t = s * (t \div s) + (t % s)
<1>1. t % s \in 0 .. s - 1
  BY SMT
<1>2. t \div s \in Nat
  BY SMT
<1>3. t = s * (t \div s) + (t % s)
  BY SMT
<1>. QED BY <1>1, <1>2, <1>3

LEMMA NextMultiple ==
  ASSUME NEW s \in Nat, NEW k \in Nat, NEW m \in Nat, m < k
  PROVE  s * m + s <= s * k
<1>1. PICK n \in Nat : k = m + 1 + n
  <2>1. k - m - 1 \in Nat /\ k = m + 1 + (k - m - 1)
    OBVIOUS
  <2>. QED BY <2>1
<1>2. s * k = s * m + s + s * n
  BY <1>1
<1>3. s * n \in Nat /\ s * m \in Nat
  OBVIOUS
<1>. QED BY <1>2, <1>3

\* The start of the second that t is in: no instant on a whole second lies
\* between the two.
LEMMA SecondIs ==
  ASSUME TicksAssumption, NEW t \in Nat
  PROVE  /\ Second(t) \in Nat /\ Second(t) <= t /\ t < Second(t) + TicksPerSecond
         /\ Second(t) % TicksPerSecond = 0
         /\ \A u \in Nat : u <= t /\ u % TicksPerSecond = 0 => u <= Second(t)
<1>. DEFINE s == TicksPerSecond
            q == t \div s
<1>1. s \in Nat \ {0} /\ s \in Nat
  BY TicksAssumption DEF TicksAssumption
<1>2. t % s \in 0 .. s - 1 /\ q \in Nat /\ t = s * q + (t % s)
  BY <1>1, Remainders
<1>3. s * q \in Nat
  BY <1>1, <1>2
<1>4. PICK x \in Nat : x = s * q
  BY <1>3
<1>5. PICK r \in 0 .. s - 1 : r = t % s
  BY <1>2
<1>6. Second(t) = x /\ t = x + r
  <2>1. t = x + r
    BY <1>2, <1>4, <1>5
  <2>2. Second(t) = t - r
    BY <1>5 DEF Second
  <2>. QED BY <1>1, <2>1, <2>2
<1>7. ASSUME NEW u \in Nat, u <= t, u % s = 0
      PROVE  u <= x
  <2>1. PICK k \in Nat : u = s * k
    <3>1. u \div s \in Nat /\ u = s * (u \div s) + (u % s)
      BY <1>1, Remainders
    <3>2. PICK k \in Nat : k = u \div s
      BY <3>1
    <3>3. u = s * k + 0
      BY <1>7, <3>1, <3>2
    <3>4. s * k \in Nat
      BY <1>1, <3>2
    <3>5. u = s * k
      BY <3>3, <3>4
    <3>. QED BY <3>5
  <2>2. CASE k <= q
    <3>1. k = q \/ s * k + s <= s * q
      BY <1>1, <1>2, <2>1, <2>2, NextMultiple
    <3>2. s * k \in Nat
      BY <1>1, <2>1
    <3>. QED BY <1>1, <1>4, <2>1, <3>1, <3>2
  <2>3. CASE q < k
    <3>1. x + s <= u
      BY <1>1, <1>2, <1>4, <2>1, <2>3, NextMultiple
    <3>. QED BY <1>1, <1>5, <1>6, <1>7, <3>1
  <2>. QED BY <1>2, <2>2, <2>3
<1>8. x % s = 0
  <2>1. x \div s \in Nat /\ x % s \in 0 .. s - 1 /\ x = s * (x \div s) + (x % s)
    BY <1>1, Remainders
  <2>2. PICK k \in Nat : k = x \div s
    BY <2>1
  <2>3. PICK p \in 0 .. s - 1 : p = x % s
    BY <2>1
  <2>4. s * k \in Nat /\ s * q = s * k + p
    BY <1>1, <1>4, <2>1, <2>2, <2>3
  <2>5. CASE k < q
    <3>1. s * k + s <= s * q
      BY <1>1, <1>2, <2>5, NextMultiple
    <3>. QED BY <1>1, <2>3, <2>4, <3>1
  <2>6. CASE q < k
    <3>1. s * q + s <= s * k
      BY <1>1, <1>2, <2>6, NextMultiple
    <3>. QED BY <1>1, <1>3, <2>3, <2>4, <3>1
  <2>7. CASE k = q
    BY <1>3, <2>3, <2>4, <2>7
  <2>. QED BY <1>2, <2>5, <2>6, <2>7
<1>. QED BY <1>1, <1>4, <1>5, <1>6, <1>7, <1>8

\* What lies in the period by the clock is within the bounds of the index.
LEMMA CoarseLosesNothing ==
  ASSUME TicksAssumption, NEW at \in Nat, NEW start \in Nat, NEW end \in Nat,
         start <= at, at < end
  PROVE  Coarse(at, start, end)
<1>1. TicksPerSecond \in Nat /\ TicksPerSecond > 0
  BY TicksAssumption DEF TicksAssumption
<1>2. Second(start) <= at
  BY SecondIs, TicksAssumption
<1>3. PICK e \in Nat : e = Second(end)
  BY SecondIs, TicksAssumption
<1>4. /\ end < e + TicksPerSecond /\ e % TicksPerSecond = 0
      /\ at % TicksPerSecond = 0 => at <= e
  BY <1>3, SecondIs, TicksAssumption
<1>5. SqlKey(e) = e + TicksPerSecond - 1
  BY <1>4 DEF SqlKey
<1>6. SqlKey(at) <= e + TicksPerSecond - 1
  <2>1. CASE at % TicksPerSecond = 0
    <3>1. SqlKey(at) = at + TicksPerSecond - 1
      BY <2>1 DEF SqlKey
    <3>. QED BY <1>1, <1>4, <2>1, <3>1
  <2>2. CASE at % TicksPerSecond # 0
    <3>1. SqlKey(at) = at - 1
      BY <2>2 DEF SqlKey
    <3>. QED BY <1>1, <1>4, <3>1
  <2>. QED BY <2>1, <2>2
<1>. QED BY <1>2, <1>3, <1>5, <1>6 DEF Coarse, SqlLeq
-----------------------------------------------------------------------------
(***************************************************************************)
(* ORDER BY ... LIMIT n.                                                   *)
(***************************************************************************)

\* The first n elements of S, where <<j, i>> \in R if j comes before i.
Top(S, R, n) == {i \in S : Cardinality({j \in S : <<j, i>> \in R}) < n}

LinearOn(R, S) ==
  /\ \A i \in S : <<i, i>> \notin R
  /\ \A i, j \in S : i # j => <<i, j>> \in R \/ <<j, i>> \in R
  /\ \A i, j, k \in S : <<i, j>> \in R /\ <<j, k>> \in R => <<i, k>> \in R

LEMMA LeastNatural ==
  ASSUME NEW T, T \subseteq Nat, T # {}
  PROVE  \E x \in T : \A y \in T : x <= y
<1>. DEFINE R == {ss \in Nat \X Nat : ss[1] < ss[2]}
<1>1. IsWellFoundedOn(R, Nat)
  BY NatLessThanWellFounded DEF OpToRel
<1>2. \A x, y \in Nat : <<y, x>> \in R <=> y < x
  OBVIOUS
<1>. HIDE DEF R
<1>3. PICK x \in T : \A y \in T : ~(<<y, x>> \in R)
  BY <1>1, WFMin
<1>4. \A y \in T : x <= y
  <2>1. \A y \in T : x \in Nat /\ y \in Nat /\ ~(y < x)
    BY <1>2, <1>3
  <2>. QED BY <2>1
<1>. QED BY <1>4

\* A finite set that is ordered has a first element.
LEMMA FirstExists ==
  ASSUME NEW S, IsFiniteSet(S), S # {}, NEW R, LinearOn(R, S)
  PROVE  \E i \in S : \A j \in S : j = i \/ <<i, j>> \in R
<1>. DEFINE below(i) == {j \in S : <<j, i>> \in R}
            T == {Cardinality(below(i)) : i \in S}
<1>1. \A i \in S : IsFiniteSet(below(i)) /\ Cardinality(below(i)) \in Nat
  BY FS_Subset, FS_CardinalityType
<1>2. \E x \in T : \A y \in T : x <= y
  <2>1. T \subseteq Nat /\ T # {}
    BY <1>1
  <2>. QED BY <2>1, LeastNatural
<1>3. PICK i \in S : \A j \in S : Cardinality(below(i)) <= Cardinality(below(j))
  BY <1>2
<1>4. ASSUME NEW j \in S, j # i, <<i, j>> \notin R
      PROVE  FALSE
  <2>1. <<j, i>> \in R
    BY <1>4 DEF LinearOn
  <2>2. below(j) \subseteq below(i) /\ j \in below(i) /\ j \notin below(j)
    BY <2>1 DEF LinearOn
  <2>3. below(j) \subseteq below(i) \ {j}
    BY <2>2
  <2>4. Cardinality(below(i) \ {j}) = Cardinality(below(i)) - 1
        /\ IsFiniteSet(below(i) \ {j})
    BY <1>1, <2>2, FS_RemoveElement
  <2>5. Cardinality(below(j)) <= Cardinality(below(i) \ {j})
    BY <2>3, <2>4, FS_Subset
  <2>6. Cardinality(below(i)) <= Cardinality(below(j))
    BY <1>3
  <2>. HIDE DEF below
  <2>. QED BY <1>1, <2>4, <2>5, <2>6
<1>. QED BY <1>4

LEMMA TopIs ==
  ASSUME NEW S, IsFiniteSet(S), NEW R, LinearOn(R, S), NEW n \in Nat
  PROVE  LET T == Top(S, R, n)
         IN  /\ T \subseteq S /\ IsFiniteSet(T)
             /\ Cardinality(T) = IF Cardinality(S) > n THEN n ELSE Cardinality(S)
             /\ \A i \in T, j \in S \ T : <<i, j>> \in R
<1>. DEFINE T == Top(S, R, n)
            before(i) == {j \in S : <<j, i>> \in R}
<1>1. T \subseteq S /\ IsFiniteSet(T) /\ IsFiniteSet(S \ T)
  BY FS_Subset DEF Top
<1>2. \A i \in S : /\ IsFiniteSet(before(i)) /\ Cardinality(before(i)) \in Nat
                   /\ i \in T <=> Cardinality(before(i)) < n
  BY FS_Subset, FS_CardinalityType DEF Top
<1>3. Cardinality(S) \in Nat /\ Cardinality(T) \in Nat /\ Cardinality(T) <= Cardinality(S)
  BY <1>1, FS_Subset, FS_CardinalityType
<1>4. ASSUME NEW i \in T, NEW j \in S \ T
      PROVE  <<i, j>> \in R
  <2>1. SUFFICES ASSUME <<j, i>> \in R PROVE FALSE
    BY <1>1, <1>4 DEF LinearOn
  <2>2. before(j) \subseteq before(i)
    BY <1>1, <1>4, <2>1 DEF LinearOn
  <2>3. Cardinality(before(j)) <= Cardinality(before(i))
    BY <1>1, <1>2, <2>2, FS_Subset
  <2>4. /\ Cardinality(before(i)) < n /\ ~(Cardinality(before(j)) < n)
        /\ Cardinality(before(i)) \in Nat /\ Cardinality(before(j)) \in Nat
    BY <1>1, <1>2, <1>4
  <2>. HIDE DEF before, T
  <2>. QED BY <2>3, <2>4
<1>5. Cardinality(T) <= n
  <2>1. CASE T = {}
    BY <2>1, FS_EmptySet
  <2>2. CASE T # {}
    <3>1. PICK i \in T : \A j \in T : j = i \/ <<j, i>> \in R
      <4>. DEFINE Q == {<<p[2], p[1]>> : p \in R \cap (S \X S)}
      <4>1. \A x, y \in S : <<x, y>> \in Q <=> <<y, x>> \in R
        OBVIOUS
      <4>. HIDE DEF Q
      <4>2. LinearOn(Q, T)
        BY <1>1, <4>1 DEF LinearOn
      <4>3. PICK i \in T : \A j \in T : j = i \/ <<i, j>> \in Q
        BY <1>1, <2>2, <4>2, FirstExists
      <4>. QED BY <1>1, <4>1, <4>3
    <3>2. T \ {i} \subseteq before(i)
      BY <1>1, <3>1
    <3>3. Cardinality(T \ {i}) <= Cardinality(before(i))
      BY <1>1, <1>2, <3>2, FS_Subset
    <3>4. Cardinality(T \ {i}) = Cardinality(T) - 1
      BY <1>1, <3>1, FS_RemoveElement
    <3>5. Cardinality(before(i)) < n /\ Cardinality(before(i)) \in Nat
      BY <1>1, <1>2, <3>1
    <3>. HIDE DEF before, T
    <3>. QED BY <1>3, <3>3, <3>4, <3>5
  <2>. QED BY <2>1, <2>2
<1>6. CASE T = S
  <2>1. Cardinality(T) = IF Cardinality(S) > n THEN n ELSE Cardinality(S)
    BY <1>3, <1>5, <1>6
  <2>. QED BY <1>1, <1>4, <2>1
<1>7. CASE T # S
  <2>1. LinearOn(R, S \ T) /\ S \ T # {}
    BY <1>1, <1>7 DEF LinearOn
  <2>2. PICK j \in S \ T : \A k \in S \ T : k = j \/ <<j, k>> \in R
    BY <1>1, <2>1, FirstExists
  <2>3. before(j) \subseteq T
    BY <2>2 DEF LinearOn
  <2>4. Cardinality(before(j)) <= Cardinality(T)
    BY <1>1, <2>3, FS_Subset
  <2>5. ~(Cardinality(before(j)) < n) /\ Cardinality(before(j)) \in Nat
    BY <1>2, <2>2
  <2>6. Cardinality(T) = n
    <3>. HIDE DEF before, T
    <3>. QED BY <1>3, <1>5, <2>4, <2>5
  <2>7. Cardinality(S) # Cardinality(T)
    BY <1>1, <1>7, FS_Subset
  <2>8. Cardinality(T) = IF Cardinality(S) > n THEN n ELSE Cardinality(S)
    <3>. HIDE DEF before, T
    <3>. QED BY <1>3, <2>6, <2>7
  <2>. QED BY <1>1, <1>4, <2>8
<1>. QED BY <1>6, <1>7
-----------------------------------------------------------------------------
(***************************************************************************)
(* Reports are exact.                                                      *)
(***************************************************************************)
Phases == {"counted", "shown", "exported", "refused"}

\* A report is of a period.
PeriodOK == report # NoReport =>
              /\ report.phase \in Phases
              /\ report.start \in Nat /\ report.end \in Nat

LEMMA PeriodStays ==
  ASSUME PeriodOK, [ReportNext]_reportVars
  PROVE  PeriodOK'
<1>1. CASE UNCHANGED report
  BY <1>1 DEF PeriodOK, NoReport
<1>2. ASSUME NEW d \in Devices, NEW start \in 1 .. MaxTime + 1, NEW end \in 1 .. MaxTime + 1,
             Count(d, start, end) \/ Export(d, start, end)
      PROVE  PeriodOK'
  <2>1. start \in Nat /\ end \in Nat
    BY Limits, RetentionAssumption
  <2>2. report'.phase \in Phases /\ report'.start = start /\ report'.end = end
    BY <1>2 DEF Count, Export, Phases
  <2>. QED BY <2>1, <2>2 DEF PeriodOK
<1>3. CASE Points
  <2>1. report # NoReport
    BY <1>3 DEF Points, NoReport
  <2>2. report'.phase \in Phases /\ report'.start = report.start /\ report'.end = report.end
    BY <1>3 DEF Points, Phases
  <2>. QED BY <2>1, <2>2 DEF PeriodOK
<1>4. CASE Close
  BY <1>4 DEF Close, PeriodOK, NoReport
<1>. QED BY <1>1, <1>2, <1>3, <1>4 DEF ReportNext, Other, reportVars

THEOREM PeriodsStay == ReportSpec => []PeriodOK
<1>1. ReportInit => PeriodOK
  BY DEF ReportInit, PeriodOK
<1>. QED BY <1>1, PeriodStays, PTL DEF ReportSpec

\* The filter finds exactly what was asked for.
LEMMA MatchesAreAsked ==
  ASSUME TypeOK, PeriodOK, report # NoReport
  PROVE  /\ Matches(report.device, report.start, report.end) = Asked
         /\ Asked \subseteq DOMAIN log /\ IsFiniteSet(Asked)
<1>1. /\ kept \subseteq DOMAIN log /\ DOMAIN log = 1 .. Len(log) /\ Len(log) \in Nat
      /\ \A i \in DOMAIN log : log[i].at \in Nat
  BY Measurements DEF Entry
<1>2. report.start \in Nat /\ report.end \in Nat
  BY DEF PeriodOK
<1>3. \A i \in Asked : Coarse(log[i].at, report.start, report.end)
  BY <1>1, <1>2, CoarseLosesNothing, TicksAssumption DEF Asked
<1>4. Matches(report.device, report.start, report.end) = Asked
  BY <1>3 DEF Matches, Asked
<1>5. Asked \subseteq DOMAIN log
  BY <1>1 DEF Asked
<1>6. IsFiniteSet(DOMAIN log)
  BY <1>1, FS_Interval
<1>. QED BY <1>4, <1>5, <1>6, FS_Subset

\* Timestamp and id order the measurements, because no id is given twice.
LEMMA BeforeIsLinear ==
  ASSUME TypeOK, IdsAreNeverReused, NEW S, S \subseteq DOMAIN log
  PROVE  /\ LinearOn({p \in S \X S : Before(p[1], p[2])}, S)
         /\ LinearOn({p \in S \X S : Before(p[2], p[1])}, S)
<1>1. \A i \in S : log[i].at \in Nat /\ log[i].id \in Nat
  BY Measurements DEF Entry
<1>2. \A i, j \in S : i # j => log[i].id # log[j].id
  BY DEF IdsAreNeverReused
<1>3. \A i, j \in S : i # j => Before(i, j) \/ Before(j, i)
  BY <1>1, <1>2 DEF Before
<1>4. \A i \in S : ~Before(i, i)
  BY <1>1 DEF Before
<1>5. \A i, j, k \in S : Before(i, j) /\ Before(j, k) => Before(i, k)
  BY <1>1 DEF Before
<1>6. LinearOn({p \in S \X S : Before(p[1], p[2])}, S)
  <2>. DEFINE R == {p \in S \X S : Before(p[1], p[2])}
  <2>1. \A i, j \in S : <<i, j>> \in R <=> Before(i, j)
    OBVIOUS
  <2>. HIDE DEF R
  <2>2. LinearOn(R, S)
    BY <1>3, <1>4, <1>5, <2>1 DEF LinearOn
  <2>. QED BY <2>2 DEF R
<1>7. LinearOn({p \in S \X S : Before(p[2], p[1])}, S)
  <2>. DEFINE R == {p \in S \X S : Before(p[2], p[1])}
  <2>1. \A i, j \in S : <<i, j>> \in R <=> Before(j, i)
    OBVIOUS
  <2>. HIDE DEF R
  <2>2. LinearOn(R, S)
    BY <1>3, <1>4, <1>5, <2>1 DEF LinearOn
  <2>. QED BY <2>2 DEF R
<1>. QED BY <1>6, <1>7

\* What ORDER BY and LIMIT return.
LEMMA LatestAre ==
  ASSUME TypeOK, IdsAreNeverReused, NEW S, S \subseteq DOMAIN log, IsFiniteSet(S), NEW n \in Nat
  PROVE  /\ Latest(S, n) \subseteq S
         /\ Cardinality(Latest(S, n)) = IF Cardinality(S) > n THEN n ELSE Cardinality(S)
         /\ \A i \in Latest(S, n), j \in S \ Latest(S, n) : Before(j, i)
<1>. DEFINE R == {p \in S \X S : Before(p[2], p[1])}
<1>1. \A i, j \in S : <<j, i>> \in R <=> Before(i, j)
  OBVIOUS
<1>2. LinearOn(R, S)
  BY BeforeIsLinear
<1>. HIDE DEF R
<1>3. \A i \in S : {j \in S : <<j, i>> \in R} = {j \in S : Before(i, j)}
  BY <1>1
<1>4. Top(S, R, n) = Latest(S, n)
  BY <1>3 DEF Top, Latest
<1>5. LET T == Latest(S, n)
      IN  /\ T \subseteq S
          /\ Cardinality(T) = IF Cardinality(S) > n THEN n ELSE Cardinality(S)
          /\ \A i \in T, j \in S \ T : <<i, j>> \in R
  BY <1>2, <1>4, TopIs
<1>. QED BY <1>1, <1>5

LEMMA EarliestAre ==
  ASSUME TypeOK, IdsAreNeverReused, NEW S, S \subseteq DOMAIN log, IsFiniteSet(S), NEW n \in Nat
  PROVE  /\ Earliest(S, n) \subseteq S
         /\ Cardinality(Earliest(S, n)) = IF Cardinality(S) > n THEN n ELSE Cardinality(S)
<1>. DEFINE R == {p \in S \X S : Before(p[1], p[2])}
<1>1. \A i, j \in S : <<j, i>> \in R <=> Before(j, i)
  OBVIOUS
<1>2. LinearOn(R, S)
  BY BeforeIsLinear
<1>. HIDE DEF R
<1>3. \A i \in S : {j \in S : <<j, i>> \in R} = {j \in S : Before(j, i)}
  BY <1>1
<1>4. Top(S, R, n) = Earliest(S, n)
  BY <1>3 DEF Top, Earliest
<1>5. LET T == Earliest(S, n)
      IN  /\ T \subseteq S
          /\ Cardinality(T) = IF Cardinality(S) > n THEN n ELSE Cardinality(S)
  BY <1>2, <1>4, TopIs
<1>. QED BY <1>5

LEMMA WhatIsReadIsExact ==
  ASSUME TypeOK, IdsAreNeverReused, PeriodOK, ReportSeesOneState
  PROVE  ReportIsExact
<1>1. SUFFICES ASSUME report # NoReport PROVE ReportIsExact
  BY DEF ReportIsExact
<1>2. /\ Matches(report.device, report.start, report.end) = Asked
      /\ Asked \subseteq DOMAIN log /\ IsFiniteSet(Asked)
  BY <1>1, MatchesAreAsked
<1>3. GraphLimit \in Nat /\ CsvLimit \in Nat /\ CsvLimit + 1 \in Nat
  BY ReportsAssumption DEF ReportsAssumption
<1>4. Cardinality(Asked) \in Nat
  BY <1>2, FS_CardinalityType
<1>5. report.phase \in {"counted", "shown"} =>
        /\ report.total = Cardinality(Asked)
        /\ \A o \in Outcomes : report.outcomes[o] = Cardinality({i \in Asked : log[i].outcome = o})
  BY <1>2 DEF ReportSeesOneState
<1>6. ASSUME report.phase = "shown"
      PROVE  /\ report.rows \subseteq Asked
             /\ Cardinality(report.rows) = IF Cardinality(Asked) > GraphLimit
                                           THEN GraphLimit ELSE Cardinality(Asked)
             /\ \A i \in report.rows, j \in Asked \ report.rows : Before(j, i)
  <2>1. report.rows = Latest(Asked, GraphLimit)
    BY <1>2, <1>6 DEF ReportSeesOneState
  <2>. QED BY <1>2, <1>3, <2>1, LatestAre
<1>7. LET rows == Earliest(Asked, CsvLimit + 1)
      IN  /\ rows \subseteq Asked
          /\ Cardinality(rows) = IF Cardinality(Asked) > CsvLimit + 1
                                 THEN CsvLimit + 1 ELSE Cardinality(Asked)
  BY <1>2, <1>3, EarliestAre
<1>8. ASSUME report.phase = "exported"
      PROVE  report.rows = Asked /\ Cardinality(Asked) <= CsvLimit
  <2>1. report.rows = Earliest(Asked, CsvLimit + 1) /\ ~(Cardinality(report.rows) > CsvLimit)
    BY <1>2, <1>8 DEF ReportSeesOneState
  <2>2. Cardinality(report.rows) = Cardinality(Asked) /\ Cardinality(Asked) <= CsvLimit
    BY <1>3, <1>4, <1>7, <2>1
  <2>. QED BY <1>2, <1>7, <2>1, <2>2, FS_Subset
<1>9. ASSUME report.phase = "refused"
      PROVE  Cardinality(Asked) > CsvLimit
  <2>1. Cardinality(Earliest(Asked, CsvLimit + 1)) > CsvLimit
    BY <1>2, <1>9 DEF ReportSeesOneState
  <2>. QED BY <1>3, <1>4, <1>7, <2>1
<1>. QED BY <1>5, <1>6, <1>8, <1>9 DEF ReportIsExact

\* A report is exact, for any limits, any resolution of the clock and whatever
\* is measured and deleted between two of its reads: it counts the measurements
\* of its period, shows the last that fit, and exports all or refuses.
THEOREM ReportsAreExact == ReportSpec => []ReportIsExact
<1>1. ReportSpec => []TypeOK
  BY ReportsOnlyRead, TypeCorrect, PTL
<1>. QED BY <1>1, IdsStayUniqueBeside, PeriodsStay, ReportsSeeOneState, WhatIsReadIsExact, PTL
=============================================================================
