-------------------------- MODULE DashboardProofs --------------------------
(***************************************************************************)
(* Theorems about Dashboard, for any number of inspections, damage types,  *)
(* jobs and clients, and any result of an analysis.                        *)
(***************************************************************************)
EXTENDS Dashboard, SumTheorems

-----------------------------------------------------------------------------
\* What the SELECTs return.

\* The tables as far as the SELECTs look at them.
TablesOK ==
    /\ inspections \in SUBSET Inspections
    /\ results \in [Inspections -> Outcomes \cup {None}]

\* Inspections with a result.
LEMMA AnalysedIsFinite ==
  ASSUME TablesOK
  PROVE  /\ IsFiniteSet(Analysed) /\ Cardinality(Analysed) \in Nat
         /\ \A i \in Analysed : /\ results[i] \in Outcomes
                                /\ results[i].found \in [Types -> Nat]
                                /\ results[i].score \in 0 .. 100
<1>1. IsFiniteSet(Analysed)
  BY FiniteAssumption, FS_Subset DEF Analysed
<1>2. \A i \in Analysed : results[i] \in Outcomes
  BY DEF Analysed, TablesOK
<1> QED
  BY <1>1, <1>2, OutcomesAssumption, FS_CardinalityType

\* Counts are natural numbers, and none exceeds that of all damage types.
LEMMA CountsAreNat ==
  ASSUME TablesOK
  PROVE  /\ \A type \in Types : CountOf(type) \in Nat
         /\ CountOfAll(Types) \in Nat
         /\ \A type \in Types : CountOf(type) <= CountOfAll(Types)
<1>1. ASSUME NEW type \in Types PROVE CountOf(type) \in Nat
  <2>1. [i \in Analysed |-> results[i].found[type]] \in [Analysed -> Nat]
    BY AnalysedIsFinite
  <2> QED
    BY <2>1, AnalysedIsFinite, SumInNat DEF CountOf
<1>2. [type \in Types |-> CountOf(type)] \in [Types -> Nat]
  BY <1>1
<1> HIDE DEF CountOf
<1> QED
  BY <1>1, <1>2, FiniteAssumption, SumInNat DEF CountOfAll

\* The inner join leaves out the damage types without a detection, which changes
\* no sum.
LEMMA FoundAddUp ==
  ASSUME TablesOK
  PROVE  CountOfAll(Found) = CountOfAll(Types) /\ IsFiniteSet(Found)
<1> DEFINE f == [type \in Types |-> CountOf(type)]
<1>1. f \in [Types -> Int] /\ \A type \in Types \ Found : f[type] = 0
  BY CountsAreNat DEF Found
<1>2. Found \in SUBSET Types
  BY DEF Found
<1>3. SumFunction(f) = SumFunction([type \in Found |-> f[type]])
  BY <1>1, <1>2, FiniteAssumption, SumOfSupport
<1>4. [type \in Found |-> f[type]] = [type \in Found |-> CountOf(type)]
  BY <1>2
<1> QED
  BY <1>2, <1>3, <1>4, FiniteAssumption, FS_Subset DEF CountOfAll

\* The average of scores between 0 and 100 is between 0 and 100.
LEMMA AverageInRange ==
  ASSUME TablesOK
  PROVE  /\ AverageOfScores \in Nat \X Nat
         /\ AverageOfScores[1] <= 100 * AverageOfScores[2]
<1> DEFINE f == [i \in Analysed |-> results[i].score]
<1>1. f \in [Analysed -> Nat] /\ \A i \in Analysed : f[i] <= 100
  BY AnalysedIsFinite
<1>2. TotalScore \in Nat
  BY <1>1, AnalysedIsFinite, SumInNat DEF TotalScore
<1>3. 1 * SumFunctionOnSet(f, Analysed)
        <= 0 * SumFunctionOnSet(f, Analysed) + 100 * Cardinality(Analysed)
  <2>1. IntOn(f, Analysed) /\ \A i \in Analysed : 1 * f[i] <= 0 * f[i] + 100
    BY <1>1 DEF IntOn
  <2> HIDE DEF f
  <2>2. \A k, a, b \in Int :
           (\A x \in Analysed : k * f[x] <= a * f[x] + b) =>
              k * SumFunctionOnSet(f, Analysed)
                <= a * SumFunctionOnSet(f, Analysed) + b * Cardinality(Analysed)
    BY <2>1, AnalysedIsFinite, SumsCompare
  <2> QED
    BY <2>1, <2>2
<1>4. TotalScore = SumFunctionOnSet(f, Analysed)
  BY DEF TotalScore, SumFunction
<1>5. TotalScore <= 100 * Cardinality(Analysed)
  BY <1>2, <1>3, <1>4, AnalysedIsFinite
<1> QED
  BY <1>2, <1>5, AnalysedIsFinite DEF AverageOfScores

\* Sections are counted once each.
LEMMA CriticalSectionsIsNat ==
  ASSUME TablesOK
  PROVE  CriticalSections \in Nat
<1>1. IsFiniteSet(Critical)
  BY AnalysedIsFinite, FS_Subset DEF Critical
<1> QED
  BY <1>1, FiniteImage DEF CriticalSections

-----------------------------------------------------------------------------
\* Percentages.

\* Division with a remainder that is smaller than the divisor.
LEMMA Division ==
  ASSUME NEW a \in Int, NEW b \in Nat \ {0}
  PROVE  a \div b \in Int /\ b * (a \div b) <= a /\ a < b * (a \div b) + b
  OBVIOUS

\* p is at most half a hundredth off count / total.
Rounded(p, count, total) ==
    /\ 2 * total * p <= 2 * Full * count + total
    /\ 2 * Full * count - total <= 2 * total * p

\* A percentage is off by at most half a hundredth, and in range.
LEMMA RoundedByHalf ==
  ASSUME NEW total \in Nat \ {0}, NEW count \in 0 .. total
  PROVE  /\ Percentage(count, total) \in 0 .. Full
         /\ Rounded(Percentage(count, total), count, total)
<1> DEFINE n == 20000 * count + total
           d == 2 * total
           q == n \div d
<1>1. n \in Int /\ d \in Nat \ {0}
  OBVIOUS
<1>2. q \in Int /\ d * q <= n /\ n < d * q + d
  <2> HIDE DEF n, d
  <2> QED
    BY <1>1, Division
<1> HIDE DEF q
<1>3. q \in Int /\ d * q <= n /\ n - d <= d * q
  BY <1>1, <1>2
<1>4. q <= Full
  BY <1>2 DEF Full
<1>5. q >= 0
  BY <1>2
<1>6. Percentage(count, total) = q
  BY DEF Percentage, Full, q
<1>7. q \in 0 .. Full
  <2>1. Full \in Nat
    BY DEF Full
  <2> HIDE DEF n, d
  <2> QED
    BY <1>2, <1>4, <1>5, <2>1
<1>8. Rounded(q, count, total)
  BY <1>3 DEF Rounded, Full
<1> QED
  BY <1>6, <1>7, <1>8

\* Percentages of counts that add up to the total: each rounding costs half a
\* hundredth at most.
LEMMA RoundingsAddUp ==
  ASSUME NEW total \in Nat \ {0}, NEW P \in Nat, NEW K \in Nat,
         (2 * total) * P <= 20000 * total + total * K,
         (-(2 * total)) * P <= (-20000) * total + total * K
  PROVE  2 * (P - 10000) <= K /\ -2 * (P - 10000) <= K
<1>1. total * (2 * (P - 10000) - K) <= 0
  OBVIOUS
<1>2. total * (-2 * (P - 10000) - K) <= 0
  OBVIOUS
<1> QED
  BY <1>1, <1>2

\* The columns of a distribution, and its rows, by damage type.
Counts == [type \in Found |-> CountOf(type)]
Percentages == [type \in Found |-> Percentage(CountOf(type), CountOfAll(Found))]
Row(id) == [type \in Found |->
              [snapshot |-> id, damage_type |-> type, count |-> CountOf(type),
               percentage |-> Percentage(CountOf(type), CountOfAll(Found))]]

\* Each percentage is that of its count.
LEMMA Columns ==
  ASSUME TablesOK
  PROVE  /\ Found # {} => CountOfAll(Types) \in Nat \ {0}
         /\ SumFunction(Counts) = CountOfAll(Types)
         /\ Counts \in [Found -> Nat] /\ Percentages \in [Found -> Nat]
         /\ \A type \in Found :
               /\ Percentages[type] \in 0 .. Full
               /\ Rounded(Percentages[type], Counts[type], CountOfAll(Types))
<1>1. CountOfAll(Found) = CountOfAll(Types) /\ CountOfAll(Types) \in Nat
  BY FoundAddUp, CountsAreNat
<1>2. SumFunction(Counts) = CountOfAll(Types)
  BY <1>1 DEF Counts, CountOfAll
<1>3. ASSUME NEW type \in Found
      PROVE  /\ CountOfAll(Types) \in Nat \ {0}
             /\ Counts[type] = CountOf(type) /\ CountOf(type) \in 0 .. CountOfAll(Types)
             /\ CountOf(type) \in Nat
             /\ Percentages[type] = Percentage(CountOf(type), CountOfAll(Types))
  <2>1. /\ CountOf(type) \in Nat /\ CountOf(type) > 0
        /\ CountOf(type) <= CountOfAll(Types)
    BY CountsAreNat DEF Found
  <2>2. CountOfAll(Types) \in Nat \ {0} /\ CountOf(type) \in 0 .. CountOfAll(Types)
    BY <1>1, <2>1
  <2> QED
    BY <1>1, <2>1, <2>2 DEF Counts, Percentages
<1>4. ASSUME NEW type \in Found
      PROVE  /\ Percentages[type] \in Nat /\ Percentages[type] \in 0 .. Full
             /\ Rounded(Percentages[type], Counts[type], CountOfAll(Types))
  <2>1. /\ Percentages[type] \in 0 .. Full
        /\ Rounded(Percentages[type], Counts[type], CountOfAll(Types))
    BY <1>3, RoundedByHalf
  <2>2. Full \in Nat
    BY DEF Full
  <2> QED
    BY <2>1, <2>2
<1>5. Counts \in [Found -> Nat] /\ Percentages \in [Found -> Nat]
  BY <1>3, <1>4 DEF Counts, Percentages
<1> QED
  BY <1>2, <1>3, <1>4, <1>5

\* The percentages add up to 100, each rounded by half a hundredth at most.
LEMMA PercentagesAddUp ==
  ASSUME TablesOK, Found # {}
  PROVE  LET off == SumFunction(Percentages) - Full
         IN  2 * off <= Cardinality(Found) /\ -2 * off <= Cardinality(Found)
<1> SUFFICES ASSUME NEW total, total = CountOfAll(Types),
                    NEW P, P = SumFunction(Percentages), NEW K, K = Cardinality(Found),
                    NEW double, double = 2 * total
             PROVE  2 * (P - 10000) <= K /\ -2 * (P - 10000) <= K
  BY DEF Full
<1>1. /\ total \in Nat \ {0} /\ total = SumFunction(Counts)
      /\ Counts \in [Found -> Nat] /\ Percentages \in [Found -> Nat]
      /\ IsFiniteSet(Found)
  BY Columns, FoundAddUp
<1>2. \A type \in Found : Rounded(Percentages[type], Counts[type], total)
  BY Columns
<1>3. P \in Nat /\ K \in Nat /\ double \in Nat /\ -double \in Int
  BY <1>1, SumInNat, FS_CardinalityType
<1>4. \A k, a, b \in Int :
         (\A type \in Found : k * Percentages[type] <= a * Counts[type] + b) =>
            k * P <= a * total + b * K
  <2>1. IntOn(Percentages, Found) /\ IntOn(Counts, Found)
    BY <1>1 DEF IntOn
  <2>2. P = SumFunctionOnSet(Percentages, Found) /\ total = SumFunctionOnSet(Counts, Found)
    BY <1>1 DEF SumFunction
  <2> QED
    BY <1>1, <2>1, <2>2, SumsCompare
<1>5. ASSUME NEW type \in Found
      PROVE  /\ double * Percentages[type] <= 20000 * Counts[type] + total
             /\ (-double) * Percentages[type] <= (-20000) * Counts[type] + total
  <2>1. Percentages[type] \in Nat /\ Counts[type] \in Nat
    BY <1>1
  <2> QED
    BY <1>1, <1>2, <1>3, <2>1 DEF Rounded, Full
<1>6. double * P <= 20000 * total + total * K
  BY <1>1, <1>3, <1>4, <1>5
<1>7. (-double) * P <= (-20000) * total + total * K
  BY <1>1, <1>3, <1>4, <1>5
<1>8. (2 * total) * P <= 20000 * total + total * K
  BY <1>6
<1>9. (-(2 * total)) * P <= (-20000) * total + total * K
  BY <1>7
<1> QED
  BY <1>1, <1>3, <1>8, <1>9, RoundingsAddUp

\* The rows of a snapshot: their counts add up to all detections, and their
\* percentages to 100.
LEMMA DistributionAddsUp ==
  ASSUME TablesOK, NEW id \in Nat
  PROVE  LET rows == Distribution(id)
             off  == PercentageIn(rows) - Full IN
         /\ rows \subseteq DamageTypeStat
         /\ \A st \in rows : st.snapshot = id
         /\ CountIn(rows) = CountOfAll(Types)
         /\ rows # {} => 2 * off <= Cardinality(rows) /\ -2 * off <= Cardinality(rows)
<1> SUFFICES ASSUME NEW rows, rows = Distribution(id)
             PROVE  /\ rows \subseteq DamageTypeStat
                    /\ \A st \in rows : st.snapshot = id
                    /\ CountIn(rows) = SumFunction(Counts)
                    /\ PercentageIn(rows) = SumFunction(Percentages)
                    /\ Cardinality(rows) = Cardinality(Found)
                    /\ rows # {} => Found # {}
  BY Columns, PercentagesAddUp
<1> SUFFICES ASSUME NEW e, e = Row(id)
             PROVE  /\ rows \subseteq DamageTypeStat
                    /\ \A st \in rows : st.snapshot = id
                    /\ CountIn(rows) = SumFunction(Counts)
                    /\ PercentageIn(rows) = SumFunction(Percentages)
                    /\ Cardinality(rows) = Cardinality(Found)
                    /\ rows # {} => Found # {}
  OBVIOUS
<1>1. rows = {e[type] : type \in Found}
  BY DEF Row, Distribution
<1>2. IsFiniteSet(Found) /\ Found \subseteq Types
  BY FoundAddUp DEF Found
<1>3. /\ Counts \in [Found -> Int] /\ Percentages \in [Found -> Int]
      /\ \A type \in Found :
            /\ e[type].snapshot = id /\ e[type].damage_type = type
            /\ e[type].count = Counts[type] /\ e[type].percentage = Percentages[type]
            /\ e[type] \in DamageTypeStat
  <2>1. \A type \in Found : e[type] = [snapshot |-> id, damage_type |-> type,
                                       count |-> Counts[type], percentage |-> Percentages[type]]
    BY DEF Row, Counts, Percentages
  <2>2. /\ Counts \in [Found -> Nat] /\ Percentages \in [Found -> Nat]
        /\ \A type \in Found : Percentages[type] \in 0 .. Full
    BY Columns
  <2>3. Counts \in [Found -> Int] /\ Percentages \in [Found -> Int]
    BY <2>2
  <2>4. ASSUME NEW type \in Types, NEW n \in Nat, NEW p \in 0 .. Full
        PROVE  [snapshot |-> id, damage_type |-> type, count |-> n, percentage |-> p]
                 \in DamageTypeStat
    BY DEF DamageTypeStat
  <2>5. ASSUME NEW type \in Found
        PROVE  /\ e[type].snapshot = id /\ e[type].damage_type = type
               /\ e[type].count = Counts[type] /\ e[type].percentage = Percentages[type]
               /\ e[type] \in DamageTypeStat
    <3>1. type \in Types /\ Counts[type] \in Nat /\ Percentages[type] \in 0 .. Full
      BY <1>2, <2>2
    <3>2. [snapshot |-> id, damage_type |-> type, count |-> Counts[type],
           percentage |-> Percentages[type]] \in DamageTypeStat
      BY <2>4, <3>1
    <3> QED
      BY <2>1, <3>2
  <2> QED
    BY <2>3, <2>5
<1>4. \A x, y \in Found : e[x] = e[y] => x = y
  BY <1>3
<1>5. Cardinality(rows) = Cardinality(Found)
  BY <1>1, <1>2, <1>4, FiniteImage
<1>6. ASSUME NEW f, f \in [rows -> Int], NEW c, c \in [Found -> Int],
             \A type \in Found : f[e[type]] = c[type]
      PROVE  SumFunction(f) = SumFunction(c)
  <2>1. (\A x \in Found : e[x] \in rows) /\ \A r \in rows : \E x \in Found : r = e[x]
    BY <1>1
  <2> QED
    BY <1>2, <1>4, <1>6, <2>1, SumOfRows
<1>7. CountIn(rows) = SumFunction(Counts)
  <2>1. [st \in rows |-> st.count] \in [rows -> Int]
    BY <1>1, <1>3
  <2>2. \A type \in Found : [st \in rows |-> st.count][e[type]] = Counts[type]
    BY <1>1, <1>3
  <2> QED
    BY <1>3, <1>6, <2>1, <2>2 DEF CountIn
<1>8. PercentageIn(rows) = SumFunction(Percentages)
  <2>1. [st \in rows |-> st.percentage] \in [rows -> Int]
    BY <1>1, <1>3
  <2>2. \A type \in Found : [st \in rows |-> st.percentage][e[type]] = Percentages[type]
    BY <1>1, <1>3
  <2> QED
    BY <1>3, <1>6, <2>1, <2>2 DEF PercentageIn
<1>9. rows \subseteq DamageTypeStat /\ \A st \in rows : st.snapshot = id
  BY <1>1, <1>3
<1> QED
  BY <1>1, <1>5, <1>7, <1>8, <1>9

-----------------------------------------------------------------------------
\* The invariant, step by step.

\* The figures that a job would read now.
Now == <<CountOfAll(Types), AverageOfScores, CriticalSections>>

\* ReadsAreCurrent, for one coroutine.
Current(b) ==
    LET r == b.row IN
    /\ r.avg_pci_score[1] <= 100 * r.avg_pci_score[2]
    /\ b.pc \in {"average", "critical", "stats"} =>
          r.first <= runs /\ (r.first = runs => r.total_detections = CountOfAll(Types))
    /\ b.pc \in {"critical", "stats"} /\ r.first = runs => r.avg_pci_score = AverageOfScores
    /\ b.pc = "stats" /\ r.first = runs => r.critical_sections = CriticalSections

\* The identifier of b is its own, if it has one: IdsAreUnique, for one coroutine.
OwnId(j, b) ==
    b.pc # "idle" =>
       LET id == b.row.created_at IN
       /\ id \in 1 .. started
       /\ \A r \in snapshots : r.created_at # id
       /\ \A st \in stats : st.snapshot # id
       /\ \A k \in Jobs \ {j} : job[k].pc # "idle" => job[k].row.created_at # id

\* FiguresFollowRuns, for one row.
Follows(r) ==
    /\ r.first <= r.last /\ r.last <= runs
    /\ Quiet(r) /\ r.last = runs => FiguresOf(r) = Now
    /\ \A s \in Complete :
          Quiet(r) /\ Quiet(s) /\ r.last = s.last => FiguresOf(r) = FiguresOf(s)

\* Fields of the rows and of the coroutines.
LEMMA Fields ==
  /\ \A r \in Snapshot : /\ r.created_at \in Nat /\ r.first \in Nat /\ r.last \in Nat
                         /\ r.total_detections \in Nat
  /\ \A b \in Job : b.pc \in Steps /\ b.row \in Snapshot /\ b.stats \subseteq DamageTypeStat
  BY DEF Snapshot, Job

\* What is complete is a row of the table.
LEMMA CompleteRows ==
  ASSUME DashboardTypeOK
  PROVE  Complete \subseteq Snapshot
  BY Fields DEF DashboardTypeOK, Complete

\* The figures are those of the stored results.
LEMMA SameNow ==
  ASSUME results' = results
  PROVE  /\ Now' = Now /\ CountOfAll(Types)' = CountOfAll(Types)
         /\ AverageOfScores' = AverageOfScores /\ CriticalSections' = CriticalSections
  BY DEF Now, CountOfAll, CountOf, AverageOfScores, TotalScore, CriticalSections, Critical,
         Analysed

\* A table of the inspections changes, and no job has read anything since.
LEMMA TableStep ==
  ASSUME DashboardInv, UNCHANGED <<read, job, started>>,
         inspections' \subseteq Inspections, deleted' \subseteq inspections',
         results' \in [Inspections -> Outcomes \cup {None}],
         \/ results' = results /\ runs' = runs
         \/ runs' = runs + 1
  PROVE  DashboardInv'
<1>1. DashboardTypeOK'
  BY DEF DashboardInv, DashboardTypeOK, read
<1>2. IdsAreUnique' /\ SnapshotsAddUp' /\ PendingAddUp' /\ ServedIsStored' /\ SummaryIsWhole'
  BY DEF DashboardInv, IdsAreUnique, SnapshotsAddUp, PendingAddUp, ServedIsStored,
         SummaryIsWhole, StatsOf, read
<1>3. runs \in Nat /\ runs' \in Nat /\ \A j \in Jobs : job[j].row \in Snapshot
  BY <1>1, Fields DEF DashboardInv, DashboardTypeOK
<1>4. Complete' = Complete /\ Complete \subseteq Snapshot
  BY CompleteRows DEF DashboardInv, Complete, read
<1>5. CASE results' = results /\ runs' = runs
  BY <1>1, <1>2, <1>4, <1>5, SameNow
     DEF DashboardInv, ReadsAreCurrent, FiguresFollowRuns
<1>6. CASE runs' = runs + 1
  <2>1. ReadsAreCurrent'
    <3> SUFFICES ASSUME NEW j \in Jobs PROVE Current(job[j])'
      BY DEF ReadsAreCurrent, Current
    <3>1. Current(job[j]) /\ job[j].row.first \in Nat
      BY <1>3, Fields DEF DashboardInv, ReadsAreCurrent, Current
    <3> QED
      BY <1>3, <1>6, <3>1 DEF Current
  <2>2. FiguresFollowRuns'
    <3> SUFFICES ASSUME NEW r \in Complete PROVE Follows(r)'
      BY <1>4 DEF FiguresFollowRuns, Follows, Now
    <3>1. Follows(r) /\ r.first \in Nat /\ r.last \in Nat
      BY <1>4, Fields DEF DashboardInv, FiguresFollowRuns, Follows, Now
    <3> QED
      BY <1>3, <1>4, <1>6, <3>1 DEF Follows
  <2> QED
    BY <1>1, <1>2, <2>1, <2>2 DEF DashboardInv
<1> QED
  BY <1>5, <1>6

\* A job takes a step, and stores nothing: it has its identifier already, or takes the
\* next one; what it has read is current; and if it is about to commit, its figures
\* and its statistics agree with each other and with those of the other jobs.
LEMMA JobStep ==
  ASSUME DashboardInv, NEW j \in Jobs, NEW b \in Job, job' = [job EXCEPT ![j] = b],
         UNCHANGED <<tables, read>>, started' \in Nat, started <= started',
         b.pc # "idle" =>
            \/ job[j].pc # "idle" /\ b.row.created_at = job[j].row.created_at
            \/ started' = started + 1 /\ b.row.created_at = started',
         \A st \in b.stats : st.snapshot = b.row.created_at,
         Current(b),
         b.pc = "commit" => /\ b.row.first <= runs /\ b.row.last = runs
                            /\ Quiet(b.row) => FiguresOf(b.row) = Now
                            /\ AddsUp(b.row, b.stats)
  PROVE  DashboardInv'
<1>1. started \in Nat /\ runs \in Nat /\ b.row \in Snapshot
  BY Fields DEF DashboardInv, DashboardTypeOK
<1>2. /\ job'[j] = b
      /\ \A k \in Jobs \ {j} : job'[k] = job[k]
  BY DEF DashboardInv, DashboardTypeOK
<1>3. results' = results /\ runs' = runs /\ snapshots' = snapshots /\ stats' = stats
  BY DEF tables, read
<1>4. DashboardTypeOK'
  BY DEF DashboardInv, DashboardTypeOK, tables, read
<1>5. IdsAreUnique'
  <2>1. ASSUME NEW k \in Jobs, k # j PROVE OwnId(k, job[k])'
    <3>1. OwnId(k, job[k])
      BY DEF DashboardInv, IdsAreUnique, OwnId
    <3>2. job[k].row.created_at \in Nat /\ b.row.created_at \in Nat
      BY Fields DEF DashboardInv, DashboardTypeOK
    <3>3. job[k].pc # "idle" /\ b.pc # "idle" => b.row.created_at # job[k].row.created_at
      BY <1>1, <2>1, <3>1, <3>2 DEF OwnId
    <3> QED
      BY <1>1, <1>2, <1>3, <2>1, <3>1, <3>3 DEF OwnId
  <2>2. OwnId(j, b)'
    <3>1. OwnId(j, job[j]) /\ \A k \in Jobs : OwnId(k, job[k])
      BY DEF DashboardInv, IdsAreUnique, OwnId
    <3>2. CASE b.pc = "idle"
      BY <3>2 DEF OwnId
    <3>3. CASE job[j].pc # "idle" /\ b.row.created_at = job[j].row.created_at
      BY <1>1, <1>2, <1>3, <3>1, <3>3 DEF OwnId
    <3>4. CASE started' = started + 1 /\ b.row.created_at = started'
      <4>1. /\ \A r \in snapshots : r.created_at \in 1 .. started
            /\ \A st \in stats : st.snapshot \in 1 .. started
        BY DEF DashboardInv, IdsAreUnique
      <4>2. \A k \in Jobs : job[k].pc # "idle" => job[k].row.created_at \in 1 .. started
        BY <3>1 DEF OwnId
      <4> QED
        BY <1>1, <1>2, <1>3, <3>4, <4>1, <4>2 DEF OwnId
    <3> QED
      BY <3>2, <3>3, <3>4
  <2>3. \A k \in Jobs : OwnId(k, job[k])'
    BY <1>2, <2>1, <2>2
  <2>4. \A k \in Jobs : \A st \in job'[k].stats : st.snapshot = job'[k].row.created_at
    BY <1>2 DEF DashboardInv, IdsAreUnique
  <2>5. /\ \A r \in snapshots : r.created_at \in 1 .. started'
        /\ \A st \in stats : st.snapshot \in 1 .. started'
        /\ \A r, s \in snapshots : r.created_at = s.created_at => r = s
    BY <1>1 DEF DashboardInv, IdsAreUnique
  <2> QED
    BY <1>3, <2>3, <2>4, <2>5 DEF IdsAreUnique, OwnId
<1>6. ReadsAreCurrent'
  <2>1. \A k \in Jobs : Current(job[k])
    BY DEF DashboardInv, ReadsAreCurrent, Current
  <2>2. \A k \in Jobs : Current(job'[k])
    BY <1>2, <2>1
  <2>3. \A k \in Jobs : Current(job[k])'
    BY <1>3, <2>2, SameNow DEF Current
  <2> QED
    BY <2>3 DEF ReadsAreCurrent, Current
<1>7. FiguresFollowRuns'
  <2>1. Complete \subseteq Snapshot /\ \A r \in Complete : Follows(r)
    BY CompleteRows DEF DashboardInv, FiguresFollowRuns, Follows, Now
  <2>2. \A r \in Complete' : r \in Complete \/ (b.pc = "commit" /\ r = b.row)
    BY <1>2, <1>3 DEF Complete
  <2>3. ASSUME b.pc = "commit", Quiet(b.row), NEW s \in Complete, Quiet(s), b.row.last = s.last
        PROVE  FiguresOf(b.row) = FiguresOf(s)
    BY <2>1, <2>3 DEF Follows
  <2>4. ASSUME NEW r \in Complete' PROVE Follows(r)'
    <3>1. r.first <= r.last /\ r.last <= runs /\ (Quiet(r) /\ r.last = runs => FiguresOf(r) = Now)
      BY <1>1, <2>1, <2>2 DEF Follows
    <3>2. ASSUME NEW s \in Complete', Quiet(r), Quiet(s), r.last = s.last
          PROVE  FiguresOf(r) = FiguresOf(s)
      BY <2>1, <2>2, <2>3, <3>2 DEF Follows
    <3> QED
      BY <1>3, <3>1, <3>2, SameNow DEF Follows
  <2> QED
    BY <2>4 DEF FiguresFollowRuns, Follows, Now
<1>8. SnapshotsAddUp' /\ ServedIsStored' /\ SummaryIsWhole'
  BY <1>3 DEF DashboardInv, SnapshotsAddUp, ServedIsStored, SummaryIsWhole, StatsOf, read
<1>9. PendingAddUp'
  BY <1>2 DEF DashboardInv, PendingAddUp
<1> QED
  BY <1>4, <1>5, <1>6, <1>7, <1>8, <1>9 DEF DashboardInv

\* The transaction of a job commits: the row and its statistics are stored together,
\* and their identifier is in no other row.
LEMMA CommitStep ==
  ASSUME DashboardInv, NEW j \in Jobs, CommitSnapshot(j)
  PROVE  DashboardInv'
<1> DEFINE row == job[j].row
           id == row.created_at
<1>1. /\ job[j].pc = "commit" /\ row \in Snapshot /\ job[j].stats \subseteq DamageTypeStat
      /\ row.avg_pci_score[1] <= 100 * row.avg_pci_score[2]
  BY Fields DEF DashboardInv, DashboardTypeOK, ReadsAreCurrent, CommitSnapshot
<1>2. /\ snapshots' = snapshots \cup {row} /\ stats' = stats \cup job[j].stats
      /\ job'[j] = NoJob /\ \A k \in Jobs \ {j} : job'[k] = job[k]
      /\ viewer' = viewer /\ runs' = runs /\ results' = results /\ started' = started
  BY DEF CommitSnapshot, DashboardInv, DashboardTypeOK, tables
<1>3. OwnId(j, job[j]) /\ \A st \in job[j].stats : st.snapshot = id
  BY DEF DashboardInv, IdsAreUnique, OwnId
<1>4. NoJob \in Job /\ NoJob.pc = "idle" /\ NoJob.stats = {} /\ Current(NoJob)
  BY DEF NoJob, Job, Blank, Snapshot, Steps, Current
<1>5. DashboardTypeOK'
  BY <1>1, <1>2, <1>4 DEF CommitSnapshot, DashboardInv, DashboardTypeOK, tables
<1>6. /\ {st \in stats' : st.snapshot = id} = job[j].stats
      /\ \A s \in snapshots : StatsOf(s.created_at)' = StatsOf(s.created_at)
  BY <1>1, <1>2, <1>3 DEF OwnId, StatsOf
<1>7. IdsAreUnique'
  <2>1. \A k \in Jobs : OwnId(k, job[k])'
    <3> SUFFICES ASSUME NEW k \in Jobs, k # j PROVE OwnId(k, job[k])'
      BY <1>2, <1>4 DEF OwnId
    <3>1. OwnId(k, job[k])
      BY DEF DashboardInv, IdsAreUnique, OwnId
    <3> QED
      BY <1>1, <1>2, <1>3, <1>4, <3>1 DEF OwnId
  <2>2. \A k \in Jobs : \A st \in job'[k].stats : st.snapshot = job'[k].row.created_at
    BY <1>2, <1>4 DEF DashboardInv, IdsAreUnique
  <2>3. /\ \A r \in snapshots' : r.created_at \in 1 .. started'
        /\ \A st \in stats' : st.snapshot \in 1 .. started'
        /\ \A r, s \in snapshots' : r.created_at = s.created_at => r = s
    BY <1>1, <1>2, <1>3 DEF DashboardInv, IdsAreUnique, OwnId
  <2> QED
    BY <2>1, <2>2, <2>3 DEF IdsAreUnique, OwnId
<1>8. ReadsAreCurrent'
  <2>1. \A k \in Jobs : Current(job'[k])
    BY <1>2, <1>4 DEF DashboardInv, ReadsAreCurrent, Current
  <2>2. \A k \in Jobs : Current(job[k])'
    BY <1>2, <2>1, SameNow DEF Current
  <2> QED
    BY <2>2 DEF ReadsAreCurrent, Current
<1>9. FiguresFollowRuns'
  <2>1. \A r \in Complete' : r \in Complete
    BY <1>1, <1>2, <1>4 DEF Complete
  <2>2. \A r \in Complete : Follows(r)
    BY DEF DashboardInv, FiguresFollowRuns, Follows, Now
  <2>3. \A r \in Complete' : Follows(r)'
    BY <1>2, <2>1, <2>2, SameNow DEF Follows
  <2> QED
    BY <2>3 DEF FiguresFollowRuns, Follows, Now
<1>10. SnapshotsAddUp' /\ PendingAddUp'
  <2>1. ASSUME NEW s \in snapshots PROVE AddsUp(s, StatsOf(s.created_at)')
    BY <1>6 DEF DashboardInv, SnapshotsAddUp
  <2>2. AddsUp(row, {st \in stats' : st.snapshot = id})
    BY <1>1, <1>6 DEF DashboardInv, PendingAddUp
  <2>3. SnapshotsAddUp'
    BY <1>2, <2>1, <2>2 DEF SnapshotsAddUp, StatsOf
  <2>4. PendingAddUp'
    BY <1>2, <1>4 DEF DashboardInv, PendingAddUp
  <2> QED
    BY <2>3, <2>4
<1>11. ServedIsStored' /\ SummaryIsWhole'
  <2>1. \A v \in Viewers : viewer[v].pc \in {"idle", "stats", "shown"}
    BY DEF DashboardInv, DashboardTypeOK, Viewer
  <2> QED
    BY <1>2, <1>6, <2>1 DEF DashboardInv, ServedIsStored, SummaryIsWhole
<1> QED
  BY <1>5, <1>7, <1>8, <1>9, <1>10, <1>11 DEF DashboardInv

\* A summary takes a step: it is of a stored snapshot, and shows all its statistics.
LEMMA ViewerStep ==
  ASSUME DashboardInv, UNCHANGED <<tables, snapshots, stats, job, started>>,
         viewer' \in [Viewers -> Viewer],
         \A v \in Viewers : viewer'[v] = viewer[v] \/ viewer'[v].pc = "idle"
            \/ /\ \E s \in snapshots : s.created_at = viewer'[v].snapshot
               /\ viewer'[v].pc = "shown" =>
                     viewer'[v].stats = StatsOf(viewer'[v].snapshot)
  PROVE  DashboardInv'
<1>1. results' = results /\ runs' = runs
  BY DEF tables
<1>2. /\ DashboardTypeOK' /\ IdsAreUnique' /\ SnapshotsAddUp' /\ PendingAddUp'
      /\ ReadsAreCurrent' /\ FiguresFollowRuns'
  BY <1>1, SameNow
     DEF DashboardInv, DashboardTypeOK, IdsAreUnique, SnapshotsAddUp, PendingAddUp,
         ReadsAreCurrent, FiguresFollowRuns, Complete, StatsOf, tables
<1>3. ServedIsStored' /\ SummaryIsWhole'
  BY DEF DashboardInv, ServedIsStored, SummaryIsWhole, StatsOf
<1> QED
  BY <1>2, <1>3 DEF DashboardInv

\* Steps of the tables.
LEMMA TablesKeep ==
  ASSUME DashboardInv, NEW i \in Inspections,
         \/ CreateInspection(i) \/ DeleteInspection(i)
         \/ \E outcome \in Outcomes : CommitRun(i, outcome)
  PROVE  DashboardInv'
<1>1. /\ deleted \subseteq inspections /\ inspections \subseteq Inspections
      /\ results \in [Inspections -> Outcomes \cup {None}]
  BY DEF DashboardInv, DashboardTypeOK
<1>2. CASE CreateInspection(i)
  BY <1>1, <1>2, TableStep DEF CreateInspection
<1>3. CASE DeleteInspection(i)
  BY <1>1, <1>3, TableStep DEF DeleteInspection
<1>4. ASSUME NEW outcome \in Outcomes, CommitRun(i, outcome) PROVE DashboardInv'
  <2>1. results' \in [Inspections -> Outcomes \cup {None}]
    BY <1>1, <1>4 DEF CommitRun
  <2> QED
    BY <1>1, <1>4, <2>1, TableStep DEF CommitRun
<1> QED
  BY <1>2, <1>3, <1>4

\* What the SELECTs return has the type of its column.
LEMMA Reads ==
  ASSUME DashboardInv
  PROVE  /\ TablesOK /\ runs \in Nat
         /\ Cardinality(inspections \ deleted) \in Nat
         /\ CountOfAll(Types) \in Nat
         /\ AverageOfScores \in Nat \X Nat
         /\ AverageOfScores[1] <= 100 * AverageOfScores[2]
         /\ CriticalSections \in Nat
<1>1. TablesOK /\ runs \in Nat
  BY DEF DashboardInv, DashboardTypeOK, TablesOK
<1>2. Cardinality(inspections \ deleted) \in Nat
  BY FiniteAssumption, FS_Subset, FS_CardinalityType DEF DashboardInv, DashboardTypeOK
<1> QED
  BY <1>1, <1>2, CountsAreNat, AverageInRange, CriticalSectionsIsNat

\* A job begins.
LEMMA TriggerKeeps ==
  ASSUME DashboardInv, NEW j \in Jobs, TriggerSnapshot(j)
  PROVE  DashboardInv'
<1> SUFFICES ASSUME NEW b, b = [NoJob EXCEPT !.pc = "inspections",
                                             !.row.created_at = started + 1]
             PROVE  DashboardInv'
  OBVIOUS
<1>1. started \in Nat /\ started' = started + 1 /\ started' \in Nat /\ started <= started'
  BY DEF DashboardInv, DashboardTypeOK, TriggerSnapshot
<1>2. /\ b.pc = "inspections" /\ b.row = [Blank EXCEPT !.created_at = started'] /\ b.stats = {}
      /\ b = [pc |-> "inspections", row |-> [Blank EXCEPT !.created_at = started'],
              stats |-> {}]
  BY <1>1 DEF NoJob
<1>3. [Blank EXCEPT !.created_at = started'] \in Snapshot /\ b.row.created_at = started'
      /\ b.row.avg_pci_score = <<0, 0>>
  BY <1>1, <1>2 DEF Blank, Snapshot
<1>4. b \in Job
  BY <1>2, <1>3 DEF Job, Steps
<1>5. Current(b)
  BY <1>2, <1>3 DEF Current
<1>6. job' = [job EXCEPT ![j] = b] /\ UNCHANGED <<tables, read>>
  BY DEF TriggerSnapshot
<1> QED
  BY <1>1, <1>2, <1>3, <1>4, <1>5, <1>6, JobStep

\* The number of inspections is read.
LEMMA CountInspectionsKeeps ==
  ASSUME DashboardInv, NEW j \in Jobs, CountInspections(j)
  PROVE  DashboardInv'
<1> SUFFICES ASSUME NEW b, b = [job[j] EXCEPT !.pc = "detections",
                                  !.row.total_inspections = Cardinality(inspections \ deleted)]
             PROVE  DashboardInv'
  OBVIOUS
<1>1. /\ job[j] \in Job /\ job[j].pc = "inspections" /\ started' \in Nat /\ started <= started'
      /\ UNCHANGED <<tables, read>>
  BY DEF CountInspections, DashboardInv, DashboardTypeOK
<1>2. job' = [job EXCEPT ![j] = b]
  BY DEF CountInspections
<1>3. /\ b \in Job /\ b.pc = "detections" /\ b.row.created_at = job[j].row.created_at
      /\ b.stats = job[j].stats /\ b.row.avg_pci_score = job[j].row.avg_pci_score
  BY <1>1, Reads DEF Job, Snapshot, Steps
<1>4. Current(job[j]) /\ \A st \in job[j].stats : st.snapshot = job[j].row.created_at
  BY DEF DashboardInv, IdsAreUnique, ReadsAreCurrent, Current
<1>5. Current(b)
  BY <1>3, <1>4 DEF Current
<1> QED
  BY <1>1, <1>2, <1>3, <1>4, <1>5, JobStep

\* The number of detections is read, and is what it is until the next run.
LEMMA CountDetectionsKeeps ==
  ASSUME DashboardInv, NEW j \in Jobs, CountDetections(j)
  PROVE  DashboardInv'
<1> SUFFICES ASSUME NEW b, b = [job[j] EXCEPT !.pc = "average",
                                  !.row.first = runs,
                                  !.row.total_detections = CountOfAll(Types)]
             PROVE  DashboardInv'
  OBVIOUS
<1>1. /\ job[j] \in Job /\ job[j].pc = "detections" /\ started' \in Nat /\ started <= started'
      /\ UNCHANGED <<tables, read>>
  BY DEF CountDetections, DashboardInv, DashboardTypeOK
<1>2. job' = [job EXCEPT ![j] = b]
  BY DEF CountDetections
<1>3. /\ b \in Job /\ b.pc = "average" /\ b.row.created_at = job[j].row.created_at
      /\ b.stats = job[j].stats /\ b.row.avg_pci_score = job[j].row.avg_pci_score
      /\ b.row.first = runs /\ b.row.total_detections = CountOfAll(Types) /\ runs \in Nat
  BY <1>1, Reads DEF Job, Snapshot, Steps
<1>4. Current(job[j]) /\ \A st \in job[j].stats : st.snapshot = job[j].row.created_at
  BY DEF DashboardInv, IdsAreUnique, ReadsAreCurrent, Current
<1>5. Current(b)
  BY <1>3, <1>4 DEF Current
<1> QED
  BY <1>1, <1>2, <1>3, <1>4, <1>5, JobStep

\* The average is read.
LEMMA AverageScoreKeeps ==
  ASSUME DashboardInv, NEW j \in Jobs, AverageScore(j)
  PROVE  DashboardInv'
<1> SUFFICES ASSUME NEW b, b = [job[j] EXCEPT !.pc = "critical",
                                  !.row.avg_pci_score = AverageOfScores]
             PROVE  DashboardInv'
  OBVIOUS
<1>1. /\ job[j] \in Job /\ job[j].pc = "average" /\ started' \in Nat /\ started <= started'
      /\ UNCHANGED <<tables, read>>
  BY DEF AverageScore, DashboardInv, DashboardTypeOK
<1>2. job' = [job EXCEPT ![j] = b]
  BY DEF AverageScore
<1>3. /\ b \in Job /\ b.pc = "critical" /\ b.row.created_at = job[j].row.created_at
      /\ b.stats = job[j].stats /\ b.row.avg_pci_score = AverageOfScores
      /\ b.row.first = job[j].row.first
      /\ b.row.total_detections = job[j].row.total_detections
  BY <1>1, Reads DEF Job, Snapshot, Steps
<1>4. Current(job[j]) /\ \A st \in job[j].stats : st.snapshot = job[j].row.created_at
  BY DEF DashboardInv, IdsAreUnique, ReadsAreCurrent, Current
<1>5. Current(b)
  BY <1>1, <1>3, <1>4, Reads DEF Current
<1> QED
  BY <1>1, <1>2, <1>3, <1>4, <1>5, JobStep

\* The critical sections are read.
LEMMA CriticalSectionsKeeps ==
  ASSUME DashboardInv, NEW j \in Jobs, CountCriticalSections(j)
  PROVE  DashboardInv'
<1> SUFFICES ASSUME NEW b, b = [job[j] EXCEPT !.pc = "stats",
                                  !.row.critical_sections = CriticalSections]
             PROVE  DashboardInv'
  OBVIOUS
<1>1. /\ job[j] \in Job /\ job[j].pc = "critical" /\ started' \in Nat /\ started <= started'
      /\ UNCHANGED <<tables, read>>
  BY DEF CountCriticalSections, DashboardInv, DashboardTypeOK
<1>2. job' = [job EXCEPT ![j] = b]
  BY DEF CountCriticalSections
<1>3. /\ b \in Job /\ b.pc = "stats" /\ b.row.created_at = job[j].row.created_at
      /\ b.stats = job[j].stats /\ b.row.avg_pci_score = job[j].row.avg_pci_score
      /\ b.row.first = job[j].row.first /\ b.row.critical_sections = CriticalSections
      /\ b.row.total_detections = job[j].row.total_detections
  BY <1>1, Reads DEF Job, Snapshot, Steps
<1>4. Current(job[j]) /\ \A st \in job[j].stats : st.snapshot = job[j].row.created_at
  BY DEF DashboardInv, IdsAreUnique, ReadsAreCurrent, Current
<1>5. Current(b)
  BY <1>1, <1>3, <1>4 DEF Current
<1> QED
  BY <1>1, <1>2, <1>3, <1>4, <1>5, JobStep

\* The distribution is read: what was read before is still current if no run was
\* committed since.
LEMMA AddStatsKeeps ==
  ASSUME DashboardInv, NEW j \in Jobs, AddStats(j)
  PROVE  DashboardInv'
<1> SUFFICES ASSUME NEW id, id = job[j].row.created_at, NEW rows, rows = Distribution(id),
                    NEW b, b = [job[j] EXCEPT !.pc = "commit", !.row.last = runs,
                                              !.stats = rows]
             PROVE  DashboardInv'
  OBVIOUS
<1>1. /\ job[j] \in Job /\ job[j].pc = "stats" /\ started' \in Nat /\ started <= started'
      /\ UNCHANGED <<tables, read>>
  BY DEF AddStats, DashboardInv, DashboardTypeOK
<1>2. job' = [job EXCEPT ![j] = b]
  BY DEF AddStats
<1>3. /\ id \in Nat /\ rows \subseteq DamageTypeStat /\ \A st \in rows : st.snapshot = id
      /\ CountIn(rows) = CountOfAll(Types)
      /\ rows # {} =>
            LET off == PercentageIn(rows) - Full
            IN  2 * off <= Cardinality(rows) /\ -2 * off <= Cardinality(rows)
  BY <1>1, Reads, Fields, DistributionAddsUp
<1>4. /\ b \in Job /\ b.pc = "commit" /\ b.row.created_at = id /\ b.stats = rows
      /\ b.row.avg_pci_score = job[j].row.avg_pci_score
      /\ b.row.first = job[j].row.first /\ b.row.last = runs
      /\ b.row.critical_sections = job[j].row.critical_sections
      /\ b.row.total_detections = job[j].row.total_detections
  BY <1>1, <1>3, Reads DEF Job, Snapshot, Steps
<1>5. Current(job[j])
  BY DEF DashboardInv, ReadsAreCurrent, Current
<1>6. Current(b) /\ b.row.first <= runs
  BY <1>1, <1>4, <1>5 DEF Current
<1>7. Quiet(b.row) => FiguresOf(b.row) = Now
  BY <1>1, <1>4, <1>5 DEF Current, Quiet, FiguresOf, Now
<1>8. AddsUp(b.row, b.stats)
  BY <1>1, <1>3, <1>4, <1>5 DEF AddsUp, Current, Quiet
<1> QED
  BY <1>1, <1>2, <1>3, <1>4, <1>6, <1>7, <1>8, JobStep

\* A transaction is rolled back.
LEMMA FailureKeeps ==
  ASSUME DashboardInv, NEW j \in Jobs, SnapshotFails(j)
  PROVE  DashboardInv'
<1> SUFFICES ASSUME NEW b, b = NoJob PROVE DashboardInv'
  OBVIOUS
<1>1. /\ b \in Job /\ b.pc = "idle" /\ b.stats = {} /\ Current(b)
  BY DEF NoJob, Job, Blank, Snapshot, Steps, Current
<1>2. /\ job' = [job EXCEPT ![j] = b] /\ UNCHANGED <<tables, read>>
      /\ started' \in Nat /\ started <= started'
  BY DEF SnapshotFails, DashboardInv, DashboardTypeOK
<1> QED
  BY <1>1, <1>2, JobStep

\* Steps of a summary.
LEMMA SummaryKeeps ==
  ASSUME DashboardInv, NEW v \in Viewers, ReadLatest(v) \/ ReadStats(v) \/ EndSummary(v)
  PROVE  DashboardInv'
<1>1. viewer \in [Viewers -> Viewer] /\ snapshots \subseteq Snapshot /\ stats \subseteq DamageTypeStat
  BY DEF DashboardInv, DashboardTypeOK
<1>2. ASSUME NEW w \in Viewer, viewer' = [viewer EXCEPT ![v] = w],
             UNCHANGED <<tables, snapshots, stats, job, started>>,
             \/ w.pc = "idle"
             \/ /\ \E s \in snapshots : s.created_at = w.snapshot
                /\ w.pc = "shown" => w.stats = StatsOf(w.snapshot)
      PROVE  DashboardInv'
  <2>1. viewer' \in [Viewers -> Viewer] /\ \A x \in Viewers : viewer'[x] = viewer[x] \/ viewer'[x] = w
    BY <1>1, <1>2
  <2> QED
    BY <1>2, <2>1, ViewerStep
<1>3. Nothing \in Viewer /\ Nothing.pc = "idle" /\ Nothing.stats = {}
  BY DEF Nothing, Viewer
<1>4. CASE ReadLatest(v)
  <2>1. PICK s \in snapshots :
           viewer' = [viewer EXCEPT ![v] = [Nothing EXCEPT !.pc = "stats",
                                                           !.snapshot = s.created_at]]
    BY <1>4 DEF ReadLatest
  <2>2. s.created_at \in Nat
    BY <1>1, Fields
  <2>3. /\ [Nothing EXCEPT !.pc = "stats", !.snapshot = s.created_at] \in Viewer
        /\ [Nothing EXCEPT !.pc = "stats", !.snapshot = s.created_at].pc = "stats"
        /\ [Nothing EXCEPT !.pc = "stats", !.snapshot = s.created_at].snapshot = s.created_at
    BY <2>2 DEF Nothing, Viewer
  <2> QED
    BY <1>2, <1>4, <2>1, <2>3 DEF ReadLatest
<1>5. CASE ReadStats(v)
  <2> SUFFICES ASSUME NEW w, w = [viewer[v] EXCEPT !.pc = "shown",
                                                   !.stats = StatsOf(viewer[v].snapshot)]
               PROVE  DashboardInv'
    OBVIOUS
  <2>1. viewer' = [viewer EXCEPT ![v] = w]
    BY <1>5 DEF ReadStats
  <2>2. viewer[v] \in Viewer /\ viewer[v].pc = "stats" /\ StatsOf(viewer[v].snapshot) \subseteq DamageTypeStat
    BY <1>1, <1>5 DEF ReadStats, StatsOf
  <2>3. w \in Viewer /\ w.snapshot = viewer[v].snapshot /\ w.stats = StatsOf(w.snapshot)
    BY <2>2 DEF Viewer
  <2>4. \E s \in snapshots : s.created_at = w.snapshot
    BY <2>2, <2>3 DEF DashboardInv, ServedIsStored
  <2> QED
    BY <1>2, <1>5, <2>1, <2>3, <2>4 DEF ReadStats
<1>6. CASE EndSummary(v)
  BY <1>2, <1>3, <1>6 DEF EndSummary
<1> QED
  BY <1>4, <1>5, <1>6

\* Open transactions are rolled back, and what was served is forgotten.
LEMMA RestartKeeps ==
  ASSUME DashboardInv, Restart
  PROVE  DashboardInv'
<1>1. /\ NoJob \in Job /\ NoJob.pc = "idle" /\ NoJob.stats = {}
      /\ NoJob.row.avg_pci_score = <<0, 0>>
      /\ Nothing \in Viewer /\ Nothing.pc = "idle"
  BY DEF NoJob, Job, Blank, Snapshot, Steps, Nothing, Viewer
<1>2. /\ \A j \in Jobs : job'[j] = NoJob
      /\ \A v \in Viewers : viewer'[v] = Nothing
      /\ results' = results /\ runs' = runs /\ snapshots' = snapshots /\ stats' = stats
      /\ started' = started
  BY DEF Restart, tables
<1>3. DashboardTypeOK'
  BY <1>1 DEF Restart, DashboardInv, DashboardTypeOK, tables
<1>4. IdsAreUnique' /\ PendingAddUp' /\ ServedIsStored' /\ SummaryIsWhole'
  BY <1>1, <1>2 DEF DashboardInv, IdsAreUnique, PendingAddUp, ServedIsStored, SummaryIsWhole
<1>5. ReadsAreCurrent'
  BY <1>1, <1>2 DEF ReadsAreCurrent
<1>6. FiguresFollowRuns'
  <2>1. Complete' = snapshots /\ snapshots \subseteq Complete
    BY <1>1, <1>2 DEF Complete
  <2>2. \A r \in Complete : Follows(r)
    BY DEF DashboardInv, FiguresFollowRuns, Follows, Now
  <2>3. \A r \in Complete' : Follows(r)'
    BY <1>2, <2>1, <2>2, SameNow DEF Follows
  <2> QED
    BY <2>3 DEF FiguresFollowRuns, Follows, Now
<1>7. SnapshotsAddUp'
  BY <1>2 DEF DashboardInv, SnapshotsAddUp, StatsOf
<1> QED
  BY <1>3, <1>4, <1>5, <1>6, <1>7 DEF DashboardInv

-----------------------------------------------------------------------------
\* The invariant holds of every behaviour: nothing is stored at first, each commit
\* to the tables leaves what was read current or makes it old (TableStep), each job
\* keeps its identifier and reads what is current (JobStep), and a commit stores one
\* snapshot whole (CommitStep).
THEOREM DashboardInvariance == Spec => []DashboardInv
<1>1. Init => DashboardInv
  <2> SUFFICES ASSUME Init PROVE DashboardInv
    OBVIOUS
  <2>1. /\ NoJob \in Job /\ NoJob.pc = "idle" /\ NoJob.stats = {}
        /\ NoJob.row.avg_pci_score = <<0, 0>>
        /\ Nothing \in Viewer /\ Nothing.pc = "idle"
    BY DEF NoJob, Job, Blank, Snapshot, Steps, Nothing, Viewer
  <2>2. /\ \A j \in Jobs : job[j] = NoJob
        /\ \A v \in Viewers : viewer[v] = Nothing
        /\ snapshots = {} /\ stats = {}
    BY DEF Init
  <2>3. DashboardTypeOK
    BY <2>1 DEF Init, DashboardTypeOK
  <2>4. IdsAreUnique /\ ReadsAreCurrent /\ PendingAddUp /\ ServedIsStored /\ SummaryIsWhole
    BY <2>1, <2>2 DEF IdsAreUnique, ReadsAreCurrent, PendingAddUp, ServedIsStored,
                      SummaryIsWhole
  <2>5. FiguresFollowRuns /\ SnapshotsAddUp
    BY <2>1, <2>2 DEF FiguresFollowRuns, Complete, SnapshotsAddUp
  <2> QED
    BY <2>3, <2>4, <2>5 DEF DashboardInv
<1>2. DashboardInv /\ [Next]_vars => DashboardInv'
  <2> SUFFICES ASSUME DashboardInv, [Next]_vars PROVE DashboardInv'
    OBVIOUS
  <2>1. CASE UNCHANGED vars
    <3>1. UNCHANGED <<tables, snapshots, stats, job, started>> /\ viewer' = viewer
      BY <2>1 DEF vars, read
    <3>2. viewer' \in [Viewers -> Viewer]
      BY <3>1 DEF DashboardInv, DashboardTypeOK
    <3> QED
      BY <3>1, <3>2, ViewerStep
  <2>2. ASSUME NEW i \in Inspections,
               \/ CreateInspection(i) \/ DeleteInspection(i)
               \/ \E outcome \in Outcomes : CommitRun(i, outcome)
        PROVE  DashboardInv'
    BY <2>2, TablesKeep
  <2>3. ASSUME NEW j \in Jobs, TriggerSnapshot(j) PROVE DashboardInv'
    BY <2>3, TriggerKeeps
  <2>4. ASSUME NEW j \in Jobs, ComputeSnapshot(j) PROVE DashboardInv'
    BY <2>4, CountInspectionsKeeps, CountDetectionsKeeps, AverageScoreKeeps,
       CriticalSectionsKeeps, AddStatsKeeps
       DEF ComputeSnapshot
  <2>5. ASSUME NEW j \in Jobs, CommitSnapshot(j) PROVE DashboardInv'
    BY <2>5, CommitStep
  <2>6. ASSUME NEW j \in Jobs, SnapshotFails(j) PROVE DashboardInv'
    BY <2>6, FailureKeeps
  <2>7. ASSUME NEW v \in Viewers, ReadLatest(v) \/ ReadStats(v) \/ EndSummary(v)
        PROVE  DashboardInv'
    BY <2>7, SummaryKeeps
  <2>8. CASE Restart
    BY <2>8, RestartKeeps
  <2> QED
    BY <2>1, <2>2, <2>3, <2>4, <2>5, <2>6, <2>7, <2>8 DEF Next
<1> QED
  BY <1>1, <1>2, PTL DEF Spec

\* Every column keeps its type, averages and percentages stay between 0 and 100.
THEOREM DashboardTypeCorrectness == Spec => []DashboardTypeOK
<1>1. DashboardInv => DashboardTypeOK
  BY DEF DashboardInv
<1> QED
  BY <1>1, DashboardInvariance, PTL

\* The statistics of every snapshot add up to its number of detections if no run was
\* committed in between, and its percentages to 100 up to the roundings, whatever the
\* number of damage types, of inspections and of jobs at work.
THEOREM StatisticsAddUp == Spec => []SnapshotsAddUp
<1>1. DashboardInv => SnapshotsAddUp
  BY DEF DashboardInv
<1> QED
  BY <1>1, DashboardInvariance, PTL

\* Snapshots with no run between them agree on everything but the number of
\* inspections, whatever was created or deleted: no deletion is ever filtered there.
THEOREM FiguresFollowTheRuns == Spec => []FiguresIgnoreDeletions
<1>1. DashboardInv => FiguresIgnoreDeletions
  BY DEF DashboardInv, FiguresFollowRuns, Complete, FiguresIgnoreDeletions, Quiet
<1> QED
  BY <1>1, DashboardInvariance, PTL

\* What a client is shown is one snapshot and all its statistics.
THEOREM SummariesAreWhole == Spec => []SummaryIsWhole
<1>1. DashboardInv => SummaryIsWhole
  BY DEF DashboardInv
<1> QED
  BY <1>1, DashboardInvariance, PTL

=============================================================================
