----------------------------- MODULE Dashboard -----------------------------
(***************************************************************************)
(* The dashboard, CQRS style: a job counts the tables of the inspections   *)
(* into a row of dashboard_snapshots, with one row of damage_type_stats    *)
(* for each damage type, and the summary serves the latest of them.        *)
(*                                                                         *)
(* The job runs in one READ COMMITTED transaction: each of its five        *)
(* SELECTs sees what was committed when it began, and the worker, new      *)
(* inspections and deletions commit in between.  Inspections models those; *)
(* here a commit of theirs is one step.                                    *)
(***************************************************************************)
EXTENDS Integers, FiniteSets, Functions

CONSTANTS
    Inspections,
    SectionOf,  \* SectionOf[i]: road_section_id
    Types,      \* damage types
    Outcomes,   \* what an analysis finds: detections of each type, and the score
    Jobs,       \* snapshot requests in flight at the same time
    Viewers,    \* summary requests in flight at the same time
    None,       \* no row, and an unset local variable
    MaxRuns,    \* bound: analyses that are committed
    MaxJobs     \* bound: snapshot jobs that are started

CRITICAL_PCI_THRESHOLD == 40

ASSUME OutcomesAssumption == Outcomes \subseteq [found : [Types -> Nat], score : 0 .. 100]
ASSUME FiniteAssumption == IsFiniteSet(Inspections) /\ IsFiniteSet(Types)
ASSUME SectionAssumption == DOMAIN SectionOf = Inspections
ASSUME DashboardNoneAssumption == None \notin Outcomes /\ None \notin Nat
ASSUME DashboardBoundsAssumption == MaxRuns \in Nat /\ MaxJobs \in Nat

VARIABLES
    inspections,  \* ids in the inspections table
    deleted,      \* those with a deleted_at
    results,      \* results[i]: the detections and the score of the stored run of i
    snapshots,    \* the dashboard_snapshots table
    stats,        \* the damage_type_stats table
    job,          \* job[j]: the coroutine of snapshot request j
    viewer,       \* viewer[v]: the coroutine of summary request v
    runs,         \* history: analyses committed so far
    started       \* history: snapshot jobs started so far

tables == <<inspections, deleted, results, runs>>
read   == <<snapshots, stats, viewer>>
vars   == <<tables, read, job, started>>

\* A row is known by its created_at, now() of its transaction: the order in which
\* the jobs started.  avg_pci_score is the sum and the number of the scores.  first
\* and last are history: how many runs were committed when the job read the
\* detections, and when it read the statistics.
Snapshot == [created_at : Nat, total_inspections : Nat, total_detections : Nat,
             avg_pci_score : Nat \X Nat, critical_sections : Nat, first : Nat, last : Nat]

\* Percentages are in hundredths.
Full == 10000

DamageTypeStat ==
    [snapshot : Nat, damage_type : Types, count : Nat, percentage : 0 .. Full]

Steps == {"idle", "inspections", "detections", "average", "critical", "stats", "commit"}

Job == [pc : Steps, row : Snapshot, stats : SUBSET DamageTypeStat]

Viewer == [pc       : {"idle", "stats", "shown"},
           snapshot : Nat \cup {None},
           stats    : SUBSET DamageTypeStat]

Blank == [created_at |-> 0, total_inspections |-> 0, total_detections |-> 0,
          avg_pci_score |-> <<0, 0>>, critical_sections |-> 0, first |-> 0, last |-> 0]

NoJob   == [pc |-> "idle", row |-> Blank, stats |-> {}]
Nothing == [pc |-> "idle", snapshot |-> None, stats |-> {}]

\* Every column keeps its type, and the CHECKs of the two tables hold: an average
\* and percentages between 0 and 100.
DashboardTypeOK ==
    /\ deleted \subseteq inspections /\ inspections \subseteq Inspections
    /\ results \in [Inspections -> Outcomes \cup {None}]
    /\ snapshots \subseteq Snapshot
    /\ \A s \in snapshots : s.avg_pci_score[1] <= 100 * s.avg_pci_score[2]
    /\ stats \subseteq DamageTypeStat
    /\ job \in [Jobs -> Job]
    /\ viewer \in [Viewers -> Viewer]
    /\ runs \in Nat /\ started \in Nat

Init ==
    /\ inspections = {} /\ deleted = {}
    /\ results = [i \in Inspections |-> None]
    /\ snapshots = {} /\ stats = {}
    /\ job = [j \in Jobs |-> NoJob]
    /\ viewer = [v \in Viewers |-> Nothing]
    /\ runs = 0 /\ started = 0

-----------------------------------------------------------------------------

\* Operators named ...Mutant are faulty variants of the definition that follows
\* them, and take part in no specification.

\* A new inspection is committed.
CreateInspection(i) ==
    /\ i \notin inspections
    /\ inspections' = inspections \cup {i}
    /\ UNCHANGED <<deleted, results, runs, read, job, started>>

\* The worker commits a run, in place of the one before.
CommitRun(i, outcome) ==
    /\ i \in inspections
    /\ runs < MaxRuns
    /\ results' = [results EXCEPT ![i] = outcome]
    /\ runs' = runs + 1
    /\ UNCHANGED <<inspections, deleted, read, job, started>>

\* A soft delete: detections and score stay.
DeleteInspection(i) ==
    /\ i \in inspections
    /\ deleted' = deleted \cup {i}
    /\ UNCHANGED <<inspections, results, runs, read, job, started>>

\* POST /dashboard/snapshots: the transaction has begun.
TriggerSnapshot(j) ==
    /\ job[j].pc = "idle"
    /\ started < MaxJobs
    /\ started' = started + 1
    /\ job' = [job EXCEPT ![j] = [NoJob EXCEPT !.pc = "inspections",
                                               !.row.created_at = started + 1]]
    /\ UNCHANGED <<tables, read>>

Analysed == {i \in Inspections : results[i] # None}

CountOf(type) == SumFunction([i \in Analysed |-> results[i].found[type]])
CountOfAll(types) == SumFunction([type \in types |-> CountOf(type)])
TotalScore == SumFunction([i \in Analysed |-> results[i].score])

\* select count() from inspections where deleted_at is null
CountInspections(j) ==
    /\ job[j].pc = "inspections"
    /\ job' = [job EXCEPT ![j].pc = "detections",
                          ![j].row.total_inspections = Cardinality(inspections \ deleted)]
    /\ UNCHANGED <<tables, read, started>>

\* select count() from damage_detections
CountDetections(j) ==
    /\ job[j].pc = "detections"
    /\ job' = [job EXCEPT ![j].pc = "average", ![j].row.first = runs,
                          ![j].row.total_detections = CountOfAll(Types)]
    /\ UNCHANGED <<tables, read, started>>

AverageOfScores == <<TotalScore, Cardinality(Analysed)>>

\* select avg(score) from pci_scores
AverageScore(j) ==
    /\ job[j].pc = "average"
    /\ job' = [job EXCEPT ![j].pc = "critical", ![j].row.avg_pci_score = AverageOfScores]
    /\ UNCHANGED <<tables, read, started>>

\* The row of the snapshot is committed before its statistics.
CountCriticalSectionsMutant(j) ==
    /\ job[j].pc = "critical"
    /\ job' = [job EXCEPT ![j].pc = "stats"]
    /\ snapshots' = snapshots \cup {job[j].row}
    /\ UNCHANGED <<tables, stats, viewer, started>>

Critical == {i \in Analysed : results[i].score < CRITICAL_PCI_THRESHOLD}
CriticalSections == Cardinality({SectionOf[i] : i \in Critical})

\* select count(distinct road_section_id) ... where score < 40.  The row is flushed:
\* no other session sees it.
CountCriticalSections(j) ==
    /\ job[j].pc = "critical"
    /\ job' = [job EXCEPT ![j].pc = "stats", ![j].row.critical_sections = CriticalSections]
    /\ UNCHANGED <<tables, read, started>>

\* Found: the types that the inner join returns.
Found == {type \in Types : CountOf(type) > 0}

\* count / total as a percentage with two decimals, in hundredths; which way a tie
\* goes depends on the binary fraction, and none occurs below 32 detections.
PercentageMutant(count, total) == (2 * Full * count + 2 * total - 1) \div (2 * total)
Percentage(count, total) == (2 * Full * count + total) \div (2 * total)

\* The rows of the snapshot id, one for each type found.
Distribution(id) ==
    {[snapshot |-> id, damage_type |-> type, count |-> CountOf(type),
      percentage |-> Percentage(CountOf(type), CountOfAll(Found))] : type \in Found}

\* The distribution over the damage types, flushed.
AddStats(j) ==
    /\ job[j].pc = "stats"
    /\ job' = [job EXCEPT ![j].pc = "commit", ![j].row.last = runs,
                          ![j].stats = Distribution(job[j].row.created_at)]
    /\ UNCHANGED <<tables, read, started>>

\* Both in one COMMIT, with the audit entry.  uq_snapshot_date_region refuses
\* nothing: region and province are NULL.
CommitSnapshot(j) ==
    /\ job[j].pc = "commit"
    /\ snapshots' = snapshots \cup {job[j].row}
    /\ stats' = stats \cup job[j].stats
    /\ job' = [job EXCEPT ![j] = NoJob]
    /\ UNCHANGED <<tables, viewer, started>>

\* Any exception: the transaction is rolled back.
SnapshotFails(j) ==
    /\ job[j].pc # "idle"
    /\ job' = [job EXCEPT ![j] = NoJob]
    /\ UNCHANGED <<tables, read, started>>

\* latest_snapshot of GET /dashboard/summary; without a snapshot the answer is a
\* message.  The dates agree with the created_at that break their ties.
ReadLatest(v) ==
    /\ viewer[v].pc = "idle"
    /\ \E s \in snapshots :
          /\ \A t \in snapshots : t.created_at <= s.created_at
          /\ viewer' = [viewer EXCEPT ![v] = [Nothing EXCEPT !.pc = "stats",
                                                             !.snapshot = s.created_at]]
    /\ UNCHANGED <<tables, snapshots, stats, job, started>>

StatsOf(id) == {st \in stats : st.snapshot = id}

\* damage_stats, another SELECT.
ReadStats(v) ==
    /\ viewer[v].pc = "stats"
    /\ viewer' = [viewer EXCEPT ![v].pc = "shown", ![v].stats = StatsOf(viewer[v].snapshot)]
    /\ UNCHANGED <<tables, snapshots, stats, job, started>>

\* The client has seen the summary, or the request failed.
EndSummary(v) ==
    /\ viewer[v].pc # "idle"
    /\ viewer' = [viewer EXCEPT ![v] = Nothing]
    /\ UNCHANGED <<tables, snapshots, stats, job, started>>

\* The process restarts: open transactions are rolled back.
Restart ==
    /\ job' = [j \in Jobs |-> NoJob]
    /\ viewer' = [v \in Viewers |-> Nothing]
    /\ UNCHANGED <<tables, snapshots, stats, started>>

ComputeSnapshot(j) ==
    \/ CountInspections(j) \/ CountDetections(j) \/ AverageScore(j)
    \/ CountCriticalSections(j) \/ AddStats(j)

Next ==
    \/ \E i \in Inspections :
          \/ CreateInspection(i) \/ DeleteInspection(i)
          \/ \E outcome \in Outcomes : CommitRun(i, outcome)
    \/ \E j \in Jobs :
          TriggerSnapshot(j) \/ ComputeSnapshot(j) \/ CommitSnapshot(j) \/ SnapshotFails(j)
    \/ \E v \in Viewers : ReadLatest(v) \/ ReadStats(v) \/ EndSummary(v)
    \/ Restart

Spec == Init /\ [][Next]_vars

-----------------------------------------------------------------------------

\* No run was committed while the job read the results.
Quiet(s) == s.first = s.last

CountIn(rows)      == SumFunction([st \in rows |-> st.count])
PercentageIn(rows) == SumFunction([st \in rows |-> st.percentage])

AddsUp(s, rows) ==
    LET off == PercentageIn(rows) - Full IN
    /\ Quiet(s) => CountIn(rows) = s.total_detections
    /\ rows # {} => 2 * off <= Cardinality(rows) /\ -2 * off <= Cardinality(rows)

\* The statistics of a snapshot, a SELECT of its own, add up to its number of
\* detections unless a run was committed while the job read, and their percentages to 100
\* whatever was: each is rounded by at most half a hundredth.
SnapshotsAddUp == \A s \in snapshots : AddsUp(s, StatsOf(s.created_at))

FiguresOf(s) == <<s.total_detections, s.avg_pci_score, s.critical_sections>>

\* "Soft delete only: deleted_at, filtered on every read" (README of the repository,
\* rule 5).  While every inspection is deleted, no read of a job adds a detection, a
\* score or a critical section to its row.
DeletedAreFiltered ==
    [][inspections = deleted =>
         \A j \in Jobs :
            FiguresOf(job'[j].row) \in {FiguresOf(job[j].row), FiguresOf(Blank)}]_vars

\* What the code does instead: deletions are invisible in every figure but the number
\* of inspections.  Snapshots with no run between them agree in the others, whatever
\* was created or deleted.
FiguresIgnoreDeletions ==
    \A s, t \in snapshots :
        s.first = t.last /\ Quiet(s) /\ Quiet(t) => FiguresOf(s) = FiguresOf(t)

\* A summary is that of one snapshot in its entirety, although the row and its
\* statistics are two SELECTs: nothing is added to a snapshot that has been served.
SummaryIsWhole ==
    \A v \in Viewers : viewer[v].pc = "shown" =>
        /\ \E s \in snapshots : s.created_at = viewer[v].snapshot
        /\ viewer[v].stats = StatsOf(viewer[v].snapshot)

-----------------------------------------------------------------------------
(***************************************************************************)
(* The inductive invariant behind these properties.                        *)
(***************************************************************************)

\* Identifiers: each is of one snapshot, stored or in the making, and the
\* statistics that bear it are of that snapshot.
IdsAreUnique ==
    /\ \A r \in snapshots : r.created_at \in 1 .. started
    /\ \A st \in stats : st.snapshot \in 1 .. started
    /\ \A r, s \in snapshots : r.created_at = s.created_at => r = s
    /\ \A j \in Jobs : job[j].pc # "idle" =>
          LET id == job[j].row.created_at IN
          /\ id \in 1 .. started
          /\ \A r \in snapshots : r.created_at # id
          /\ \A st \in stats : st.snapshot # id
          /\ \A k \in Jobs \ {j} : job[k].pc # "idle" => job[k].row.created_at # id
    /\ \A j \in Jobs : \A st \in job[j].stats : st.snapshot = job[j].row.created_at

\* Rows that are complete, committed or not.
Complete == snapshots \cup {job[j].row : j \in {k \in Jobs : job[k].pc = "commit"}}

\* As long as no run is committed, what a job has read is what it would read.
ReadsAreCurrent ==
    \A j \in Jobs :
        LET r == job[j].row IN
        /\ r.avg_pci_score[1] <= 100 * r.avg_pci_score[2]
        /\ job[j].pc \in {"average", "critical", "stats"} =>
              r.first <= runs /\ (r.first = runs => r.total_detections = CountOfAll(Types))
        /\ job[j].pc \in {"critical", "stats"} /\ r.first = runs =>
              r.avg_pci_score = AverageOfScores
        /\ job[j].pc = "stats" /\ r.first = runs => r.critical_sections = CriticalSections

\* Rows computed between the same two runs have the same figures.
FiguresFollowRuns ==
    \A r \in Complete :
        /\ r.first <= r.last /\ r.last <= runs
        /\ Quiet(r) /\ r.last = runs =>
              FiguresOf(r) = <<CountOfAll(Types), AverageOfScores, CriticalSections>>
        /\ \A s \in Complete :
              Quiet(r) /\ Quiet(s) /\ r.last = s.last => FiguresOf(r) = FiguresOf(s)

\* The statistics that are about to be committed add up too.
PendingAddUp == \A j \in Jobs : job[j].pc = "commit" => AddsUp(job[j].row, job[j].stats)

\* A summary that is being served is of a stored snapshot.
ServedIsStored ==
    \A v \in Viewers : viewer[v].pc # "idle" =>
        \E s \in snapshots : s.created_at = viewer[v].snapshot

\* The whole of it.
DashboardInv ==
    /\ DashboardTypeOK
    /\ IdsAreUnique
    /\ ReadsAreCurrent
    /\ FiguresFollowRuns
    /\ SnapshotsAddUp
    /\ PendingAddUp
    /\ ServedIsStored
    /\ SummaryIsWhole

=============================================================================
