------------------------------ MODULE Reports ------------------------------
(***************************************************************************)
(* The report service over the recommendations: a maintenance plan, made   *)
(* for a recommendation, gets one PDF report.  The PDF is an object of the *)
(* store, its row in inspection_reports names it; store and database have  *)
(* no transaction in common.  An analysis that replaces the result takes   *)
(* the recommendation, its plan and its report away, ON DELETE CASCADE, at *)
(* any point of a generation.                                              *)
(*                                                                         *)
(* No code of the repository inserts into maintenance_plans: CreatePlan is *)
(* what its table allows.                                                  *)
(***************************************************************************)
EXTENDS Recommendations

CONSTANTS
    Clerks,  \* report requests in flight at the same time
    Titles,  \* titles of reports
    Files    \* bound: the uuids that name objects of the bucket of reports

ASSUME FilesAssumption == None \notin Files /\ None \notin Titles

VARIABLES
    plans,    \* the maintenance_plans table
    reports,  \* the inspection_reports table
    bucket,   \* bucket[f]: the object of the bucket of reports named by uuid f
    clerk     \* clerk[k]: the coroutine of report request k, with its local variables

reportTables == <<plans, reports, bucket>>
reportVars   == <<vars, reportTables, clerk>>

\* A plan is known by the recommendation it is for, which uq_plan_recommendation
\* and uq_rec_analysis make an inspection and a run.
MaintenancePlan == [inspection : Inspections, run : Nat]

\* A row: its plan, its title, and the uuid in its file_path.
InspectionReport == [inspection : Inspections, run : Nat, title : Titles, file : Files]

\* An object, under the prefix of its plan; of the PDF, the title is kept.
Pdf == [inspection : Inspections, run : Nat, title : Titles]

ASSUME PdfAssumption == None \notin Pdf

Desks == {"idle", "plan", "report", "build", "put", "insert", "link"}

Clerk == [pc         : Desks,
          inspection : Inspections \cup {None},  \* the plan ...
          run        : Nat,
          title      : Titles \cup {None},
          file       : Files \cup {None}]        \* object_name

Free == [pc |-> "idle", inspection |-> None, run |-> 0, title |-> None, file |-> None]

\* Every column, object and local variable keeps its type.
ReportTypeOK ==
    /\ TypeOK
    /\ plans \subseteq MaintenancePlan
    /\ reports \subseteq InspectionReport
    /\ bucket \in [Files -> Pdf \cup {None}]
    /\ clerk \in [Clerks -> Clerk]

ReportInit ==
    /\ Init
    /\ plans = {}
    /\ reports = {}
    /\ bucket = [f \in Files |-> None]
    /\ clerk = [k \in Clerks |-> Free]

-----------------------------------------------------------------------------

PlanOf(x)   == [inspection |-> x.inspection, run |-> x.run]
PdfOf(x)    == [inspection |-> x.inspection, run |-> x.run, title |-> x.title]
ReportOf(p) == {x \in reports : PlanOf(x) = p}

Recommended(ps, rs) == {p \in ps : \E rec \in rs : PlanOf(rec) = p}

\* Operators named ...Mutant are faulty variants of the definition that follows
\* them, and take part in no specification.  Here reports outlive their plan.
CascadeMutant ==
    /\ plans' = Recommended(plans, recs')
    /\ UNCHANGED <<reports, bucket>>

\* ON DELETE CASCADE, from the recommendation to its plan and the report of the
\* plan.  The object stays.
Cascade ==
    /\ plans' = Recommended(plans, recs')
    /\ reports' = {x \in reports : PlanOf(x) \in plans'}
    /\ UNCHANGED bucket

\* An engineer plans the works of a recommendation.
CreatePlan(rec) ==
    /\ PlanOf(rec) \notin plans
    /\ plans' = plans \cup {PlanOf(rec)}
    /\ UNCHANGED <<vars, reports, bucket, clerk>>

Leave(k) == clerk' = [clerk EXCEPT ![k] = Free]

\* POST /plans/{plan_id}/report, with the id of a plan that exists or existed.
GenerateReport(k, i, n, title) ==
    /\ clerk[k].pc = "idle"
    /\ clerk' = [clerk EXCEPT ![k] = [pc |-> "plan", inspection |-> i, run |-> n,
                                      title |-> title, file |-> None]]
    /\ UNCHANGED <<vars, reportTables>>

\* plan_exists, or 404.
PlanExists(k) ==
    /\ clerk[k].pc = "plan"
    /\ IF PlanOf(clerk[k]) \in plans
         THEN clerk' = [clerk EXCEPT ![k].pc = "report"]
         ELSE Leave(k)
    /\ UNCHANGED <<vars, reportTables>>

\* get_by_plan; 409 when there is a report.
GetByPlan(k) ==
    /\ clerk[k].pc = "report"
    /\ IF ReportOf(PlanOf(clerk[k])) = {}
         THEN clerk' = [clerk EXCEPT ![k].pc = "build"]
         ELSE Leave(k)
    /\ UNCHANGED <<vars, reportTables>>

\* The PDF is built in a thread, and its object named by a new uuid.
BuildPdf(k, f) ==
    /\ clerk[k].pc = "build"
    /\ bucket[f] = None
    /\ \A j \in Clerks : clerk[j].file # f
    /\ clerk' = [clerk EXCEPT ![k].pc = "put", ![k].file = f]
    /\ UNCHANGED <<vars, reportTables>>

\* The object is named by the plan alone.
PutObjectMutant(k) ==
    /\ clerk[k].pc = "put"
    /\ \E f \in Files :
          /\ IF \E g \in Files : bucket[g] # None /\ PlanOf(bucket[g]) = PlanOf(clerk[k])
               THEN bucket[f] # None /\ PlanOf(bucket[f]) = PlanOf(clerk[k])
               ELSE f = clerk[k].file
          /\ bucket' = [bucket EXCEPT ![f] = PdfOf(clerk[k])]
          /\ clerk' = [clerk EXCEPT ![k].pc = "insert", ![k].file = f]
    /\ UNCHANGED <<vars, plans, reports>>

PutObject(k) ==
    /\ clerk[k].pc = "put"
    /\ bucket' = [bucket EXCEPT ![clerk[k].file] = PdfOf(clerk[k])]
    /\ clerk' = [clerk EXCEPT ![k].pc = "insert"]
    /\ UNCHANGED <<vars, plans, reports>>

\* file_path, a column that may be NULL, is not set.
ComposedMutant(k) == [inspection |-> clerk[k].inspection, run |-> clerk[k].run,
                      title |-> clerk[k].title, file |-> None]

Composed(k) == [inspection |-> clerk[k].inspection, run |-> clerk[k].run,
                title |-> clerk[k].title, file |-> clerk[k].file]

\* Without uq_report_plan.
FilableMutant(k) == PlanOf(clerk[k]) \in plans

\* The database takes the row: its plan is there, without another report.
Filable(k) == PlanOf(clerk[k]) \in plans /\ ReportOf(PlanOf(clerk[k])) = {}

\* INSERT, audit entry and COMMIT.
InsertReport(k) ==
    /\ clerk[k].pc = "insert"
    /\ Filable(k)
    /\ reports' = reports \cup {Composed(k)}
    /\ Leave(k)
    /\ UNCHANGED <<vars, plans, bucket>>

\* The building, the store, the INSERT or the COMMIT raises: no row.  An object
\* that is stored stays.
ReportFails(k) ==
    /\ clerk[k].pc \in {"plan", "report", "build", "put", "insert"}
    /\ Leave(k)
    /\ UNCHANGED <<vars, reportTables>>

\* GET /reports/{id} and its download: a link to the object the row names.
Download(k, x) ==
    /\ clerk[k].pc = "idle"
    /\ clerk' = [clerk EXCEPT ![k] = [pc |-> "link", inspection |-> x.inspection,
                                      run |-> x.run, title |-> x.title, file |-> x.file]]
    /\ UNCHANGED <<vars, reportTables>>

\* The client has followed the link.
EndDownload(k) ==
    /\ clerk[k].pc = "link"
    /\ Leave(k)
    /\ UNCHANGED <<vars, reportTables>>

\* A step of the recommendation service, or of the worker.
RecommendationStep ==
    /\ \/ (\E i \in Inspections : Analyse(i)) /\ Cascade
       \/ (\E r \in Requests : Recommend(r)) /\ UNCHANGED reportTables
    /\ UNCHANGED clerk

\* One process serves both: it restarts with all its coroutines.
RestartAll ==
    /\ Restart
    /\ clerk' = [k \in Clerks |-> Free]
    /\ UNCHANGED reportTables

\* The steps of one report request.
Report(k) ==
    \/ \E i \in Inspections : \E n \in 1 .. run[i] : \E title \in Titles :
          GenerateReport(k, i, n, title)
    \/ PlanExists(k) \/ GetByPlan(k)
    \/ \E f \in Files : BuildPdf(k, f)
    \/ PutObject(k) \/ InsertReport(k) \/ ReportFails(k)
    \/ \E x \in reports : Download(k, x)
    \/ EndDownload(k)

ReportNext ==
    \/ RecommendationStep
    \/ \E rec \in recs : CreatePlan(rec)
    \/ \E k \in Clerks : Report(k)
    \/ RestartAll

ReportSpec == ReportInit /\ [][ReportNext]_reportVars

-----------------------------------------------------------------------------

\* uq_report_plan, "exactly one report per plan": however many requests find no
\* report at the same time, a plan gets one.
OneReportPerPlan ==
    \A x, y \in reports : PlanOf(x) = PlanOf(y) => x = y

\* A report is of the analysis that is stored: its plan and the recommendation
\* of that plan are stored as well, although a run may be committed at any
\* point of the generation, after the plan was seen to exist.
ReportsOfStoredRuns ==
    \A x \in reports :
        /\ x.run = run[x.inspection]
        /\ PlanOf(x) \in plans
        /\ \E rec \in recs : PlanOf(rec) = PlanOf(x)

\* The object a row names is stored and is the PDF made for that row, and so is
\* the one a client has a link to, even when the report has been deleted since.
ReportHasItsPdf ==
    /\ \A x \in reports : bucket[x.file] = PdfOf(x)
    /\ \A x, y \in reports : x.file = y.file => x = y
    /\ \A k \in Clerks : clerk[k].pc = "link" => bucket[clerk[k].file] = PdfOf(clerk[k])

-----------------------------------------------------------------------------
(***************************************************************************)
(* The inductive invariant behind these properties.                        *)
(***************************************************************************)

\* A request names a plan of an inspection; what it has put is still there, and
\* no report has its name until its own is stored.
Drafted(c) ==
    /\ c.pc # "idle" => c.inspection \in Inspections /\ c.title \in Titles
    /\ c.pc \in {"put", "insert", "link"} => c.file \in Files
    /\ c.pc \in {"insert", "link"} => bucket[c.file] = PdfOf(c)
    /\ c.pc = "put" => bucket[c.file] = None
    /\ c.pc \in {"put", "insert"} => \A x \in reports : x.file # c.file

\* The name that a request has drawn is its own.
NamesAreOwn ==
    \A j, k \in Clerks :
        (j # k /\ clerk[k].pc \in {"put", "insert"}) => clerk[j].file # clerk[k].file

\* The rows hang together as ON DELETE CASCADE keeps them.
RowsHangTogether ==
    /\ \A p \in plans : \E rec \in recs : PlanOf(rec) = p
    /\ \A x \in reports : PlanOf(x) \in plans

ReportInv ==
    /\ ReportTypeOK
    /\ \A k \in Clerks : Drafted(clerk[k])
    /\ NamesAreOwn
    /\ RowsHangTogether
    /\ OneReportPerPlan
    /\ ReportHasItsPdf
=============================================================================
