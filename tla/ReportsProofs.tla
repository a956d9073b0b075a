--------------------------- MODULE ReportsProofs ---------------------------
(***************************************************************************)
(* Theorems about Recommendations and Reports, for any sets of             *)
(* inspections, requests, references, search results, titles and object    *)
(* names and any number of runs.  What Recommendations promises carries    *)
(* over to Reports, because the report service leaves its tables alone;    *)
(* the invariant of the reports rests on it.                               *)
(***************************************************************************)
EXTENDS Reports, TLAPS

-----------------------------------------------------------------------------
(***************************************************************************)
(* The recommendation service alone.                                       *)
(***************************************************************************)

\* What the pipeline hands to the service is a set of references or the value
\* the LLM gave in place of a list, and nothing exactly without a passage.
LEMMA RefsOfThePipeline ==
    ASSUME NEW passages \in Hits, NEW reply \in Replies
    PROVE  /\ NormativeRefs(passages, reply) \in References
           /\ NormativeRefs(passages, reply) = {} <=> passages = <<>>
<1>1. passages \in Seq(Refs)
  BY HitsAssumption
<1>2. ASSUME NEW n \in {2, 3}
      PROVE  /\ First(n, passages) \in SUBSET Refs
             /\ passages # <<>> => First(n, passages) # {}
  <2>1. \A k \in 1 .. Len(passages) : passages[k] \in Refs
    BY <1>1
  <2>2. Len(passages) \in Nat
    BY <1>1
  <2>3. First(n, passages) \in SUBSET Refs
    BY <2>1, <2>2, <1>2 DEF First
  <2>4. ASSUME passages # <<>> PROVE passages[1] \in First(n, passages)
    <3>1. 1 <= Len(passages)
      BY <1>1, <2>2, <2>4
    <3> QED
      BY <3>1, <1>2 DEF First
  <2> QED
    BY <2>3, <2>4
<1>3. Cited(passages, reply) \in References
  BY <1>2, RepliesAssumption DEF Cited, References, Replies
<1> QED
  BY <1>2, <1>3 DEF NormativeRefs, References

\* An idle coroutine is as good as any.
LEMMA IdleIsSound == Idle \in Coroutine /\ InOrder(Idle) /\ FlagFits(Idle)
<1>1. Idle \in Coroutine
  BY HitsAssumption DEF Idle, Coroutine, Places, References
<1> QED
  BY <1>1 DEF Idle, InOrder, FlagFits

\* Nothing has been read, written or promised at the start.
LEMMA InitInv == Init => IInv
<1> SUFFICES ASSUME Init PROVE IInv
  OBVIOUS
<1>1. TypeOK
  BY IdleIsSound DEF Init, TypeOK
<1>2. RequestsAreSound
  BY IdleIsSound DEF Init, RequestsAreSound
<1> QED
  BY <1>1, <1>2 DEF Init, IInv, NothingAhead, OnePerAnalysis, DecidedOnOneRun,
                    ExplainedTogether, CitesOrFlags

\* A step of one request that writes no table and leaves a sound coroutine.
LEMMA QuietStep ==
    ASSUME IInv, NEW r \in Requests, NEW c \in Coroutine, InOrder(c), FlagFits(c),
           req' = [req EXCEPT ![r] = c], UNCHANGED <<run, recs, xai, audit>>
    PROVE  IInv'
<1>1. TypeOK'
  BY DEF IInv, TypeOK
<1>2. RequestsAreSound'
  <2> SUFFICES ASSUME NEW s \in Requests PROVE InOrder(req[s])' /\ FlagFits(req[s])'
    BY DEF RequestsAreSound
  <2>1. req'[s] = IF s = r THEN c ELSE req[s]
    BY DEF IInv, TypeOK
  <2> QED
    BY <2>1 DEF IInv, RequestsAreSound, InOrder, FlagFits
<1> QED
  BY <1>1, <1>2 DEF IInv, NothingAhead, OnePerAnalysis, DecidedOnOneRun,
                    ExplainedTogether, CitesOrFlags, RecommendationOf

\* Ending a request is such a step.
LEMMA EndStep ==
    ASSUME IInv, NEW r \in Requests, End(r), UNCHANGED <<run, recs, xai, audit>>
    PROVE  IInv'
BY IdleIsSound, QuietStep DEF End

\* A new run takes the recommendation of the one before away with its result.
LEMMA AnalyseStep ==
    ASSUME IInv, NEW i \in Inspections, Analyse(i)
    PROVE  IInv'
<1>1. run' \in [Inspections -> Nat] /\ \A j \in Inspections :
          run'[j] = IF j = i THEN run[j] + 1 ELSE run[j]
  BY DEF Analyse, IInv, TypeOK
<1>2. TypeOK'
  BY <1>1 DEF Analyse, IInv, TypeOK
<1>3. RequestsAreSound'
  <2> SUFFICES ASSUME NEW s \in Requests PROVE InOrder(req[s])' /\ FlagFits(req[s])'
    BY DEF RequestsAreSound
  <2>1. /\ req'[s] = req[s]
        /\ req[s].run \in Nat /\ req[s].score \in Nat
        /\ \A j \in Inspections : run[j] \in Nat /\ run'[j] \in Nat /\ run[j] <= run'[j]
    BY <1>1 DEF Analyse, IInv, TypeOK, Coroutine
  <2>2. CASE req[s].pc = "idle"
    BY <2>1, <2>2 DEF InOrder, FlagFits
  <2>3. CASE req[s].pc # "idle"
    <3>1. /\ req[s].inspection \in Inspections
          /\ run[req[s].inspection] \in Nat
          /\ run'[req[s].inspection] \in Nat
          /\ run[req[s].inspection] <= run'[req[s].inspection]
      BY <2>1, <2>3 DEF IInv, RequestsAreSound, InOrder
    <3>2. InOrder(req[s]) /\ FlagFits(req[s])
      BY DEF IInv, RequestsAreSound
    <3>3. /\ 1 <= req[s].run
          /\ req[s].run <= run'[req[s].inspection]
      BY <2>1, <2>3, <3>1, <3>2 DEF InOrder
    <3>4. ASSUME req[s].pc \in {"retrieve", "narrate", "store"}
          PROVE  /\ req[s].run <= req[s].score
                 /\ req[s].score <= run'[req[s].inspection]
      BY <2>1, <3>1, <3>2, <3>4 DEF InOrder
    <3>5. FlagFits(req[s])'
      BY <2>1, <3>2 DEF FlagFits
    <3> QED
      BY <2>1, <3>1, <3>3, <3>4, <3>5 DEF InOrder
  <2> QED
    BY <2>2, <2>3
<1>4. \A rec \in recs \cup xai : rec.inspection \in Inspections /\ rec.run \in Nat
  BY DEF IInv, TypeOK, Recommendation, XaiExplanation
<1>5. \A rec \in recs' : rec \in recs /\ rec.inspection # i
  BY DEF Analyse
<1>6. NothingAhead' /\ DecidedOnOneRun'
  <2>1. \A x \in xai : x.run <= run'[x.inspection]
    <3> SUFFICES ASSUME NEW x \in xai PROVE x.run <= run'[x.inspection]
      OBVIOUS
    <3>1. x.run <= run[x.inspection] /\ run[x.inspection] \in Nat
      BY <1>4 DEF IInv, NothingAhead, TypeOK
    <3> QED
      BY <1>1, <1>4, <3>1
  <2> QED
    BY <1>1, <1>4, <1>5, <2>1 DEF Analyse, IInv, NothingAhead, DecidedOnOneRun
<1>7. OnePerAnalysis'
  BY <1>5 DEF IInv, OnePerAnalysis
<1>8. ExplainedTogether'
  <2> SUFFICES ASSUME NEW x \in xai, x.run = run'[x.inspection] PROVE x \in recs'
    BY <1>5 DEF Analyse, IInv, ExplainedTogether
  <2>1. x.run <= run[x.inspection] /\ run[x.inspection] \in Nat
    BY <1>4 DEF IInv, NothingAhead, TypeOK
  <2>2. x.inspection # i
    BY <1>1, <1>4, <2>1
  <2> QED
    BY <1>1, <1>4, <2>2 DEF Analyse, IInv, ExplainedTogether
<1>9. CitesOrFlags'
  BY <1>5 DEF Analyse, IInv, CitesOrFlags
<1> QED
  BY <1>2, <1>3, <1>6, <1>7, <1>8, <1>9 DEF IInv

\* What is stored belongs to the run that is still there, and the score was read
\* in between.
LEMMA StoreStep ==
    ASSUME IInv, NEW r \in Requests, Store(r)
    PROVE  IInv'
<1> DEFINE rec == Built(r)
           entry == [inspection |-> req[r].inspection, run |-> req[r].run,
                     missing |-> req[r].missing]
<1>1. /\ req[r] \in Coroutine /\ req[r].pc = "store"
      /\ InOrder(req[r]) /\ FlagFits(req[r])
  BY DEF Store, IInv, TypeOK, RequestsAreSound
<1>2. /\ rec \in Recommendation /\ entry \in AuditLog
      /\ rec.inspection \in Inspections /\ rec.run = req[r].run
      /\ rec.inspection = req[r].inspection
      /\ rec.score = req[r].score /\ rec.refs = req[r].refs
  <2>1. rec.refs \in SUBSET Refs
    BY <1>1 DEF Store, Accepted, Built, Coroutine, References
  <2> QED
    BY <1>1, <2>1 DEF Coroutine, InOrder, Built, Recommendation, AuditLog
<1>3. rec.run = run[rec.inspection] /\ rec.score = rec.run
  <2>1. rec.run = run[rec.inspection]
    BY DEF Store, Accepted
  <2>2. rec.run \in Nat /\ rec.score \in Nat
    BY <1>2 DEF Recommendation
  <2> QED
    BY <1>1, <1>2, <2>1, <2>2 DEF InOrder
<1>4. \A old \in recs : ~(old.inspection = rec.inspection /\ old.run = rec.run)
  BY DEF Store, Accepted, RecommendationOf
<1>5. /\ recs' = recs \cup {rec} /\ xai' = xai \cup {rec}
      /\ audit' = audit \cup {entry} /\ run' = run
      /\ req' = [req EXCEPT ![r] = Idle]
  BY DEF Store, End
<1>6. entry.inspection = rec.inspection /\ entry.run = rec.run
      /\ (entry.missing <=> rec.refs = {})
  BY <1>1, <1>2 DEF FlagFits
<1> HIDE DEF rec, entry
<1>7. TypeOK'
  BY <1>2, <1>5, IdleIsSound DEF IInv, TypeOK, XaiExplanation
<1>8. RequestsAreSound'
  <2> SUFFICES ASSUME NEW s \in Requests PROVE InOrder(req[s])' /\ FlagFits(req[s])'
    BY DEF RequestsAreSound
  <2>1. req'[s] = IF s = r THEN Idle ELSE req[s]
    BY <1>5 DEF IInv, TypeOK
  <2> QED
    BY <1>5, <2>1, IdleIsSound DEF IInv, RequestsAreSound, InOrder, FlagFits
<1>9. rec.run <= run[rec.inspection]
  BY <1>2, <1>3 DEF Recommendation
<1>10. NothingAhead' /\ DecidedOnOneRun' /\ OnePerAnalysis' /\ ExplainedTogether'
  BY <1>3, <1>4, <1>5, <1>9
     DEF IInv, NothingAhead, DecidedOnOneRun, OnePerAnalysis, ExplainedTogether
<1>11. CitesOrFlags'
  BY <1>5, <1>6 DEF IInv, CitesOrFlags
<1> QED
  BY <1>7, <1>8, <1>10, <1>11 DEF IInv

\* A restart forgets the requests and nothing else.
LEMMA RestartStep == ASSUME IInv, Restart PROVE IInv'
<1>1. TypeOK' /\ RequestsAreSound'
  BY IdleIsSound DEF Restart, IInv, TypeOK, RequestsAreSound, InOrder, FlagFits
<1> QED
  BY <1>1 DEF Restart, IInv, NothingAhead, OnePerAnalysis, DecidedOnOneRun,
              ExplainedTogether, CitesOrFlags

\* The steps of a request: each leaves a coroutine of the type, with what it has
\* read in order.
LEMMA RequestStep ==
    ASSUME IInv, NEW r \in Requests, Recommend(r)
    PROVE  IInv'
<1>1. /\ req \in [Requests -> Coroutine] /\ req[r] \in Coroutine
      /\ InOrder(req[r]) /\ run \in [Inspections -> Nat]
  BY DEF IInv, TypeOK, RequestsAreSound
<1>2. ASSUME NEW i \in Inspections, NEW n \in 1 .. run[i], Generate(r, i, n) PROVE IInv'
  <2> DEFINE c == [Idle EXCEPT !.pc = "analysis", !.inspection = i, !.run = n]
  <2>1. n \in Nat /\ 1 <= n /\ n <= run[i]
    BY <1>1
  <2>2. c \in Coroutine /\ InOrder(c) /\ FlagFits(c)
    BY <2>1, IdleIsSound DEF Idle, Coroutine, Places, InOrder, FlagFits
  <2>3. req' = [req EXCEPT ![r] = c] /\ UNCHANGED <<run, recs, xai, audit>>
    BY <1>2 DEF Generate
  <2> HIDE DEF c
  <2> QED
    BY <2>2, <2>3, QuietStep
<1>3. ASSUME NEW place \in {"existing", "score"}, req[r].pc # "idle",
             req' = [req EXCEPT ![r].pc = place], UNCHANGED <<run, recs, xai, audit>>
      PROVE  IInv'
  <2> DEFINE c == [req[r] EXCEPT !.pc = place]
  <2>1. c \in Coroutine /\ InOrder(c) /\ FlagFits(c)
    BY <1>1, <1>3 DEF Coroutine, Places, InOrder, FlagFits
  <2>2. req' = [req EXCEPT ![r] = c]
    BY <1>3
  <2> HIDE DEF c
  <2> QED
    BY <1>3, <2>1, <2>2, QuietStep
<1>4. CASE ReadAnalysis(r)
  BY <1>3, <1>4, EndStep DEF ReadAnalysis
<1>5. CASE ReadExisting(r)
  BY <1>3, <1>5, EndStep DEF ReadExisting
<1>6. CASE ReadScore(r)
  <2> DEFINE c == [req[r] EXCEPT !.pc = "retrieve", !.score = run[req[r].inspection]]
  <2>1. /\ req[r].inspection \in Inspections
        /\ run[req[r].inspection] \in Nat
        /\ req[r].run <= run[req[r].inspection]
    BY <1>1, <1>6 DEF ReadScore, InOrder
  <2>2. req[r].pc = "score"
    BY <1>6 DEF ReadScore
  <2>3. req' = [req EXCEPT ![r] = c] /\ UNCHANGED <<run, recs, xai, audit>>
    BY <1>6 DEF ReadScore
  <2>4. c \in Coroutine
    BY <1>1, <2>1 DEF Coroutine, Places
  <2>5. /\ c.pc = "retrieve" /\ c.score = run[req[r].inspection]
        /\ c.inspection = req[r].inspection /\ c.run = req[r].run
    BY <1>1 DEF Coroutine
  <2> HIDE DEF c
  <2>6. InOrder(c) /\ FlagFits(c)
    BY <1>1, <2>1, <2>2, <2>5 DEF InOrder, FlagFits
  <2> QED
    BY <2>3, <2>4, <2>6, QuietStep
<1>7. CASE RulesFail(r) \/ StoreFails(r)
  BY <1>7, EndStep DEF RulesFail, StoreFails
<1>8. ASSUME NEW passages \in Hits, Retrieve(r, passages) PROVE IInv'
  <2> DEFINE c == [req[r] EXCEPT !.pc = "narrate", !.passages = passages]
  <2>1. c \in Coroutine /\ InOrder(c) /\ FlagFits(c)
    BY <1>1, <1>8 DEF Retrieve, Coroutine, Places, InOrder, FlagFits
  <2>2. req' = [req EXCEPT ![r] = c] /\ UNCHANGED <<run, recs, xai, audit>>
    BY <1>8 DEF Retrieve
  <2> HIDE DEF c
  <2> QED
    BY <2>1, <2>2, QuietStep
<1>9. ASSUME NEW reply \in Replies, Narrate(r, reply) PROVE IInv'
  <2> DEFINE refs == NormativeRefs(req[r].passages, reply)
             flag == (req[r].passages = <<>>)
             c == [req[r] EXCEPT !.pc = "store", !.refs = refs, !.missing = flag]
  <2>1. req[r].passages \in Hits
    BY <1>1 DEF Coroutine
  <2>2. refs \in References /\ (refs = {} <=> flag) /\ flag \in BOOLEAN
    BY <2>1, RefsOfThePipeline
  <2>3. req' = [req EXCEPT ![r] = c] /\ UNCHANGED <<run, recs, xai, audit>>
    BY <1>9 DEF Narrate
  <2> HIDE DEF refs, flag
  <2>4. c \in Coroutine
    BY <1>1, <2>2 DEF Coroutine, Places
  <2>5. /\ c.pc = "store" /\ c.refs = refs /\ c.missing = flag
        /\ c.inspection = req[r].inspection
        /\ c.run = req[r].run /\ c.score = req[r].score
    BY <1>1 DEF Coroutine
  <2>6. req[r].pc = "narrate"
    BY <1>9 DEF Narrate
  <2> HIDE DEF c
  <2>7. InOrder(c) /\ FlagFits(c)
    BY <1>1, <2>2, <2>5, <2>6 DEF InOrder, FlagFits
  <2> QED
    BY <2>3, <2>4, <2>7, QuietStep
<1>10. CASE Store(r)
  BY <1>10, StoreStep
<1> QED
  BY <1>2, <1>4, <1>5, <1>6, <1>7, <1>8, <1>9, <1>10 DEF Recommend

\* The inductive invariant holds in every reachable state: requests and runs
\* meet in any order.
THEOREM Invariance == Spec => []IInv
<1>1. Init => IInv
  BY InitInv
<1>2. IInv /\ [Next]_vars => IInv'
  <2> SUFFICES ASSUME IInv, [Next]_vars PROVE IInv'
    OBVIOUS
  <2>1. ASSUME NEW i \in Inspections, Analyse(i) PROVE IInv'
    BY <2>1, AnalyseStep
  <2>2. ASSUME NEW r \in Requests, Recommend(r) PROVE IInv'
    BY <2>2, RequestStep
  <2>3. CASE Restart
    BY <2>3, RestartStep
  <2>4. CASE UNCHANGED vars
    BY <2>4 DEF vars, IInv, TypeOK, RequestsAreSound, InOrder, FlagFits, NothingAhead,
                OnePerAnalysis, DecidedOnOneRun, ExplainedTogether, CitesOrFlags
  <2> QED
    BY <2>1, <2>2, <2>3, <2>4 DEF Next
<1> QED
  BY <1>1, <1>2, PTL DEF Spec

\* Every variable keeps its type; what is stored in normative_refs is a list.
THEOREM TypeCorrectness == Spec => []TypeOK
<1>1. IInv => TypeOK
  BY DEF IInv
<1> QED
  BY <1>1, Invariance, PTL

\* An analysis gets one recommendation at most, and it was decided on the score
\* of the run it belongs to.
THEOREM DecisionSafety == Spec => [](OnePerAnalysis /\ DecidedOnOneRun)
<1>1. IInv => OnePerAnalysis /\ DecidedOnOneRun
  BY DEF IInv
<1> QED
  BY <1>1, Invariance, PTL

\* Rule #6 and the explanation: a recommendation is stored with its explanation,
\* and cites a reference unless the audit log says that there is none.
THEOREM Grounding == Spec => [](ExplainedTogether /\ CitesOrFlags)
<1>1. IInv => ExplainedTogether /\ CitesOrFlags
  BY DEF IInv
<1> QED
  BY <1>1, Invariance, PTL

-----------------------------------------------------------------------------
(***************************************************************************)
(* The recommendation service and the report service.                      *)
(***************************************************************************)

\* Seen without the reports, the two services behave as the recommendation
\* service alone: nothing the report service does changes what is recommended.
THEOREM ReportsRefineRecommendations == ReportSpec => Spec
<1>1. ReportInit => Init
  BY DEF ReportInit
<1>2. [ReportNext]_reportVars => [Next]_vars
  BY DEF ReportNext, reportVars, RecommendationStep, CreatePlan, GenerateReport, PlanExists,
         GetByPlan, BuildPdf, PutObject, InsertReport, ReportFails, Download, EndDownload,
         Report, RestartAll, Next
<1> QED
  BY <1>1, <1>2, PTL DEF ReportSpec, Spec

\* A clerk without a request.
LEMMA FreeIsSound == Free \in Clerk /\ Drafted(Free) /\ Free.file = None /\ Free.pc = "idle"
BY DEF Free, Clerk, Desks, Drafted

\* Nothing is planned, reported or stored at the start.
LEMMA ReportInitInv == ReportInit => ReportInv
<1> SUFFICES ASSUME ReportInit PROVE ReportInv
  OBVIOUS
<1>1. ReportTypeOK
  BY FreeIsSound, InitInv DEF ReportInit, ReportTypeOK, IInv
<1> QED
  BY <1>1, FreeIsSound DEF ReportInit, ReportInv, NamesAreOwn, RowsHangTogether,
                           OneReportPerPlan, ReportHasItsPdf

\* A step of one report request that leaves the tables and the bucket as they
\* are, and a coroutine whose name nobody else has drawn.
LEMMA DeskStep ==
    ASSUME ReportInv, IInv', NEW k \in Clerks, NEW c \in Clerk, Drafted(c),
           clerk' = [clerk EXCEPT ![k] = c], UNCHANGED <<recs, plans, reports, bucket>>,
           \A j \in Clerks \ {k} : clerk[j].pc \in {"put", "insert"} => clerk[j].file # c.file,
           c.pc \in {"put", "insert"} => \A j \in Clerks \ {k} : clerk[j].file # c.file
    PROVE  ReportInv'
<1>1. \A j \in Clerks : clerk'[j] = IF j = k THEN c ELSE clerk[j]
  BY DEF ReportInv, ReportTypeOK
<1>2. ReportTypeOK'
  BY DEF ReportInv, ReportTypeOK, IInv
<1>3. \A j \in Clerks : Drafted(clerk[j])'
  BY <1>1 DEF ReportInv, Drafted
<1>4. NamesAreOwn'
  BY <1>1 DEF ReportInv, NamesAreOwn
<1>5. ReportHasItsPdf'
  BY <1>1 DEF ReportInv, ReportHasItsPdf, Drafted
<1> QED
  BY <1>2, <1>3, <1>4, <1>5 DEF ReportInv, RowsHangTogether, OneReportPerPlan

\* A request may end at any time.
LEMMA LeaveStep ==
    ASSUME ReportInv, IInv', NEW k \in Clerks, Leave(k), UNCHANGED <<recs, plans, reports, bucket>>
    PROVE  ReportInv'
<1>1. \A j \in Clerks : clerk[j].pc \in {"put", "insert"} => clerk[j].file # None
  BY FilesAssumption DEF ReportInv, Drafted
<1> QED
  BY <1>1, FreeIsSound, DeskStep DEF Leave

\* No step but a new run takes a recommendation away.
LEMMA RecommendationsStay ==
    ASSUME (\E r \in Requests : Recommend(r)) \/ Restart
    PROVE  recs \subseteq recs'
BY DEF Recommend, Generate, ReadAnalysis, ReadExisting, ReadScore, RulesFail, Retrieve,
       Narrate, Store, StoreFails, Restart

\* A recommendation or its failure adds to what plans hang on; a new run takes
\* the plan and the report with the recommendation, and no object.
LEMMA RecommendationStepSafe ==
    ASSUME ReportInv, IInv', RecommendationStep
    PROVE  ReportInv'
<1>1. CASE Cascade
  <2>1. /\ plans' = {p \in plans : \E rec \in recs' : PlanOf(rec) = p}
        /\ reports' = {x \in reports : PlanOf(x) \in plans'}
        /\ bucket' = bucket /\ clerk' = clerk
    BY <1>1 DEF Cascade, Recommended, RecommendationStep
  <2>2. ReportTypeOK'
    BY <2>1 DEF ReportInv, ReportTypeOK, IInv
  <2>3. \A k \in Clerks : Drafted(clerk[k])'
    BY <2>1 DEF ReportInv, Drafted
  <2>4. RowsHangTogether'
    BY <2>1 DEF RowsHangTogether
  <2> QED
    BY <2>1, <2>2, <2>3, <2>4 DEF ReportInv, NamesAreOwn, OneReportPerPlan, ReportHasItsPdf
<1>2. CASE (\E r \in Requests : Recommend(r)) /\ UNCHANGED reportTables
  <2>1. recs \subseteq recs' /\ UNCHANGED <<plans, reports, bucket, clerk>>
    BY <1>2, RecommendationsStay DEF RecommendationStep, reportTables
  <2> QED
    BY <2>1 DEF ReportInv, ReportTypeOK, IInv, Drafted, NamesAreOwn, RowsHangTogether,
                OneReportPerPlan, ReportHasItsPdf
<1> QED
  BY <1>1, <1>2 DEF RecommendationStep

\* A plan is created for a recommendation that is stored.
LEMMA CreatePlanStep ==
    ASSUME ReportInv, IInv', NEW rec \in recs, CreatePlan(rec)
    PROVE  ReportInv'
<1>1. /\ plans' = plans \cup {PlanOf(rec)}
      /\ UNCHANGED <<recs, reports, bucket, clerk>>
  BY DEF CreatePlan, vars
<1>2. PlanOf(rec) \in MaintenancePlan
  BY DEF ReportInv, ReportTypeOK, TypeOK, Recommendation, PlanOf, MaintenancePlan
<1>3. ReportTypeOK'
  BY <1>1, <1>2 DEF ReportInv, ReportTypeOK, IInv
<1> QED
  BY <1>1, <1>3 DEF ReportInv, Drafted, NamesAreOwn, RowsHangTogether, OneReportPerPlan,
                    ReportHasItsPdf

\* The row that is inserted names the object just put, which no other row does,
\* and the plan, which has no other row.
LEMMA InsertReportStep ==
    ASSUME ReportInv, IInv', NEW k \in Clerks, InsertReport(k)
    PROVE  ReportInv'
<1> DEFINE x == Composed(k)
           c == clerk[k]
<1>1. /\ c \in Clerk /\ c.pc = "insert" /\ Drafted(c)
      /\ PlanOf(c) \in plans /\ \A y \in reports : PlanOf(y) # PlanOf(c)
      /\ reports' = reports \cup {x}
      /\ clerk' = [clerk EXCEPT ![k] = Free]
      /\ UNCHANGED <<recs, plans, bucket>>
  BY DEF InsertReport, Filable, ReportOf, Leave, ReportInv, ReportTypeOK, vars
<1>2. /\ x \in InspectionReport
      /\ PlanOf(x) = PlanOf(c) /\ PdfOf(x) = PdfOf(c) /\ x.file = c.file
  BY <1>1 DEF Composed, InspectionReport, Clerk, Drafted, PlanOf, PdfOf
<1> HIDE DEF x, c
<1>3. \A j \in Clerks : clerk'[j] = IF j = k THEN Free ELSE clerk[j]
  BY <1>1 DEF ReportInv, ReportTypeOK
<1>4. ReportTypeOK'
  BY <1>1, <1>2, FreeIsSound DEF ReportInv, ReportTypeOK, IInv
<1>5. bucket[x.file] = PdfOf(x) /\ \A y \in reports : y.file # x.file
  BY <1>1, <1>2 DEF Drafted
<1>6. \A j \in Clerks \ {k} : clerk[j].pc \in {"put", "insert"} => clerk[j].file # x.file
  BY <1>1, <1>2 DEF ReportInv, NamesAreOwn, c
<1>7. \A j \in Clerks : Drafted(clerk[j])'
  <2> SUFFICES ASSUME NEW j \in Clerks PROVE Drafted(clerk[j])'
    OBVIOUS
  <2>1. CASE j = k
    BY <2>1, <1>3, FreeIsSound DEF Drafted
  <2>2. CASE j # k
    BY <2>2, <1>1, <1>3, <1>6 DEF ReportInv, Drafted
  <2> QED
    BY <2>1, <2>2
<1>8. NamesAreOwn'
  <2>1. \A j \in Clerks : clerk[j].pc \in {"put", "insert"} => clerk[j].file # None
    BY FilesAssumption DEF ReportInv, Drafted
  <2> QED
    BY <2>1, <1>3, FreeIsSound DEF ReportInv, NamesAreOwn
<1>9. RowsHangTogether' /\ OneReportPerPlan'
  BY <1>1, <1>2 DEF ReportInv, RowsHangTogether, OneReportPerPlan
<1>10. ReportHasItsPdf'
  BY <1>1, <1>3, <1>5, FreeIsSound DEF ReportInv, ReportHasItsPdf
<1> QED
  BY <1>4, <1>7, <1>8, <1>9, <1>10 DEF ReportInv

\* The object put is a new one: no row and no link names it.
LEMMA PutObjectStep ==
    ASSUME ReportInv, IInv', NEW k \in Clerks, PutObject(k)
    PROVE  ReportInv'
<1> DEFINE old == clerk[k]
           c   == [old EXCEPT !.pc = "insert"]
<1>1. /\ old \in Clerk /\ old.pc = "put" /\ Drafted(old)
      /\ bucket' = [bucket EXCEPT ![old.file] = PdfOf(old)]
      /\ clerk' = [clerk EXCEPT ![k] = c]
      /\ UNCHANGED <<recs, plans, reports>>
  BY DEF PutObject, ReportInv, ReportTypeOK, vars
<1>2. /\ c \in Clerk /\ c.pc = "insert" /\ c.file = old.file /\ PdfOf(c) = PdfOf(old)
      /\ c.inspection = old.inspection /\ c.title = old.title
  BY <1>1 DEF Clerk, Desks, PdfOf
<1>3. old.file \in Files /\ old.inspection \in Inspections /\ old.title \in Titles
  BY <1>1 DEF Drafted
<1> HIDE DEF c
<1>4. PdfOf(old) \in Pdf
  BY <1>1, <1>3 DEF Clerk, PdfOf, Pdf
<1>5. /\ \A f \in Files : bucket'[f] = IF f = old.file THEN PdfOf(old) ELSE bucket[f]
      /\ \A j \in Clerks : clerk'[j] = IF j = k THEN c ELSE clerk[j]
  BY <1>1 DEF ReportInv, ReportTypeOK
<1>6. ReportTypeOK'
  BY <1>1, <1>2, <1>4 DEF ReportInv, ReportTypeOK, IInv
<1>7. \A x \in reports : x.file # old.file
  BY <1>1 DEF Drafted
<1>8. \A j \in Clerks \ {k} : clerk[j].file # old.file
  BY <1>1 DEF ReportInv, NamesAreOwn
<1>9. \A j \in Clerks : Drafted(clerk[j])'
  <2> SUFFICES ASSUME NEW j \in Clerks PROVE Drafted(clerk[j])'
    OBVIOUS
  <2>1. CASE j = k
    BY <2>1, <1>1, <1>2, <1>3, <1>5, <1>7 DEF Drafted
  <2>2. CASE j # k
    <3>1. clerk'[j] = clerk[j] /\ clerk[j].file # old.file /\ Drafted(clerk[j])
      BY <2>2, <1>5, <1>8 DEF ReportInv
    <3> QED
      BY <3>1, <1>1, <1>5 DEF Drafted
  <2> QED
    BY <2>1, <2>2
<1>10. NamesAreOwn'
  BY <1>1, <1>2, <1>5 DEF ReportInv, NamesAreOwn
<1>11. ReportHasItsPdf'
  <2>1. \A x \in reports : x.file \in Files
    BY DEF ReportInv, ReportTypeOK, InspectionReport
  <2>2. \A x \in reports' : bucket'[x.file] = PdfOf(x)
    BY <2>1, <1>1, <1>5, <1>7 DEF ReportInv, ReportHasItsPdf
  <2>3. ASSUME NEW j \in Clerks, clerk'[j].pc = "link"
        PROVE  bucket'[clerk'[j].file] = PdfOf(clerk'[j])
    BY <2>3, <1>2, <1>9 DEF Drafted
  <2> QED
    BY <2>2, <2>3, <1>1 DEF ReportInv, ReportHasItsPdf
<1> QED
  BY <1>1, <1>6, <1>9, <1>10, <1>11 DEF ReportInv, RowsHangTogether, OneReportPerPlan

\* The steps of a report request: all but two leave the tables and the bucket alone.
LEMMA ClerkStep ==
    ASSUME ReportInv, IInv', NEW k \in Clerks, Report(k)
    PROVE  ReportInv'
<1> DEFINE old == clerk[k]
<1>1. old \in Clerk /\ Drafted(old)
  BY DEF ReportInv, ReportTypeOK
<1>2. \A j \in Clerks : clerk[j].pc \in {"put", "insert"} =>
          clerk[j].file \in Files /\ clerk[j].file # None
  BY FilesAssumption DEF ReportInv, Drafted
<1>3. ASSUME NEW i \in Inspections, NEW n \in 1 .. run[i], NEW title \in Titles,
             GenerateReport(k, i, n, title)
      PROVE  ReportInv'
  <2> DEFINE c == [pc |-> "plan", inspection |-> i, run |-> n, title |-> title, file |-> None]
  <2>1. n \in Nat
    BY DEF ReportInv, ReportTypeOK, TypeOK
  <2>2. c \in Clerk /\ Drafted(c)
    BY <2>1 DEF Clerk, Desks, Drafted
  <2>3. clerk' = [clerk EXCEPT ![k] = c] /\ UNCHANGED <<recs, plans, reports, bucket>>
    BY <1>3 DEF GenerateReport, vars, reportTables
  <2>4. c.pc = "plan" /\ c.file = None
    OBVIOUS
  <2> HIDE DEF c
  <2> QED
    BY <1>2, <2>2, <2>3, <2>4, DeskStep
<1>4. CASE PlanExists(k)
  <2> DEFINE c == [old EXCEPT !.pc = "report"]
  <2>1. CASE clerk' = [clerk EXCEPT ![k] = c]
    <3>1. old.pc = "plan" /\ UNCHANGED <<recs, plans, reports, bucket>>
      BY <1>4 DEF PlanExists, vars, reportTables
    <3>2. c \in Clerk /\ c.pc = "report" /\ c.inspection = old.inspection /\ c.title = old.title
          /\ c.file = old.file
      BY <1>1 DEF Clerk, Desks
    <3> HIDE DEF c
    <3>3. Drafted(c)
      BY <1>1, <3>1, <3>2 DEF Drafted
    <3>4. \A j \in Clerks \ {k} : clerk[j].pc \in {"put", "insert"} => clerk[j].file # c.file
      BY <3>2 DEF ReportInv, NamesAreOwn
    <3> QED
      BY <2>1, <3>1, <3>2, <3>3, <3>4, DeskStep
  <2>2. CASE Leave(k)
    BY <2>2, <1>4, LeaveStep DEF PlanExists, vars, reportTables
  <2> QED
    BY <1>4, <2>1, <2>2 DEF PlanExists
<1>5. CASE GetByPlan(k)
  <2> DEFINE c == [old EXCEPT !.pc = "build"]
  <2>1. CASE clerk' = [clerk EXCEPT ![k] = c]
    <3>1. old.pc = "report" /\ UNCHANGED <<recs, plans, reports, bucket>>
      BY <1>5 DEF GetByPlan, vars, reportTables
    <3>2. c \in Clerk /\ c.pc = "build" /\ c.inspection = old.inspection /\ c.title = old.title
          /\ c.file = old.file
      BY <1>1 DEF Clerk, Desks
    <3> HIDE DEF c
    <3>3. Drafted(c)
      BY <1>1, <3>1, <3>2 DEF Drafted
    <3>4. \A j \in Clerks \ {k} : clerk[j].pc \in {"put", "insert"} => clerk[j].file # c.file
      BY <3>2 DEF ReportInv, NamesAreOwn
    <3> QED
      BY <2>1, <3>1, <3>2, <3>3, <3>4, DeskStep
  <2>2. CASE Leave(k)
    BY <2>2, <1>5, LeaveStep DEF GetByPlan, vars, reportTables
  <2> QED
    BY <1>5, <2>1, <2>2 DEF GetByPlan
<1>6. ASSUME NEW f \in Files, BuildPdf(k, f) PROVE ReportInv'
  <2> DEFINE c == [[old EXCEPT !.pc = "put"] EXCEPT !.file = f]
  <2>1. /\ old.pc = "build" /\ bucket[f] = None /\ \A j \in Clerks : clerk[j].file # f
        /\ clerk' = [clerk EXCEPT ![k] = c] /\ UNCHANGED <<recs, plans, reports, bucket>>
    BY <1>1, <1>6 DEF BuildPdf, vars, reportTables, Clerk
  <2>2. c \in Clerk /\ c.pc = "put" /\ c.inspection = old.inspection /\ c.title = old.title
        /\ c.file = f
    BY <1>1 DEF Clerk, Desks
  <2> HIDE DEF c
  <2>3. \A x \in reports : x.file # f
    <3>1. \A x \in reports : bucket[x.file] = PdfOf(x) /\ PdfOf(x) \in Pdf
      BY DEF ReportInv, ReportHasItsPdf, ReportTypeOK, InspectionReport, PdfOf, Pdf
    <3> QED
      BY <2>1, <3>1, PdfAssumption
  <2>4. Drafted(c)
    BY <1>1, <2>1, <2>2, <2>3 DEF Drafted
  <2> QED
    BY <2>1, <2>2, <2>4, DeskStep
<1>7. CASE ReportFails(k) \/ EndDownload(k)
  BY <1>7, LeaveStep DEF ReportFails, EndDownload, vars, reportTables
<1>8. ASSUME NEW x \in reports, Download(k, x) PROVE ReportInv'
  <2> DEFINE c == [pc |-> "link", inspection |-> x.inspection, run |-> x.run,
                   title |-> x.title, file |-> x.file]
  <2>1. c \in Clerk
    BY DEF ReportInv, ReportTypeOK, InspectionReport, Clerk, Desks
  <2>2. PdfOf(c) = PdfOf(x)
    BY DEF PdfOf
  <2>3. Drafted(c)
    BY <2>2 DEF Drafted, ReportInv, ReportHasItsPdf, ReportTypeOK, InspectionReport
  <2>4. \A j \in Clerks : clerk[j].pc \in {"put", "insert"} => clerk[j].file # c.file
    BY DEF ReportInv, Drafted
  <2>5. clerk' = [clerk EXCEPT ![k] = c] /\ UNCHANGED <<recs, plans, reports, bucket>>
    BY <1>8 DEF Download, vars, reportTables
  <2> QED
    BY <2>1, <2>3, <2>4, <2>5, DeskStep
<1> QED
  BY <1>3, <1>4, <1>5, <1>6, <1>7, <1>8, PutObjectStep, InsertReportStep DEF Report

\* A restart ends every request, and takes nothing from the tables.
LEMMA RestartAllStep == ASSUME ReportInv, IInv', RestartAll PROVE ReportInv'
<1>1. UNCHANGED <<recs, plans, reports, bucket>> /\ clerk' = [k \in Clerks |-> Free]
  BY DEF RestartAll, Restart, reportTables
<1>2. ReportTypeOK'
  BY <1>1, FreeIsSound DEF ReportInv, ReportTypeOK, IInv
<1> QED
  BY <1>1, <1>2, FreeIsSound DEF ReportInv, Drafted, NamesAreOwn, RowsHangTogether,
                                 OneReportPerPlan, ReportHasItsPdf

\* The invariant of the reports holds in every reachable state, next to that of
\* the recommendations.
THEOREM ReportInvariance == ReportSpec => [](IInv /\ ReportInv)
<1>1. ReportInit => ReportInv
  BY ReportInitInv
<1>2. IInv' /\ ReportInv /\ [ReportNext]_reportVars => ReportInv'
  <2> SUFFICES ASSUME IInv', ReportInv, [ReportNext]_reportVars PROVE ReportInv'
    OBVIOUS
  <2>1. CASE RecommendationStep
    BY <2>1, RecommendationStepSafe
  <2>2. ASSUME NEW rec \in recs, CreatePlan(rec) PROVE ReportInv'
    BY <2>2, CreatePlanStep
  <2>3. ASSUME NEW k \in Clerks, Report(k) PROVE ReportInv'
    BY <2>3, ClerkStep
  <2>4. CASE RestartAll
    BY <2>4, RestartAllStep
  <2>5. CASE UNCHANGED reportVars
    BY <2>5 DEF reportVars, vars, reportTables, ReportInv, ReportTypeOK, IInv, Drafted,
                NamesAreOwn, RowsHangTogether, OneReportPerPlan, ReportHasItsPdf
  <2> QED
    BY <2>1, <2>2, <2>3, <2>4, <2>5 DEF ReportNext
<1> QED
  BY <1>1, <1>2, ReportsRefineRecommendations, Invariance, PTL DEF ReportSpec

\* Every column, object and local variable of both services keeps its type.
THEOREM ReportTypeCorrectness == ReportSpec => []ReportTypeOK
<1>1. ReportInv => ReportTypeOK
  BY DEF ReportInv
<1> QED
  BY <1>1, ReportInvariance, PTL

\* However many requests race, a plan has one report, and the PDF a report or a
\* link names is the one that was made for it.
THEOREM ReportSafety == ReportSpec => [](OneReportPerPlan /\ ReportHasItsPdf)
<1>1. ReportInv => OneReportPerPlan /\ ReportHasItsPdf
  BY DEF ReportInv
<1> QED
  BY <1>1, ReportInvariance, PTL

\* A report, its plan and its recommendation are of the stored run: whatever is
\* committed during a generation, no report outlives the analysis it describes.
THEOREM ReportsFollowTheRun == ReportSpec => []ReportsOfStoredRuns
<1>1. IInv /\ ReportInv => ReportsOfStoredRuns
  <2> SUFFICES ASSUME IInv, ReportInv, NEW x \in reports
               PROVE  /\ x.run = run[x.inspection]
                      /\ PlanOf(x) \in plans
                      /\ \E rec \in recs : PlanOf(rec) = PlanOf(x)
    BY DEF ReportsOfStoredRuns
  <2>1. PlanOf(x) \in plans
    BY DEF ReportInv, RowsHangTogether
  <2>2. PICK rec \in recs : PlanOf(rec) = PlanOf(x)
    BY <2>1 DEF ReportInv, RowsHangTogether
  <2>3. rec.inspection = x.inspection /\ rec.run = x.run
    BY <2>2 DEF PlanOf
  <2> QED
    BY <2>1, <2>2, <2>3 DEF IInv, DecidedOnOneRun
<1> QED
  BY <1>1, ReportInvariance, PTL

=============================================================================
