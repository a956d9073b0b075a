-------------------------- MODULE Recommendations --------------------------
(***************************************************************************)
(* The recommendation service and its pipeline: a request reads the result *)
(* of an analysis, then the PCI score of its inspection, lets the rules    *)
(* decide, retrieves normative passages, has an LLM justify the decision,  *)
(* and stores a recommendation, its explanation and an audit entry in one  *)
(* transaction.  Every read and every answer from outside is a step: other *)
(* requests, and a new analysis of the inspection, come in between.        *)
(*                                                                         *)
(* The analyses of an inspection are numbered: a run replaces the result   *)
(* and the score of the one before in one transaction.  (Inspections shows *)
(* it, and that a second run with results needs a COMMIT whose             *)
(* acknowledgement was lost.)  What the rules decide is a function of the  *)
(* result and the score they are given; RuleEngine models it, and here the *)
(* numbers of the two runs stand for it.                                   *)
(***************************************************************************)
EXTENDS Integers, Sequences

CONSTANTS
    Inspections,  \* inspections that are analysed
    Requests,     \* requests in flight at the same time
    Refs,         \* normative references: retrieved, or invented by the LLM
    Hits,         \* results of a search: sequences of references
    NotAList,     \* a cited_refs that is true in Python and no JSON array
    Failure,      \* no reply that parses: an exception, other than JSON, no LLM
    None,         \* no inspection, and an unset local variable
    MaxRun        \* bound: analyses of one inspection

ASSUME HitsAssumption == Hits \subseteq Seq(Refs) /\ <<>> \in Hits
ASSUME MaxRunAssumption == MaxRun \in Nat
ASSUME NoneAssumption == None \notin Inspections
ASSUME RepliesAssumption ==
    /\ \A refs \in SUBSET Refs : refs \notin {NotAList, Failure}
    /\ NotAList # Failure

VARIABLES
    run,    \* run[i]: the run whose analysis_results and pci_scores rows are stored
    recs,   \* the maintenance_recommendations table
    xai,    \* the xai_explanations table
    audit,  \* the RECOMMENDATION_GENERATED rows of audit_logs
    req     \* req[r]: the coroutine of request r, with its local variables

vars == <<run, recs, xai, audit, req>>

References == (SUBSET Refs) \cup {NotAList}

\* A recommendation: the analysis it belongs to (an inspection and a run), the
\* run of the PCI score its strategy was decided on, and normative_refs, which a
\* CHECK of the table makes a JSON array.
Recommendation == [inspection : Inspections, run : Nat, score : Nat, refs : SUBSET Refs]

\* An explanation holds the same score and references; the row itself does not
\* name the analysis, the model does so for the properties.
XaiExplanation == Recommendation

AuditLog == [inspection : Inspections, run : Nat, missing : BOOLEAN]

Places == {"idle", "analysis", "existing", "score", "retrieve", "narrate", "store"}

Coroutine ==
    [pc         : Places,
     inspection : Inspections \cup {None},  \* the inspection of the analysis ...
     run        : Nat,                      \* ... and its run: analysis_result_id
     score      : Nat,                      \* the run of the PCI score it has read
     passages   : Hits,                     \* what the search returned
     refs       : References,               \* normative_refs
     missing    : BOOLEAN]                  \* missing_normative_refs

Idle == [pc |-> "idle", inspection |-> None, run |-> 0, score |-> 0,
         passages |-> <<>>, refs |-> {}, missing |-> FALSE]

\* Every column and local variable keeps its type.
TypeOK ==
    /\ run \in [Inspections -> Nat]
    /\ recs \subseteq Recommendation
    /\ xai \subseteq XaiExplanation
    /\ audit \subseteq AuditLog
    /\ req \in [Requests -> Coroutine]

Init ==
    /\ run = [i \in Inspections |-> 0]
    /\ recs = {}
    /\ xai = {}
    /\ audit = {}
    /\ req = [r \in Requests |-> Idle]

-----------------------------------------------------------------------------

\* Operators named ...Mutant are faulty variants of the definition that follows
\* them.  No specification uses them: each breaks a property when it takes the
\* place of that definition.

End(r) == req' = [req EXCEPT ![r] = Idle]

\* The worker commits a run: it deletes the result and the score of the one
\* before, and ON DELETE CASCADE the recommendation of that result.
Analyse(i) ==
    /\ run[i] < MaxRun
    /\ run' = [run EXCEPT ![i] = @ + 1]
    /\ recs' = {rec \in recs : rec.inspection # i}
    /\ UNCHANGED <<xai, audit, req>>

\* POST /analysis-results/{id}/recommendation, with an id the client was given
\* at some time.
Generate(r, i, n) ==
    /\ req[r].pc = "idle"
    /\ req' = [req EXCEPT ![r] = [Idle EXCEPT !.pc = "analysis", !.inspection = i, !.run = n]]
    /\ UNCHANGED <<run, recs, xai, audit>>

\* SELECT the analysis result; 404 when it has been replaced.
ReadAnalysis(r) ==
    /\ req[r].pc = "analysis"
    /\ IF run[req[r].inspection] = req[r].run
         THEN req' = [req EXCEPT ![r].pc = "existing"]
         ELSE End(r)
    /\ UNCHANGED <<run, recs, xai, audit>>

RecommendationOf(i, n) == {rec \in recs : rec.inspection = i /\ rec.run = n}

\* SELECT a recommendation of this analysis; 409 when there is one.
ReadExisting(r) ==
    /\ req[r].pc = "existing"
    /\ IF RecommendationOf(req[r].inspection, req[r].run) = {}
         THEN req' = [req EXCEPT ![r].pc = "score"]
         ELSE End(r)
    /\ UNCHANGED <<run, recs, xai, audit>>

\* SELECT the PCI score, by inspection: that of the run stored now.  An
\* inspection that has had a result has a score, so the 409 for a missing score
\* does not occur.
ReadScore(r) ==
    /\ req[r].pc = "score"
    /\ req' = [req EXCEPT ![r].pc = "retrieve", ![r].score = run[req[r].inspection]]
    /\ UNCHANGED <<run, recs, xai, audit>>

\* rule_node: a RuleFormatError ends the request.
RulesFail(r) ==
    /\ req[r].pc = "retrieve"
    /\ End(r)
    /\ UNCHANGED <<run, recs, xai, audit>>

\* rule_node decides; retrieve_node searches.  Whatever the search raises is an
\* empty result.
Retrieve(r, passages) ==
    /\ req[r].pc = "retrieve"
    /\ req' = [req EXCEPT ![r].pc = "narrate", ![r].passages = passages]
    /\ UNCHANGED <<run, recs, xai, audit>>

\* The references of the first n passages.
First(n, passages) == {passages[k] : k \in {j \in 1 .. n : j <= Len(passages)}}

\* cited_refs: those of the LLM, or those of the first two passages.
Cited(passages, reply) ==
    IF reply \in {Failure, {}} THEN First(2, passages) ELSE reply

\* An empty list of citations is taken for an answer.
NormativeRefsMutant(passages, reply) == IF reply = Failure THEN First(2, passages) ELSE reply

\* normative_refs of run_pipeline.
NormativeRefs(passages, reply) ==
    IF passages = <<>> THEN {}
    ELSE IF Cited(passages, reply) = {} THEN First(3, passages)
    ELSE Cited(passages, reply)

\* narrate_node and the end of run_pipeline.  Without a passage the LLM is not
\* asked, and the gap is flagged.
Narrate(r, reply) ==
    /\ req[r].pc = "narrate"
    /\ req' = [req EXCEPT ![r].pc      = "store",
                          ![r].refs    = NormativeRefs(req[r].passages, reply),
                          ![r].missing = (req[r].passages = <<>>)]
    /\ UNCHANGED <<run, recs, xai, audit>>

\* Without uq_rec_analysis.
AcceptedTwiceMutant(rec) == rec.refs # NotAList /\ run[rec.inspection] = rec.run

\* Without the foreign key.
AcceptedDeletedMutant(rec) ==
    rec.refs # NotAList /\ RecommendationOf(rec.inspection, rec.run) = {}

\* The database takes the rows: normative_refs is an array, the foreign key
\* finds the analysis result, and uq_rec_analysis no other recommendation.
Accepted(rec) ==
    /\ rec.refs # NotAList
    /\ run[rec.inspection] = rec.run
    /\ RecommendationOf(rec.inspection, rec.run) = {}

Built(r) == [inspection |-> req[r].inspection, run |-> req[r].run,
             score |-> req[r].score, refs |-> req[r].refs]

\* The rows of the recommendation, its explanation and the audit entry become
\* visible in one COMMIT.  From its INSERT on, the row locks of the foreign key
\* and of the unique index keep out the runs and the requests it could meet.
Store(r) ==
    /\ req[r].pc = "store"
    /\ Accepted(Built(r))
    /\ recs' = recs \cup {Built(r)}
    /\ xai' = xai \cup {Built(r)}
    /\ audit' = audit \cup {[inspection |-> req[r].inspection, run |-> req[r].run,
                             missing |-> req[r].missing]}
    /\ End(r)
    /\ UNCHANGED run

\* The explanation is committed before the recommendation is inserted.
StoreFailsMutant(r) ==
    /\ req[r].pc = "store"
    /\ ~Accepted(Built(r)) /\ req[r].refs # NotAList
    /\ End(r)
    /\ xai' = xai \cup {Built(r)}
    /\ UNCHANGED <<run, recs, audit>>

\* An INSERT is refused, or fails: the transaction is rolled back, 500.
StoreFails(r) ==
    /\ req[r].pc = "store"
    /\ End(r)
    /\ UNCHANGED <<run, recs, xai, audit>>

\* The process restarts; every transaction that is open is rolled back.
Restart ==
    /\ req' = [r \in Requests |-> Idle]
    /\ UNCHANGED <<run, recs, xai, audit>>

Replies == (SUBSET Refs) \cup {NotAList, Failure}

\* The steps of one request.
Recommend(r) ==
    \/ \E i \in Inspections : \E n \in 1 .. run[i] : Generate(r, i, n)
    \/ ReadAnalysis(r) \/ ReadExisting(r) \/ ReadScore(r)
    \/ RulesFail(r)
    \/ \E passages \in Hits : Retrieve(r, passages)
    \/ \E reply \in Replies : Narrate(r, reply)
    \/ Store(r) \/ StoreFails(r)

Next == (\E i \in Inspections : Analyse(i)) \/ (\E r \in Requests : Recommend(r)) \/ Restart

Spec == Init /\ [][Next]_vars

-----------------------------------------------------------------------------

\* "1:1 with AnalysisResult": however many requests find no recommendation at
\* the same time, an analysis gets one.
OnePerAnalysis ==
    \A a, b \in recs : (a.inspection = b.inspection /\ a.run = b.run) => a = b

\* A recommendation belongs to the stored run, and its strategy was decided on
\* the score of that very run: the result and the score, two reads, never stem
\* from different runs, although a run may be committed between them or while
\* the search and the LLM are awaited.
DecidedOnOneRun ==
    \A rec \in recs : rec.run = run[rec.inspection] /\ rec.score = rec.run

\* A recommendation is stored with its explanation, score and references being
\* the same, and an explanation is never stored without its recommendation; one
\* whose analysis has been replaced since may have lost it.
ExplainedTogether ==
    /\ recs \subseteq xai
    /\ \A x \in xai : x.run = run[x.inspection] => x \in recs

\* Rule #6: a recommendation cites a reference, or the audit log says that there
\* is none to cite.
CitesOrFlags ==
    \A rec \in recs : \E entry \in audit :
        /\ entry.inspection = rec.inspection
        /\ entry.run = rec.run
        /\ entry.missing <=> (rec.refs = {})

-----------------------------------------------------------------------------
(***************************************************************************)
(* The inductive invariant behind these properties.                        *)
(***************************************************************************)

\* The runs a coroutine has read were stored in this order.
InOrder(c) ==
    /\ c.pc # "idle" =>
          /\ c.inspection \in Inspections
          /\ 1 <= c.run
          /\ c.run <= run[c.inspection]
    /\ c.pc \in {"retrieve", "narrate", "store"} =>
          /\ c.run <= c.score
          /\ c.score <= run[c.inspection]

\* It is flagged exactly when it has no reference to store.
FlagFits(c) == c.pc = "store" => (c.missing <=> c.refs = {})

RequestsAreSound == \A r \in Requests : InOrder(req[r]) /\ FlagFits(req[r])

\* Nothing is explained for a run that is still to come.
NothingAhead == \A x \in xai : x.run <= run[x.inspection]

IInv ==
    /\ TypeOK
    /\ RequestsAreSound
    /\ NothingAhead
    /\ OnePerAnalysis
    /\ DecidedOnOneRun
    /\ ExplainedTogether
    /\ CitesOrFlags
=============================================================================
