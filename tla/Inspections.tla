---------------------------- MODULE Inspections ----------------------------
(***************************************************************************)
(* The inspection service and the analysis worker: HTTP requests that      *)
(* create, edit, delete, illustrate and analyse inspections, and the       *)
(* background task that an accepted analysis leaves behind.                *)
(*                                                                         *)
(* All requests share one PostgreSQL database (READ COMMITTED) and one     *)
(* object store.  Every SELECT is a step of its own, and so is every       *)
(* transaction's final UPDATE/INSERT ... COMMIT: the row lock an UPDATE    *)
(* takes is held until COMMIT, so nobody observes the two apart.           *)
(* Whatever another request commits between two steps is seen by the       *)
(* second.  A request is a coroutine; the task that runs after a 202 runs  *)
(* in the coroutine of the request that scheduled it.                      *)
(***************************************************************************)
EXTENDS Integers

CONSTANTS
    Inspections,  \* identifiers of inspections
    Requests,     \* requests in flight at the same time
    Objects,      \* names the store can hold; each upload draws a fresh one
    Notes,        \* contents of the columns a PATCH may change
    None,         \* "no such row", and an unset local variable
    MaxVersion,   \* bound: no request starts on a row of a higher version
    Faults        \* the failures that may happen, out of FaultKinds

(***************************************************************************)
(*   "crash"    the API process dies; the database and the store survive   *)
(*   "handler"  the exception handler of run_analysis fails in its turn    *)
(*   "ack"      a COMMIT takes effect but its caller sees an exception     *)
(***************************************************************************)
FaultKinds == {"crash", "handler", "ack"}

Statuses == {"EN_ATTENTE", "EN_COURS", "TERMINEE", "ERREUR"}

Row == [status : Statuses, version : Nat, notes : Notes, deleted : BOOLEAN]

ASSUME NoneAssumption == None \notin Row /\ None \notin Inspections
ASSUME MaxVersionAssumption == MaxVersion \in Nat
ASSUME FaultsAssumption == Faults \subseteq FaultKinds

VARIABLES
    row,      \* row[i]: the inspections table
    images,   \* the road_images table
    results,  \* results[i]: the analysis_results rows of i, with its pci_scores
    objects,  \* names of the objects in the store
    req,      \* req[r]: the coroutine of request r, with its local variables
    lastRun   \* history: the version the last accepted analysis of i wrote

vars == <<row, images, results, objects, req, lastRun>>

Image  == [object : Objects, inspection : Inspections, num : Nat]
Result == [run : Nat, images : SUBSET Objects]

Uploading == {"uploading", "stored", "numbered"}
Working   == {"queued", "loaded", "failing"}  \* the background task exists
Places    == {"idle", "editing", "patching", "deleting", "checking", "accepting"}
               \cup Uploading \cup Working

Coroutine ==
    [pc     : Places,                   \* where it stands
     target : Inspections \cup {None},  \* the inspection it works on
     seen   : Row \cup {None},          \* that row, as it or its client last read it
     object : Objects \cup {None},      \* the object it has stored ...
     num    : Nat,                      \* ... and the sequence number for its image
     batch  : SUBSET Objects]           \* the images its background task has loaded

Idle == [pc |-> "idle", target |-> None, seen |-> None,
         object |-> None, num |-> 0, batch |-> {}]

\* Every column, local variable and history variable keeps its type.
TypeOK ==
    /\ row \in [Inspections -> Row \cup {None}]
    /\ images \subseteq Image
    /\ results \in [Inspections -> SUBSET Result]
    /\ objects \subseteq Objects
    /\ req \in [Requests -> Coroutine]
    /\ lastRun \in [Inspections -> Nat]

Init ==
    /\ row = [i \in Inspections |-> None]
    /\ images = {}
    /\ results = [i \in Inspections |-> {}]
    /\ objects = {}
    /\ req = [r \in Requests |-> Idle]
    /\ lastRun = [i \in Inspections |-> 0]

-----------------------------------------------------------------------------

\* Operators named ...Mutant are faulty variants of the definition that follows
\* them.  No specification uses them: each breaks a property when it takes the
\* place of that definition.

\* The reads of the repositories see a row only while deleted_at is NULL.
Visible(i) == row[i] # None /\ ~row[i].deleted

\* fn_increment_version: the trigger counts an UPDATE that changes the row.
Bumped(old, new) ==
    IF new = old THEN old ELSE [new EXCEPT !.version = old.version + 1]

Write(i, new) == row' = [row EXCEPT ![i] = Bumped(row[i], new)]

ImagesOf(i) == {m \in images : m.inspection = i}

Goto(r, place) == req' = [req EXCEPT ![r].pc = place]
End(r) == req' = [req EXCEPT ![r] = Idle]

\* A request on inspection i enters the service and reads the row.
Enter(r, i, place) ==
    /\ req[r].pc = "idle"
    /\ Visible(i)
    /\ row[i].version <= MaxVersion
    /\ req' = [req EXCEPT ![r] =
                 [Idle EXCEPT !.pc = place, !.target = i, !.seen = row[i]]]
    /\ UNCHANGED <<row, images, results, objects, lastRun>>

-----------------------------------------------------------------------------

\* POST /inspections
Create(i, n) ==
    /\ row[i] = None
    /\ row' = [row EXCEPT ![i] = [status  |-> "EN_ATTENTE",
                                  version |-> 1,
                                  notes   |-> n,
                                  deleted |-> FALSE]]
    /\ UNCHANGED <<images, results, objects, req, lastRun>>

\* A client GETs the inspection and PATCHes it with the version it has read.
ReadForEdit(r, i) == Enter(r, i, "editing")

\* A PATCH that sets no column ends here as well.
PatchCheck(r) ==
    /\ req[r].pc = "editing"
    /\ (Visible(req[r].target) /\ Goto(r, "patching")) \/ End(r)
    /\ UNCHANGED <<row, images, results, objects, lastRun>>

\* The version is not compared.
PatchCommitMutant(r, n) ==
    /\ req[r].pc = "patching"
    /\ Write(req[r].target, [row[req[r].target] EXCEPT !.notes = n])
    /\ End(r)
    /\ UNCHANGED <<images, results, objects, lastRun>>

\* UPDATE ... WHERE id = :id AND version = :expected; no row matched: 409.
PatchCommit(r, n) ==
    LET i == req[r].target IN
    /\ req[r].pc = "patching"
    /\ IF row[i].version = req[r].seen.version
       THEN Write(i, [row[i] EXCEPT !.notes = n])
       ELSE UNCHANGED row
    /\ End(r)
    /\ UNCHANGED <<images, results, objects, lastRun>>

\* DELETE /inspections/{id}.  Every delete writes a deleted_at of its own, so
\* that the trigger counts it even on a row that is already deleted.
DeleteCheck(r, i) == Enter(r, i, "deleting")

\* The delete does not count as a change of the row.
DeleteCommitMutant(r) ==
    /\ req[r].pc = "deleting"
    /\ row' = [row EXCEPT ![req[r].target].deleted = TRUE]
    /\ End(r)
    /\ UNCHANGED <<images, results, objects, lastRun>>

DeleteCommit(r) ==
    LET i == req[r].target IN
    /\ req[r].pc = "deleting"
    /\ row' = [row EXCEPT ![i] =
                 [row[i] EXCEPT !.deleted = TRUE, !.version = row[i].version + 1]]
    /\ End(r)
    /\ UNCHANGED <<images, results, objects, lastRun>>

\* POST /inspections/{id}/images
UploadCheck(r, i) == Enter(r, i, "uploading")

\* The object is named after the uploaded file.
PutImageMutant(r, o) ==
    /\ req[r].pc = "uploading"
    /\ objects' = objects \cup {o}
    /\ req' = [req EXCEPT ![r].pc = "stored", ![r].object = o]
    /\ UNCHANGED <<row, images, results, lastRun>>

PutImage(r, o) ==
    /\ req[r].pc = "uploading"
    /\ o \notin objects
    /\ objects' = objects \cup {o}
    /\ req' = [req EXCEPT ![r].pc = "stored", ![r].object = o]
    /\ UNCHANGED <<row, images, results, lastRun>>

\* coalesce(max(sequence_num), 1) + 1
NextSequenceNumMutant(r) ==
    LET mine == ImagesOf(req[r].target) IN
    /\ req[r].pc = "stored"
    /\ \E n \in {2} \cup {m.num + 1 : m \in mine} :
          /\ \A m \in mine : m.num < n
          /\ req' = [req EXCEPT ![r].pc = "numbered", ![r].num = n]
    /\ UNCHANGED <<row, images, results, objects, lastRun>>

\* coalesce(max(sequence_num), 0) + 1
NextSequenceNum(r) ==
    LET mine == ImagesOf(req[r].target) IN
    /\ req[r].pc = "stored"
    /\ \E n \in {1} \cup {m.num + 1 : m \in mine} :
          /\ \A m \in mine : m.num < n
          /\ req' = [req EXCEPT ![r].pc = "numbered", ![r].num = n]
    /\ UNCHANGED <<row, images, results, objects, lastRun>>

InsertImage(r) ==
    /\ req[r].pc = "numbered"
    /\ images' = images \cup {[object     |-> req[r].object,
                               inspection |-> req[r].target,
                               num        |-> req[r].num]}
    /\ End(r)
    /\ UNCHANGED <<row, results, objects, lastRun>>

\* Type, size or content refused, or the store or the database unavailable.
UploadFails(r) ==
    /\ req[r].pc \in Uploading
    /\ End(r)
    /\ UNCHANGED <<row, images, results, objects, lastRun>>

\* POST /inspections/{id}/analyse: the row and its images are two SELECTs.
AnalyseRead(r, i) == Enter(r, i, "checking")

\* Only a run in progress is refused.
AnalyseCheckStatusMutant(r) ==
    /\ req[r].pc = "checking"
    /\ IF ImagesOf(req[r].target) # {} /\ req[r].seen.status # "EN_COURS"
       THEN Goto(r, "accepting")
       ELSE End(r)
    /\ UNCHANGED <<row, images, results, objects, lastRun>>

AnalyseCheck(r) ==
    /\ req[r].pc = "checking"
    /\ IF /\ ImagesOf(req[r].target) # {}
          /\ req[r].seen.status \in {"EN_ATTENTE", "ERREUR"}
       THEN Goto(r, "accepting")
       ELSE End(r)
    /\ UNCHANGED <<row, images, results, objects, lastRun>>

\* The status is written without comparing the version.
StartRunMutant(r) ==
    /\ req[r].pc = "accepting"
    /\ Write(req[r].target, [row[req[r].target] EXCEPT !.status = "EN_COURS"])
    /\ lastRun' = [lastRun EXCEPT ![req[r].target] = req[r].seen.version + 1]
    /\ UNCHANGED <<images, results, objects>>

\* The compare-and-set of update_with_version.
StartRun(r) ==
    LET i == req[r].target IN
    /\ req[r].pc = "accepting"
    /\ row[i].version = req[r].seen.version
    /\ Write(i, [row[i] EXCEPT !.status = "EN_COURS"])
    /\ lastRun' = [lastRun EXCEPT ![i] = req[r].seen.version + 1]
    /\ UNCHANGED <<images, results, objects>>

AnalyseAccept(r) == StartRun(r) /\ Goto(r, "queued")

\* The task is scheduled before the conflict is noticed.
AnalyseConflictMutant(r) ==
    /\ req[r].pc = "accepting"
    /\ row[req[r].target].version # req[r].seen.version
    /\ Goto(r, "queued")
    /\ UNCHANGED <<row, images, results, objects, lastRun>>

AnalyseConflict(r) ==
    /\ req[r].pc = "accepting"
    /\ row[req[r].target].version # req[r].seen.version
    /\ End(r)
    /\ UNCHANGED <<row, images, results, objects, lastRun>>

\* The COMMIT went through but raised: no 202, and no task is scheduled.
AnalyseAcceptUnacked(r) == "ack" \in Faults /\ StartRun(r) /\ End(r)

-----------------------------------------------------------------------------
\* run_analysis, the task behind a 202.  It looks the inspection up by primary
\* key: a deleted inspection is analysed like any other.

LoadImages(r) ==
    LET mine == ImagesOf(req[r].target) IN
    /\ req[r].pc = "queued"
    /\ mine # {}
    /\ req' = [req EXCEPT ![r].pc = "loaded", ![r].batch = {m.object : m \in mine}]
    /\ UNCHANGED <<row, images, results, objects, lastRun>>

\* The earlier outputs are not deleted.
SaveResultsMutant(r) ==
    LET i == req[r].target IN
    /\ req[r].pc = "loaded"
    /\ results' = [results EXCEPT ![i] =
                     @ \cup {[run |-> req[r].seen.version + 1, images |-> req[r].batch]}]
    /\ Write(i, [row[i] EXCEPT !.status = "TERMINEE"])
    /\ UNCHANGED <<images, objects, lastRun>>

\* One transaction: delete earlier outputs, insert the new ones, set TERMINEE.
SaveResults(r) ==
    LET i == req[r].target IN
    /\ req[r].pc = "loaded"
    /\ results' = [results EXCEPT ![i] =
                     {[run |-> req[r].seen.version + 1, images |-> req[r].batch]}]
    /\ Write(i, [row[i] EXCEPT !.status = "TERMINEE"])
    /\ UNCHANGED <<images, objects, lastRun>>

CompleteAnalysis(r) == SaveResults(r) /\ End(r)

CompleteUnacked(r) == "ack" \in Faults /\ SaveResults(r) /\ Goto(r, "failing")

\* Any exception of the pipeline: no model, store, detector, database ...
WorkerFails(r) ==
    /\ req[r].pc \in {"queued", "loaded"}
    /\ Goto(r, "failing")
    /\ UNCHANGED <<row, images, results, objects, lastRun>>

\* The status is not committed.
RecordErrorMutant(r) ==
    /\ req[r].pc = "failing"
    /\ End(r)
    /\ UNCHANGED <<row, images, results, objects, lastRun>>

\* The except block: roll back, look the row up, status = ERREUR, commit.
RecordError(r) ==
    LET i == req[r].target IN
    /\ req[r].pc = "failing"
    /\ Write(i, [row[i] EXCEPT !.status = "ERREUR"])
    /\ End(r)
    /\ UNCHANGED <<images, results, objects, lastRun>>

HandlerFails(r) ==
    /\ "handler" \in Faults
    /\ req[r].pc = "failing"
    /\ End(r)
    /\ UNCHANGED <<row, images, results, objects, lastRun>>

\* The API process dies with every coroutine in it; nothing resumes them.
Crash ==
    /\ "crash" \in Faults
    /\ req' = [r \in Requests |-> Idle]
    /\ UNCHANGED <<row, images, results, objects, lastRun>>

-----------------------------------------------------------------------------

Worker(r) ==
    \/ LoadImages(r) \/ CompleteAnalysis(r) \/ CompleteUnacked(r)
    \/ WorkerFails(r) \/ RecordError(r) \/ HandlerFails(r)

Request(r) ==
    \/ \E i \in Inspections :
          ReadForEdit(r, i) \/ DeleteCheck(r, i) \/ UploadCheck(r, i) \/ AnalyseRead(r, i)
    \/ PatchCheck(r)
    \/ \E n \in Notes : PatchCommit(r, n)
    \/ DeleteCommit(r)
    \/ \E o \in Objects : PutImage(r, o)
    \/ NextSequenceNum(r) \/ InsertImage(r) \/ UploadFails(r)
    \/ AnalyseCheck(r) \/ AnalyseAccept(r) \/ AnalyseConflict(r) \/ AnalyseAcceptUnacked(r)

Next ==
    \/ \E i \in Inspections, n \in Notes : Create(i, n)
    \/ \E r \in Requests : Request(r) \/ Worker(r)
    \/ Crash

Spec == Init /\ [][Next]_vars

\* The event loop keeps running a scheduled task, and each await in it returns
\* or raises.  Nothing makes a client send its next request.
Fairness == \A r \in Requests : WF_vars(Worker(r))

LiveSpec == Spec /\ Fairness

-----------------------------------------------------------------------------

\* At most one background task works on an inspection: the version check of
\* request_analysis lets one of several simultaneous requests through.
OneRunPerInspection ==
    \A r, s \in Requests :
        (r # s /\ req[r].pc \in Working /\ req[s].pc \in Working)
            => req[r].target # req[s].target

\* A task works only on an inspection that is EN_COURS, so that its
\* unconditional "status = TERMINEE" and "status = ERREUR" are SM1 steps.
\* TERMINEE is left open for the COMMIT that worked and yet raised.
RunImpliesEnCours ==
    \A r \in Requests : req[r].pc \in Working =>
        LET i == req[r].target IN
        \/ row[i].status = "EN_COURS"
        \/ "ack" \in Faults /\ req[r].pc = "failing" /\ row[i].status = "TERMINEE"

\* The image check of the request still holds when the task runs, which never
\* ends in "No images to analyse".
RunHasImages ==
    \A r \in Requests : req[r].pc \in Working => ImagesOf(req[r].target) # {}

\* A TERMINEE inspection has exactly one result: that of the analysis accepted
\* last, computed from at least one image, all of them images of the inspection.
TermineeShowsLastRun ==
    \A i \in Inspections : (row[i] # None /\ row[i].status = "TERMINEE") =>
        \E res \in results[i] :
            /\ results[i] = {res}
            /\ res.run = lastRun[i]
            /\ res.images # {}
            /\ res.images \subseteq {m.object : m \in ImagesOf(i)}

\* There are results exactly when the inspection is TERMINEE: a failed or
\* interrupted run leaves none behind.  (A conjunct of IInv below.)
ResultsIffTerminee ==
    "ack" \notin Faults =>
        \A i \in Inspections :
            results[i] # {} <=> (row[i] # None /\ row[i].status = "TERMINEE")

\* Every image row points at an object that is in the store, and no two rows
\* share one.
ImagesAreStored ==
    \A m \in images :
        /\ m.object \in objects
        /\ \A x \in images : x.object = m.object => x = m

\* The sequence numbers of an inspection are 1, 2, ..., without a gap.
SequenceWithoutGaps ==
    \A m \in images : \A k \in 1 .. m.num - 1 :
        \E x \in ImagesOf(m.inspection) : x.num = k

\* Rule #4: a PATCH that is applied finds the row as its client read it.
PatchFindsWhatWasRead ==
    [][\A r \in Requests :
         (req[r].pc = "patching" /\ req'[r] # req[r] /\ row' # row)
            => row[req[r].target] = req[r].seen]_vars

\* Rule #5: once deleted, an inspection is out of reach of PATCH and analyse.
\* Only the task of an analysis accepted before may still change its status.
DeletedIsFinal ==
    [][\A i \in Inspections :
         (row[i] # None /\ row[i].deleted) =>
            /\ row'[i].deleted
            /\ row'[i].notes = row[i].notes
            /\ row'[i].status = "EN_COURS" => row[i].status = "EN_COURS"]_vars

-----------------------------------------------------------------------------
(***************************************************************************)
(* The inductive invariant behind these properties.                        *)
(***************************************************************************)

\* What a request has read was there, not deleted, and is still there unless
\* the version of the row has moved on.
ReadsAreVersioned ==
    \A r \in Requests : req[r].pc # "idle" =>
        /\ req[r].target \in Inspections
        /\ row[req[r].target] # None
        /\ req[r].seen # None
        /\ ~req[r].seen.deleted
        /\ req[r].seen.version <= row[req[r].target].version
        /\ req[r].seen.version = row[req[r].target].version
              => req[r].seen = row[req[r].target]

\* An object that is stored but not yet recorded belongs to one upload.
UploadsOwnTheirObject ==
    \A r \in Requests : req[r].pc \in {"stored", "numbered"} =>
        /\ req[r].object \in objects
        /\ \A m \in images : m.object # req[r].object
        /\ \A s \in Requests \ {r} :
              req[s].pc \in {"stored", "numbered"} => req[s].object # req[r].object

\* The numbers below the one an upload has drawn are all taken.
DrawnNumbersFollow ==
    /\ \A m \in images : m.num >= 1
    /\ \A r \in Requests : req[r].pc = "numbered" =>
          /\ req[r].num >= 1
          /\ \A k \in 1 .. req[r].num - 1 :
                \E x \in ImagesOf(req[r].target) : x.num = k

\* What request_analysis has checked before its UPDATE.
ChecksHold ==
    \A r \in Requests : req[r].pc = "accepting" =>
        /\ ImagesOf(req[r].target) # {}
        /\ req[r].seen.status \in {"EN_ATTENTE", "ERREUR"}

\* A task that may still succeed is the last one accepted for its inspection.
RunIsTheLast ==
    \A r \in Requests : req[r].pc \in {"queued", "loaded"} =>
        /\ lastRun[req[r].target] = req[r].seen.version + 1
        /\ req[r].pc = "loaded" =>
              /\ req[r].batch # {}
              /\ req[r].batch \subseteq {m.object : m \in ImagesOf(req[r].target)}

\* The whole of it: what the properties above need to be inductive.
IInv ==
    /\ TypeOK
    /\ ReadsAreVersioned
    /\ UploadsOwnTheirObject
    /\ ImagesAreStored
    /\ DrawnNumbersFollow
    /\ SequenceWithoutGaps
    /\ ChecksHold
    /\ RunImpliesEnCours
    /\ OneRunPerInspection
    /\ RunHasImages
    /\ RunIsTheLast
    /\ TermineeShowsLastRun
    /\ ResultsIffTerminee

-----------------------------------------------------------------------------

StatusOf(i) == IF row[i] = None THEN "NONE" ELSE row[i].status

SM1 == INSTANCE AnalysisLifecycle WITH
            AcksGetLost <- "ack" \in Faults,
            status      <- [i \in Inspections |-> StatusOf(i)],
            published   <- [i \in Inspections |-> results[i] # {}]

\* Whatever crashes, fails or gets lost, the rows go through the states of SM1
\* and the results of a run appear together with TERMINEE and never disappear.
ImplementsSM1 == SM1!Spec

\* When tasks run to their end, every analysis that was started ends.
EveryRunEnds == SM1!RunsEnd

\* "Any exception flips the inspection to ERREUR": a run that has failed is
\* followed by ERREUR on its inspection.
FailureSurfaces ==
    \A r \in Requests, i \in Inspections :
        (req[r].pc = "failing" /\ req[r].target = i) ~> (StatusOf(i) = "ERREUR")
=============================================================================
