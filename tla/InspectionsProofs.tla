------------------------- MODULE InspectionsProofs -------------------------
(***************************************************************************)
(* Theorems about Inspections, for any number of inspections, requests and *)
(* objects and any combination of faults.                                  *)
(***************************************************************************)
EXTENDS Inspections, TLAPS

USE NoneAssumption, MaxVersionAssumption, FaultsAssumption

-----------------------------------------------------------------------------
(***************************************************************************)
(* The rows and the reads.  A step leaves a row alone, creates it or       *)
(* raises its version, and a request keeps what it has read until it ends. *)
(***************************************************************************)

Reads == TypeOK /\ ReadsAreVersioned

RowsAdvance ==
    /\ row' \in [Inspections -> Row \cup {None}]
    /\ \A i \in Inspections : row[i] # None =>
          /\ row'[i] # None
          /\ row'[i] = row[i] \/ row'[i].version > row[i].version

RequestsAdvance ==
    /\ req' \in [Requests -> Coroutine]
    /\ \A r \in Requests :
          \/ req'[r].pc = "idle"
          \/ /\ req[r].pc # "idle"
             /\ req'[r].target = req[r].target
             /\ req'[r].seen = req[r].seen
          \/ /\ req'[r].target \in Inspections
             /\ Visible(req'[r].target)
             /\ req'[r].seen = row[req'[r].target]
             /\ row' = row

\* A write through the version trigger.
LEMMA WriteAdvances ==
  ASSUME TypeOK, NEW i \in Inspections, row[i] # None,
         NEW new \in Row, new.version = row[i].version, Write(i, new)
  PROVE  RowsAdvance
<1>1. Bumped(row[i], new) \in Row \cup {None}
  BY DEF Bumped, Row, TypeOK
<1>2. Bumped(row[i], new) # None
  BY DEF Bumped, Row, TypeOK
<1>3. Bumped(row[i], new) = row[i] \/ Bumped(row[i], new).version > row[i].version
  BY DEF Bumped, Row, TypeOK
<1> QED
  BY <1>1, <1>2, <1>3 DEF RowsAdvance, Write, TypeOK

\* A soft delete.
LEMMA DeletedRow ==
  ASSUME NEW old \in Row,
         NEW new, new = [old EXCEPT !.deleted = TRUE, !.version = old.version + 1]
  PROVE  new \in Row /\ new.version > old.version
<1>1. new.version \in Nat /\ new.status \in Statuses /\ new.notes \in Notes
  BY DEF Row
<1>2. new.deleted \in BOOLEAN
  BY DEF Row
<1>3. new = [status  |-> new.status, version |-> new.version,
             notes   |-> new.notes,  deleted |-> new.deleted]
  BY DEF Row
<1>4. new.version > old.version
  BY DEF Row
<1> QED
  BY <1>1, <1>2, <1>3, <1>4, Zenon DEF Row

\* Every step creates a row, leaves it alone or raises its version.
LEMMA NextRows == Reads /\ Next => RowsAdvance
<1> SUFFICES ASSUME Reads, Next PROVE RowsAdvance
  OBVIOUS
<1> USE DEF Reads
<1>1. CASE UNCHANGED row
  BY <1>1 DEF RowsAdvance, TypeOK
<1>2. ASSUME NEW i \in Inspections, NEW n \in Notes, Create(i, n)
      PROVE  RowsAdvance
  BY <1>2 DEF Create, RowsAdvance, TypeOK, Row, Statuses
<1>3. ASSUME NEW r \in Requests, req[r].pc # "idle",
             NEW new \in Row, new.version = row[req[r].target].version,
             Write(req[r].target, new)
      PROVE  RowsAdvance
  BY <1>3, WriteAdvances DEF ReadsAreVersioned
<1>4. ASSUME NEW r \in Requests, req[r].pc # "idle"
      PROVE  /\ row[req[r].target] \in Row
             /\ req[r].target \in Inspections
  BY <1>4 DEF ReadsAreVersioned, TypeOK
<1>5. ASSUME NEW r \in Requests, NEW n \in Notes, PatchCommit(r, n)
      PROVE  RowsAdvance
  BY <1>1, <1>3, <1>4, <1>5 DEF PatchCommit, Row
<1>6. ASSUME NEW r \in Requests, DeleteCommit(r)
      PROVE  RowsAdvance
  BY <1>4, <1>6, DeletedRow DEF DeleteCommit, RowsAdvance, TypeOK
<1>7. ASSUME NEW r \in Requests, StartRun(r) \/ SaveResults(r) \/ RecordError(r)
      PROVE  RowsAdvance
  BY <1>3, <1>4, <1>7 DEF StartRun, SaveResults, RecordError, Row, Statuses
<1>8. ASSUME NEW r \in Requests, Request(r)
      PROVE  RowsAdvance
  <2>1. \/ UNCHANGED row
        \/ \E n \in Notes : PatchCommit(r, n)
        \/ DeleteCommit(r)
        \/ StartRun(r)
    BY <1>8
    DEF Request, Enter, ReadForEdit, DeleteCheck, UploadCheck, AnalyseRead, PatchCheck,
        PutImage, NextSequenceNum, InsertImage, UploadFails, AnalyseCheck, AnalyseAccept,
        AnalyseConflict, AnalyseAcceptUnacked
  <2> QED
    BY <2>1, <1>1, <1>5, <1>6, <1>7
<1>9. ASSUME NEW r \in Requests, Worker(r)
      PROVE  RowsAdvance
  BY <1>1, <1>7, <1>9
  DEF Worker, LoadImages, CompleteAnalysis, CompleteUnacked, WorkerFails, HandlerFails
<1>10. CASE Crash
  BY <1>1, <1>10 DEF Crash
<1> QED
  BY <1>2, <1>8, <1>9, <1>10 DEF Next

\* One request moves, keeping what it has read.
LEMMA StepAdvances ==
  ASSUME TypeOK, NEW r \in Requests, req[r].pc # "idle",
         NEW new \in Coroutine, req' = [req EXCEPT ![r] = new],
         new.target = req[r].target, new.seen = req[r].seen
  PROVE  RequestsAdvance
  BY DEF TypeOK, RequestsAdvance

\* Moving a request to another place keeps what it has read.
LEMMA GotoAdvances ==
  ASSUME TypeOK, NEW r \in Requests, req[r].pc # "idle",
         NEW p \in Places, Goto(r, p)
  PROVE  RequestsAdvance
<1> DEFINE new == [req[r] EXCEPT !.pc = p]
<1>1. new \in Coroutine
  BY DEF TypeOK, Coroutine
<1>2. req' = [req EXCEPT ![r] = new]
  BY DEF Goto
<1>3. new.target = req[r].target /\ new.seen = req[r].seen
  BY DEF TypeOK, Coroutine
<1> HIDE DEF new
<1> QED
  BY <1>1, <1>2, <1>3, StepAdvances

\* A request between two calls is well-typed.
LEMMA IdleIsCoroutine == Idle \in Coroutine /\ Idle.pc = "idle"
  BY DEF Idle, Coroutine, Places

\* A request that ends forgets what it has read.
LEMMA EndAdvances ==
  ASSUME TypeOK, NEW r \in Requests, End(r)
  PROVE  RequestsAdvance
  BY IdleIsCoroutine DEF TypeOK, RequestsAdvance, End

\* A request that enters the service reads the row as it is.
LEMMA EnterAdvances ==
  ASSUME TypeOK, NEW r \in Requests, NEW i \in Inspections, NEW p \in Places, Enter(r, i, p)
  PROVE  RequestsAdvance
<1> DEFINE new == [Idle EXCEPT !.pc = p, !.target = i, !.seen = row[i]]
<1>1. new \in Coroutine /\ new.target = i /\ new.seen = row[i]
  BY DEF TypeOK, Idle, Coroutine
<1>2. req' = [req EXCEPT ![r] = new] /\ Visible(i) /\ row' = row
  BY DEF Enter
<1> HIDE DEF new
<1> QED
  BY <1>1, <1>2 DEF TypeOK, RequestsAdvance

\* Every step ends a request, keeps what it has read, or reads a row afresh.
LEMMA NextRequests == Reads /\ Next => RequestsAdvance
<1> SUFFICES ASSUME TypeOK, Next PROVE RequestsAdvance
  BY DEF Reads
<1>1. {"editing", "patching", "deleting", "checking", "accepting", "uploading",
       "queued", "failing"} \subseteq Places
  BY DEF Places, Uploading, Working
<1>2. CASE UNCHANGED req
  BY <1>2 DEF RequestsAdvance, TypeOK
<1>3. ASSUME NEW r \in Requests, NEW o \in Objects, PutImage(r, o)
      PROVE  RequestsAdvance
  <2> DEFINE new == [req[r] EXCEPT !.pc = "stored", !.object = o]
  <2>1. new \in Coroutine
    <3>1. req[r] \in Coroutine /\ "stored" \in Places
      BY DEF TypeOK, Places, Uploading
    <3> QED
      BY <3>1 DEF Coroutine
  <2>2. req' = [req EXCEPT ![r] = new] /\ req[r].pc # "idle"
    BY <1>3 DEF PutImage, TypeOK
  <2>3. new.target = req[r].target /\ new.seen = req[r].seen
    BY DEF TypeOK, Coroutine
  <2> HIDE DEF new
  <2> QED
    BY <2>1, <2>2, <2>3, StepAdvances
<1>4. ASSUME NEW r \in Requests, NextSequenceNum(r)
      PROVE  RequestsAdvance
  <2>0. {1} \cup {m.num + 1 : m \in ImagesOf(req[r].target)} \subseteq Nat
    BY DEF ImagesOf, TypeOK, Image
  <2>1. PICK n \in Nat : req' = [req EXCEPT ![r].pc = "numbered", ![r].num = n]
    BY <1>4, <2>0 DEF NextSequenceNum
  <2> DEFINE new == [req[r] EXCEPT !.pc = "numbered", !.num = n]
  <2>2. new \in Coroutine
    <3>1. req[r] \in Coroutine /\ "numbered" \in Places
      BY DEF TypeOK, Places, Uploading
    <3> QED
      BY <3>1 DEF Coroutine
  <2>3. req' = [req EXCEPT ![r] = new] /\ req[r].pc # "idle"
    BY <1>4, <2>1 DEF NextSequenceNum, TypeOK
  <2>4. new.target = req[r].target /\ new.seen = req[r].seen
    BY DEF TypeOK, Coroutine
  <2> HIDE DEF new
  <2> QED
    BY <2>2, <2>3, <2>4, StepAdvances
<1>5. ASSUME NEW r \in Requests, LoadImages(r)
      PROVE  RequestsAdvance
  <2>0. {m.object : m \in ImagesOf(req[r].target)} \in SUBSET Objects
    BY DEF ImagesOf, TypeOK, Image
  <2>1. PICK b \in SUBSET Objects : req' = [req EXCEPT ![r].pc = "loaded", ![r].batch = b]
    BY <1>5, <2>0 DEF LoadImages
  <2> DEFINE new == [req[r] EXCEPT !.pc = "loaded", !.batch = b]
  <2>2. new \in Coroutine
    <3>1. req[r] \in Coroutine /\ "loaded" \in Places
      BY DEF TypeOK, Places, Working
    <3> QED
      BY <3>1 DEF Coroutine
  <2>3. req' = [req EXCEPT ![r] = new] /\ req[r].pc # "idle"
    BY <1>5, <2>1 DEF LoadImages, TypeOK
  <2>4. new.target = req[r].target /\ new.seen = req[r].seen
    BY DEF TypeOK, Coroutine
  <2> HIDE DEF new
  <2> QED
    BY <2>2, <2>3, <2>4, StepAdvances
<1>6. CASE Crash
  BY <1>6, IdleIsCoroutine DEF Crash, RequestsAdvance
<1>7. ASSUME NEW r \in Requests,
             PatchCheck(r) \/ AnalyseCheck(r) \/ AnalyseAccept(r)
               \/ CompleteUnacked(r) \/ WorkerFails(r)
      PROVE  RequestsAdvance
  BY <1>1, <1>7, GotoAdvances, EndAdvances
  DEF PatchCheck, AnalyseCheck, AnalyseAccept, StartRun, CompleteUnacked,
      SaveResults, WorkerFails
<1>8. ASSUME NEW r \in Requests,
             \/ \E n \in Notes : PatchCommit(r, n)
             \/ DeleteCommit(r) \/ InsertImage(r) \/ UploadFails(r)
             \/ AnalyseConflict(r) \/ AnalyseAcceptUnacked(r) \/ CompleteAnalysis(r)
             \/ RecordError(r) \/ HandlerFails(r)
      PROVE  RequestsAdvance
  BY <1>8, EndAdvances
  DEF PatchCommit, DeleteCommit, InsertImage, UploadFails, AnalyseConflict,
      AnalyseAcceptUnacked, CompleteAnalysis, RecordError, HandlerFails
<1>9. ASSUME NEW r \in Requests, NEW i \in Inspections,
             \/ ReadForEdit(r, i) \/ DeleteCheck(r, i) \/ UploadCheck(r, i)
             \/ AnalyseRead(r, i)
      PROVE  RequestsAdvance
  BY <1>1, <1>9, EnterAdvances DEF ReadForEdit, DeleteCheck, UploadCheck, AnalyseRead
<1>10. ASSUME NEW r \in Requests, Request(r) PROVE RequestsAdvance
  BY <1>3, <1>4, <1>7, <1>8, <1>9, <1>10 DEF Request
<1>11. ASSUME NEW r \in Requests, Worker(r) PROVE RequestsAdvance
  BY <1>5, <1>7, <1>8, <1>11 DEF Worker
<1>12. ASSUME NEW i \in Inspections, NEW n \in Notes, Create(i, n) PROVE RequestsAdvance
  BY <1>2, <1>12 DEF Create
<1> QED
  BY <1>6, <1>10, <1>11, <1>12 DEF Next

\* So the reads of the requests stay backed by the version of the row.
LEMMA NextReads == Reads /\ RowsAdvance /\ RequestsAdvance => ReadsAreVersioned'
<1> SUFFICES ASSUME Reads, RowsAdvance, RequestsAdvance,
                    NEW r \in Requests, req'[r].pc # "idle"
             PROVE  /\ req'[r].target \in Inspections
                    /\ row'[req'[r].target] # None
                    /\ req'[r].seen # None
                    /\ ~req'[r].seen.deleted
                    /\ req'[r].seen.version <= row'[req'[r].target].version
                    /\ req'[r].seen.version = row'[req'[r].target].version
                         => req'[r].seen = row'[req'[r].target]
  BY DEF ReadsAreVersioned
<1>1. CASE /\ req[r].pc # "idle"
           /\ req'[r].target = req[r].target
           /\ req'[r].seen = req[r].seen
  <2> DEFINE i == req[r].target
  <2>1. /\ i \in Inspections /\ row[i] # None /\ req[r].seen # None /\ ~req[r].seen.deleted
        /\ req[r].seen.version <= row[i].version
        /\ req[r].seen.version = row[i].version => req[r].seen = row[i]
    BY <1>1 DEF Reads, ReadsAreVersioned
  <2>2. row'[i] # None /\ (row'[i] = row[i] \/ row'[i].version > row[i].version)
    BY <2>1 DEF RowsAdvance
  <2>3. req[r].seen.version \in Nat /\ row[i].version \in Nat /\ row'[i].version \in Nat
    BY <2>1, <2>2 DEF Reads, TypeOK, Coroutine, Row, RowsAdvance
  <2> HIDE DEF i
  <2>4. req[r].seen.version <= row'[i].version
    BY <2>1, <2>2, <2>3
  <2>5. req[r].seen.version = row'[i].version => req[r].seen = row'[i]
    BY <2>1, <2>2, <2>3
  <2> QED
    BY <1>1, <2>1, <2>2, <2>4, <2>5 DEF i
<1>2. CASE /\ req'[r].target \in Inspections
           /\ Visible(req'[r].target)
           /\ req'[r].seen = row[req'[r].target]
           /\ row' = row
  BY <1>2 DEF Visible, Reads, TypeOK, Row
<1> QED
  BY <1>1, <1>2 DEF RequestsAdvance

-----------------------------------------------------------------------------
(***************************************************************************)
(* Uploads.                                                                *)
(***************************************************************************)

Uploads ==
    /\ UploadsOwnTheirObject
    /\ ImagesAreStored
    /\ DrawnNumbersFollow
    /\ SequenceWithoutGaps

UploadsQuiet ==
    /\ images' = images
    /\ objects' = objects
    /\ \A r \in Requests : req'[r].pc \in {"stored", "numbered"} => req'[r] = req[r]

\* A step that touches neither images nor uploads keeps their invariant.
LEMMA QuietKeepsUploads == Uploads /\ UploadsQuiet => Uploads'
<1> SUFFICES ASSUME Uploads, UploadsQuiet PROVE Uploads'
  OBVIOUS
<1>1. UploadsOwnTheirObject'
  BY DEF Uploads, UploadsQuiet, UploadsOwnTheirObject
<1>2. ImagesAreStored'
  BY DEF Uploads, UploadsQuiet, ImagesAreStored
<1>3. DrawnNumbersFollow'
  BY DEF Uploads, UploadsQuiet, DrawnNumbersFollow, ImagesOf
<1>4. SequenceWithoutGaps'
  BY DEF Uploads, UploadsQuiet, SequenceWithoutGaps, ImagesOf
<1> QED
  BY <1>1, <1>2, <1>3, <1>4 DEF Uploads

\* A request that ends gives its object up and disturbs no other upload.
LEMMA EndIsQuiet ==
  ASSUME TypeOK, NEW r \in Requests, End(r), UNCHANGED <<images, objects>>
  PROVE  UploadsQuiet
  BY DEF UploadsQuiet, End, Idle, TypeOK

\* Moves outside an upload disturb no upload.
LEMMA GotoIsQuiet ==
  ASSUME TypeOK, NEW r \in Requests, NEW p, p \notin {"stored", "numbered"},
         Goto(r, p), UNCHANGED <<images, objects>>
  PROVE  UploadsQuiet
  BY DEF UploadsQuiet, Goto, TypeOK, Coroutine

\* Entering the service disturbs no upload.
LEMMA EnterIsQuiet ==
  ASSUME TypeOK, NEW r \in Requests, NEW i \in Inspections,
         NEW p, p \notin {"stored", "numbered"}, Enter(r, i, p)
  PROVE  UploadsQuiet
  BY DEF UploadsQuiet, Enter, Idle, TypeOK, Coroutine

\* The object an upload stores is fresh: no image and no upload has it.
LEMMA PutImageKeepsUploads ==
  ASSUME TypeOK, Uploads, NEW r \in Requests, NEW o \in Objects, PutImage(r, o)
  PROVE  Uploads'
<1>1. /\ req'[r].pc = "stored" /\ req'[r].object = o
      /\ \A s \in Requests \ {r} : req'[s] = req[s]
      /\ images' = images /\ objects' = objects \cup {o} /\ o \notin objects
  BY DEF PutImage, TypeOK, Coroutine
<1>2. UploadsOwnTheirObject'
  BY <1>1 DEF Uploads, UploadsOwnTheirObject, ImagesAreStored
<1>3. ImagesAreStored'
  BY <1>1 DEF Uploads, ImagesAreStored
<1>4. DrawnNumbersFollow'
  BY <1>1 DEF Uploads, DrawnNumbersFollow, ImagesOf
<1>5. SequenceWithoutGaps'
  BY <1>1 DEF Uploads, SequenceWithoutGaps, ImagesOf
<1> QED
  BY <1>2, <1>3, <1>4, <1>5 DEF Uploads

\* max(sequence_num) + 1 leaves no gap below the number that is drawn.
LEMMA NextSequenceNumKeepsUploads ==
  ASSUME TypeOK, Uploads, NEW r \in Requests, NextSequenceNum(r)
  PROVE  Uploads'
<1> DEFINE mine == ImagesOf(req[r].target)
<1>1. PICK n \in {1} \cup {m.num + 1 : m \in mine} :
         req' = [req EXCEPT ![r].pc = "numbered", ![r].num = n]
  BY DEF NextSequenceNum
<1>2. /\ req[r].pc = "stored" /\ req'[r].pc = "numbered" /\ req'[r].num = n
      /\ req'[r].object = req[r].object /\ req'[r].target = req[r].target
      /\ \A s \in Requests \ {r} : req'[s] = req[s]
      /\ images' = images /\ objects' = objects
  BY <1>1 DEF NextSequenceNum, TypeOK, Coroutine
<1>3. UploadsOwnTheirObject'
  BY <1>2 DEF Uploads, UploadsOwnTheirObject
<1>4. ImagesAreStored'
  BY <1>2 DEF Uploads, ImagesAreStored
<1>5. n \in Nat /\ n >= 1 /\ \A k \in 1 .. n - 1 : \E x \in mine : x.num = k
  <2>1. CASE n = 1
    BY <2>1
  <2>2. ASSUME NEW m \in mine, n = m.num + 1
        PROVE  n \in Nat /\ n >= 1 /\ \A k \in 1 .. n - 1 : \E x \in mine : x.num = k
    <3>1. m \in images /\ m.num \in Nat /\ m.num >= 1 /\ m.inspection = req[r].target
      BY DEF ImagesOf, TypeOK, Image, Uploads, DrawnNumbersFollow
    <3>2. \A k \in 1 .. m.num - 1 : \E x \in mine : x.num = k
      BY <3>1 DEF Uploads, SequenceWithoutGaps
    <3>3. ASSUME NEW k \in 1 .. n - 1 PROVE \E x \in mine : x.num = k
      <4>1. CASE k = m.num
        BY <4>1
      <4>2. CASE k # m.num
        <5>1. k \in 1 .. m.num - 1
          BY <2>2, <3>1, <4>2
        <5> QED
          BY <3>2, <5>1
      <4> QED
        BY <4>1, <4>2
    <3> QED
      BY <2>2, <3>1, <3>3
  <2> QED
    BY <1>1, <2>1, <2>2
<1>6. DrawnNumbersFollow'
  BY <1>2, <1>5 DEF Uploads, DrawnNumbersFollow, ImagesOf
<1>7. SequenceWithoutGaps'
  BY <1>2 DEF Uploads, SequenceWithoutGaps, ImagesOf
<1> QED
  BY <1>3, <1>4, <1>6, <1>7 DEF Uploads

\* The image row takes over the object and the number of its upload.
LEMMA InsertImageKeepsUploads ==
  ASSUME TypeOK, Uploads, NEW r \in Requests, InsertImage(r)
  PROVE  Uploads'
<1> DEFINE new == [object |-> req[r].object, inspection |-> req[r].target, num |-> req[r].num]
<1>1. /\ req[r].pc = "numbered" /\ req'[r].pc = "idle"
      /\ \A s \in Requests \ {r} : req'[s] = req[s]
      /\ images' = images \cup {new} /\ objects' = objects
  BY DEF InsertImage, End, Idle, TypeOK
<1>2. new.object = req[r].object /\ new.inspection = req[r].target /\ new.num = req[r].num
  OBVIOUS
<1> HIDE DEF new
<1>3. /\ req[r].object \in objects
      /\ \A m \in images : m.object # req[r].object
      /\ \A s \in Requests \ {r} :
            req[s].pc \in {"stored", "numbered"} => req[s].object # req[r].object
  BY <1>1 DEF Uploads, UploadsOwnTheirObject
<1>4. UploadsOwnTheirObject'
  BY <1>1, <1>2, <1>3 DEF Uploads, UploadsOwnTheirObject
<1>5. ImagesAreStored'
  BY <1>1, <1>2, <1>3 DEF Uploads, ImagesAreStored
<1>6. \A i : ImagesOf(i) \subseteq ImagesOf(i)'
  BY <1>1 DEF ImagesOf
<1>7. DrawnNumbersFollow'
  <2>1. \A m \in images' : m.num >= 1
    BY <1>1, <1>2 DEF Uploads, DrawnNumbersFollow
  <2>2. ASSUME NEW s \in Requests, req'[s].pc = "numbered"
        PROVE  /\ req'[s].num >= 1
               /\ \A k \in 1 .. req'[s].num - 1 :
                     \E x \in images' : x.inspection = req'[s].target /\ x.num = k
    <3>1. req'[s] = req[s]
      BY <1>1, <2>2
    <3> QED
      BY <1>1, <2>2, <3>1 DEF Uploads, DrawnNumbersFollow, ImagesOf
  <2> QED
    BY <2>1, <2>2 DEF DrawnNumbersFollow, ImagesOf
<1>8. SequenceWithoutGaps'
  <2> SUFFICES ASSUME NEW m \in images', NEW k \in 1 .. m.num - 1
               PROVE  \E x \in ImagesOf(m.inspection)' : x.num = k
    BY DEF SequenceWithoutGaps
  <2>1. CASE m \in images
    BY <1>6, <2>1 DEF Uploads, SequenceWithoutGaps
  <2>2. CASE m = new
    <3>1. \E x \in ImagesOf(req[r].target) : x.num = k
      BY <1>1, <1>2, <2>2 DEF Uploads, DrawnNumbersFollow
    <3> QED
      BY <1>2, <1>6, <2>2, <3>1
  <2> QED
    BY <1>1, <2>1, <2>2
<1> QED
  BY <1>4, <1>5, <1>7, <1>8 DEF Uploads

\* Every step keeps the invariant of the uploads.
LEMMA NextUploads == TypeOK /\ Uploads /\ Next => Uploads'
<1> SUFFICES ASSUME TypeOK, Uploads, Next PROVE Uploads'
  OBVIOUS
<1>1. CASE UploadsQuiet
  BY <1>1, QuietKeepsUploads
<1>2. ASSUME NEW r \in Requests, NEW i \in Inspections,
             \/ ReadForEdit(r, i) \/ DeleteCheck(r, i) \/ UploadCheck(r, i)
             \/ AnalyseRead(r, i)
      PROVE  Uploads'
  BY <1>1, <1>2, EnterIsQuiet DEF ReadForEdit, DeleteCheck, UploadCheck, AnalyseRead
<1>3. ASSUME NEW r \in Requests,
             PatchCheck(r) \/ AnalyseCheck(r) \/ AnalyseAccept(r)
               \/ CompleteUnacked(r) \/ WorkerFails(r)
      PROVE  Uploads'
  BY <1>1, <1>3, GotoIsQuiet, EndIsQuiet
  DEF PatchCheck, AnalyseCheck, AnalyseAccept, StartRun, CompleteUnacked,
      SaveResults, WorkerFails
<1>4. ASSUME NEW r \in Requests,
             \/ \E n \in Notes : PatchCommit(r, n)
             \/ DeleteCommit(r) \/ UploadFails(r) \/ AnalyseConflict(r)
             \/ AnalyseAcceptUnacked(r) \/ CompleteAnalysis(r)
             \/ RecordError(r) \/ HandlerFails(r)
      PROVE  Uploads'
  BY <1>1, <1>4, EndIsQuiet
  DEF PatchCommit, DeleteCommit, UploadFails, AnalyseConflict, StartRun,
      AnalyseAcceptUnacked, CompleteAnalysis, SaveResults, RecordError, HandlerFails
<1>5. ASSUME NEW r \in Requests, LoadImages(r)
      PROVE  Uploads'
  <2> DEFINE loaded == {m.object : m \in ImagesOf(req[r].target)}
  <2>1. /\ images' = images /\ objects' = objects
        /\ req' = [req EXCEPT ![r].pc = "loaded", ![r].batch = loaded]
    BY <1>5 DEF LoadImages
  <2> HIDE DEF loaded
  <2>2. req \in [Requests -> Coroutine]
    BY DEF TypeOK
  <2>3. req'[r].pc = "loaded" /\ \A s \in Requests \ {r} : req'[s] = req[s]
    BY <2>1, <2>2 DEF Coroutine
  <2> QED
    BY <1>1, <2>1, <2>3 DEF UploadsQuiet
<1>6. ASSUME NEW r \in Requests, Request(r)
      PROVE  Uploads'
  BY <1>2, <1>3, <1>4, <1>6, PutImageKeepsUploads, NextSequenceNumKeepsUploads,
     InsertImageKeepsUploads DEF Request
<1>7. ASSUME NEW r \in Requests, Worker(r)
      PROVE  Uploads'
  BY <1>3, <1>4, <1>5, <1>7 DEF Worker
<1>8. ASSUME NEW i \in Inspections, NEW n \in Notes, Create(i, n)
      PROVE  Uploads'
  BY <1>1, <1>8 DEF Create, UploadsQuiet
<1>9. CASE Crash
  BY <1>1, <1>9 DEF Crash, UploadsQuiet, Idle
<1> QED
  BY <1>6, <1>7, <1>8, <1>9 DEF Next

\* The tables keep their types.  An image row names the object of its upload.
LEMMA NextTables ==
  Reads /\ UploadsOwnTheirObject /\ Next =>
    /\ images' \subseteq Image
    /\ results' \in [Inspections -> SUBSET Result]
    /\ objects' \subseteq Objects
    /\ lastRun' \in [Inspections -> Nat]
<1> DEFINE Tables ==
      /\ images' \subseteq Image
      /\ results' \in [Inspections -> SUBSET Result]
      /\ objects' \subseteq Objects
      /\ lastRun' \in [Inspections -> Nat]
<1> SUFFICES ASSUME Reads, UploadsOwnTheirObject, Next PROVE Tables
  OBVIOUS
<1>1. CASE UNCHANGED <<images, results, objects, lastRun>>
  BY <1>1 DEF Reads, TypeOK
<1>2. ASSUME NEW r \in Requests, req[r].pc # "idle"
      PROVE  /\ req[r].target \in Inspections
             /\ req[r].seen.version + 1 \in Nat
             /\ req[r].num \in Nat
             /\ req[r].batch \in SUBSET Objects
  BY <1>2 DEF Reads, TypeOK, ReadsAreVersioned, Coroutine, Row
<1>3. ASSUME NEW r \in Requests, NEW o \in Objects, PutImage(r, o) PROVE Tables
  BY <1>3 DEF PutImage, Reads, TypeOK
<1>4. ASSUME NEW r \in Requests, InsertImage(r) PROVE Tables
  <2> DEFINE new == [object |-> req[r].object, inspection |-> req[r].target, num |-> req[r].num]
  <2>1. req[r].object \in Objects
    BY <1>4 DEF InsertImage, UploadsOwnTheirObject, Reads, TypeOK
  <2>2. new \in Image
    BY <1>2, <1>4, <2>1 DEF InsertImage, Image
  <2>3. images' = images \cup {new} /\ UNCHANGED <<results, objects, lastRun>>
    BY <1>4 DEF InsertImage
  <2> HIDE DEF new
  <2> QED
    BY <2>2, <2>3 DEF Reads, TypeOK
<1>5. ASSUME NEW r \in Requests, StartRun(r) PROVE Tables
  BY <1>2, <1>5 DEF StartRun, Reads, TypeOK
<1>6. ASSUME NEW r \in Requests, SaveResults(r) PROVE Tables
  <2> DEFINE new == [run |-> req[r].seen.version + 1, images |-> req[r].batch]
  <2>1. new \in Result
    BY <1>2, <1>6 DEF SaveResults, Result
  <2>2. /\ results' = [results EXCEPT ![req[r].target] = {new}]
        /\ UNCHANGED <<images, objects, lastRun>>
    BY <1>6 DEF SaveResults
  <2> HIDE DEF new
  <2> QED
    BY <2>1, <2>2 DEF Reads, TypeOK
<1> HIDE DEF Tables
<1>7. ASSUME NEW r \in Requests, Request(r) PROVE Tables
  BY <1>1, <1>3, <1>4, <1>5, <1>7
  DEF Request, ReadForEdit, DeleteCheck, UploadCheck, AnalyseRead, Enter, PatchCheck,
      PatchCommit, DeleteCommit, NextSequenceNum, UploadFails, AnalyseCheck,
      AnalyseAccept, AnalyseConflict, AnalyseAcceptUnacked
<1>8. ASSUME NEW r \in Requests, Worker(r) PROVE Tables
  BY <1>1, <1>6, <1>8
  DEF Worker, LoadImages, CompleteAnalysis, CompleteUnacked, WorkerFails,
      RecordError, HandlerFails
<1> QED
  BY <1>1, <1>7, <1>8 DEF Next, Create, Crash

-----------------------------------------------------------------------------
(***************************************************************************)
(* Analyses.                                                               *)
(***************************************************************************)

Runs ==
    /\ ChecksHold
    /\ RunImpliesEnCours
    /\ OneRunPerInspection
    /\ RunHasImages
    /\ RunIsTheLast
    /\ TermineeShowsLastRun
    /\ ResultsIffTerminee

RunsQuiet ==
    /\ images \subseteq images'
    /\ results' = results
    /\ lastRun' = lastRun
    /\ \A i \in Inspections :
          /\ row'[i] = None <=> row[i] = None
          /\ row[i] # None => row'[i].status = row[i].status
    /\ \A r \in Requests : req'[r].pc \in Working \cup {"accepting"} => req'[r] = req[r]

\* A request that is not idle works on an existing row and has read it.
LEMMA ActiveRequest ==
  ASSUME Reads, NEW r \in Requests, req[r].pc # "idle"
  PROVE  /\ req[r].target \in Inspections
         /\ row[req[r].target] \in Row
         /\ row[req[r].target] # None
         /\ req[r].seen \in Row
         /\ req[r].seen.version = row[req[r].target].version
               => req[r].seen = row[req[r].target]
  BY DEF Reads, TypeOK, ReadsAreVersioned, Coroutine

\* Writing a status changes no other row, whatever the trigger does.
LEMMA StatusWritten ==
  ASSUME TypeOK, NEW i \in Inspections, row[i] # None, NEW s \in Statuses,
         Write(i, [row[i] EXCEPT !.status = s])
  PROVE  /\ row'[i] # None
         /\ row'[i].status = s
         /\ \A j \in Inspections \ {i} : row'[j] = row[j]
<1> DEFINE new == [row[i] EXCEPT !.status = s]
<1>1. new \in Row /\ new.status = s
  BY DEF TypeOK, Row
<1>2. row' = [row EXCEPT ![i] = Bumped(row[i], new)]
  BY DEF Write
<1> HIDE DEF new
<1>3. Bumped(row[i], new) \in Row /\ Bumped(row[i], new).status = s
  BY <1>1 DEF Bumped, Row, TypeOK
<1> QED
  BY <1>2, <1>3 DEF TypeOK

\* Writing the notes changes no status and no other row.
LEMMA NotesWritten ==
  ASSUME TypeOK, NEW i \in Inspections, row[i] # None, NEW n \in Notes,
         Write(i, [row[i] EXCEPT !.notes = n])
  PROVE  /\ row'[i] # None
         /\ row'[i].status = row[i].status
         /\ \A j \in Inspections \ {i} : row'[j] = row[j]
<1> DEFINE new == [row[i] EXCEPT !.notes = n]
<1>1. new \in Row /\ new.status = row[i].status
  BY DEF TypeOK, Row
<1>2. row' = [row EXCEPT ![i] = Bumped(row[i], new)]
  BY DEF Write
<1> HIDE DEF new
<1>3. Bumped(row[i], new) \in Row /\ Bumped(row[i], new).status = row[i].status
  BY <1>1 DEF Bumped, Row, TypeOK
<1> QED
  BY <1>2, <1>3 DEF TypeOK

\* A step that changes no status, result or task keeps their invariant.
LEMMA QuietKeepsRuns == Reads /\ Runs /\ RunsQuiet => Runs'
<1> SUFFICES ASSUME Reads, Runs, RunsQuiet PROVE Runs'
  OBVIOUS
<1>0. ASSUME NEW r \in Requests, req'[r].pc \in Working \cup {"accepting"}
      PROVE  /\ req'[r] = req[r]
             /\ req[r].target \in Inspections
             /\ row[req[r].target] # None
  BY <1>0, ActiveRequest DEF RunsQuiet, Working
<1>1. ChecksHold'
  BY <1>0 DEF Runs, RunsQuiet, ChecksHold, ImagesOf
<1>2. RunImpliesEnCours'
  BY <1>0 DEF Runs, RunsQuiet, RunImpliesEnCours
<1>3. OneRunPerInspection'
  BY <1>0 DEF Runs, OneRunPerInspection
<1>4. RunHasImages'
  BY <1>0 DEF Runs, RunsQuiet, RunHasImages, ImagesOf
<1>5. RunIsTheLast'
  BY <1>0 DEF Runs, RunsQuiet, RunIsTheLast, ImagesOf, Working
<1>6. TermineeShowsLastRun'
  BY DEF Runs, RunsQuiet, TermineeShowsLastRun, ImagesOf
<1>7. ResultsIffTerminee'
  BY DEF Runs, RunsQuiet, ResultsIffTerminee
<1> QED
  BY <1>1, <1>2, <1>3, <1>4, <1>5, <1>6, <1>7 DEF Runs

\* A new inspection is EN_ATTENTE and has neither task nor result.
LEMMA CreateKeepsRuns ==
  ASSUME Reads, Runs, NEW i \in Inspections, NEW n \in Notes, Create(i, n)
  PROVE  Runs'
<1>1. /\ row[i] = None
      /\ row'[i] # None /\ row'[i].status = "EN_ATTENTE"
      /\ \A j \in Inspections \ {i} : row'[j] = row[j]
      /\ UNCHANGED <<images, results, objects, req, lastRun>>
  <2> DEFINE new == [status |-> "EN_ATTENTE", version |-> 1, notes |-> n, deleted |-> FALSE]
  <2>1. new \in Row /\ new.status = "EN_ATTENTE"
    BY DEF Row, Statuses
  <2>2. row[i] = None /\ row' = [row EXCEPT ![i] = new] /\ UNCHANGED <<images, results, objects, req, lastRun>>
    BY DEF Create
  <2> HIDE DEF new
  <2> QED
    BY <2>1, <2>2 DEF Reads, TypeOK
<1>2. ASSUME NEW r \in Requests, req[r].pc # "idle"
      PROVE  req[r].target \in Inspections \ {i}
  BY <1>1, <1>2, ActiveRequest
<1>3. ChecksHold'
  BY <1>1 DEF Runs, ChecksHold, ImagesOf
<1>4. RunImpliesEnCours'
  BY <1>1, <1>2 DEF Runs, RunImpliesEnCours, Working
<1>5. OneRunPerInspection'
  BY <1>1 DEF Runs, OneRunPerInspection
<1>6. RunHasImages'
  BY <1>1 DEF Runs, RunHasImages, ImagesOf
<1>7. RunIsTheLast'
  BY <1>1 DEF Runs, RunIsTheLast, ImagesOf
<1>8. TermineeShowsLastRun'
  BY <1>1 DEF Runs, TermineeShowsLastRun, ImagesOf
<1>9. ResultsIffTerminee'
  BY <1>1 DEF Runs, ResultsIffTerminee
<1> QED
  BY <1>3, <1>4, <1>5, <1>6, <1>7, <1>8, <1>9 DEF Runs

\* Steps that only move one request on, the tables staying as they are.
MovesOnly(r) ==
    /\ UNCHANGED <<row, images, results, lastRun>>
    /\ req'[r].target = req[r].target
    /\ req'[r].seen = req[r].seen
    /\ \A s \in Requests \ {r} : req'[s] = req[s]

\* A request is about to start an analysis only once its checks have passed.
LEMMA AnalyseCheckKeepsRuns ==
  ASSUME Reads, Runs, NEW r \in Requests, AnalyseCheck(r), Goto(r, "accepting"),
         ImagesOf(req[r].target) # {},
         req[r].seen.status \in {"EN_ATTENTE", "ERREUR"}
  PROVE  Runs'
<1>1. MovesOnly(r) /\ req'[r].pc = "accepting"
  BY DEF AnalyseCheck, Goto, MovesOnly, Reads, TypeOK, Coroutine
<1>2. "accepting" \notin Working
  BY DEF Working
<1>3. ChecksHold'
  BY <1>1 DEF Runs, ChecksHold, ImagesOf, MovesOnly
<1>4. RunImpliesEnCours'
  BY <1>1, <1>2 DEF Runs, RunImpliesEnCours, MovesOnly
<1>5. OneRunPerInspection'
  BY <1>1, <1>2 DEF Runs, OneRunPerInspection, MovesOnly
<1>6. RunHasImages'
  BY <1>1, <1>2 DEF Runs, RunHasImages, ImagesOf, MovesOnly
<1>7. RunIsTheLast'
  BY <1>1 DEF Runs, RunIsTheLast, ImagesOf, MovesOnly
<1>8. TermineeShowsLastRun'
  BY <1>1 DEF Runs, TermineeShowsLastRun, ImagesOf, MovesOnly
<1>9. ResultsIffTerminee'
  BY <1>1 DEF Runs, ResultsIffTerminee, MovesOnly
<1> QED
  BY <1>3, <1>4, <1>5, <1>6, <1>7, <1>8, <1>9 DEF Runs

\* The task loads images of its inspection, at least one.
LEMMA LoadImagesKeepsRuns ==
  ASSUME Reads, Runs, NEW r \in Requests, LoadImages(r)
  PROVE  Runs'
<1>1. /\ MovesOnly(r) /\ req[r].pc = "queued" /\ req'[r].pc = "loaded"
      /\ req'[r].batch = {m.object : m \in ImagesOf(req[r].target)}
      /\ req'[r].batch # {}
  BY DEF LoadImages, MovesOnly, Reads, TypeOK, Coroutine
<1>2. "queued" \in Working /\ "loaded" \in Working
  BY DEF Working
<1>3. ChecksHold'
  BY <1>1 DEF Runs, ChecksHold, ImagesOf, MovesOnly
<1>4. RunImpliesEnCours'
  BY <1>1, <1>2 DEF Runs, RunImpliesEnCours, MovesOnly
<1>5. OneRunPerInspection'
  BY <1>1, <1>2 DEF Runs, OneRunPerInspection, MovesOnly
<1>6. RunHasImages'
  BY <1>1, <1>2 DEF Runs, RunHasImages, ImagesOf, MovesOnly
<1>7. RunIsTheLast'
  BY <1>1 DEF Runs, RunIsTheLast, ImagesOf, MovesOnly
<1>8. TermineeShowsLastRun'
  BY <1>1 DEF Runs, TermineeShowsLastRun, ImagesOf, MovesOnly
<1>9. ResultsIffTerminee'
  BY <1>1 DEF Runs, ResultsIffTerminee, MovesOnly
<1> QED
  BY <1>3, <1>4, <1>5, <1>6, <1>7, <1>8, <1>9 DEF Runs

\* A task that fails leaves its inspection EN_COURS until it reports.
LEMMA WorkerFailsKeepsRuns ==
  ASSUME Reads, Runs, NEW r \in Requests, WorkerFails(r)
  PROVE  Runs'
<1>1. MovesOnly(r) /\ req[r].pc \in {"queued", "loaded"} /\ req'[r].pc = "failing"
  BY DEF WorkerFails, Goto, MovesOnly, Reads, TypeOK, Coroutine
<1>2. {"queued", "loaded", "failing"} = Working
  BY DEF Working
<1>3. ChecksHold'
  BY <1>1 DEF Runs, ChecksHold, ImagesOf, MovesOnly
<1>4. RunImpliesEnCours'
  BY <1>1, <1>2 DEF Runs, RunImpliesEnCours, MovesOnly
<1>5. OneRunPerInspection'
  BY <1>1, <1>2 DEF Runs, OneRunPerInspection, MovesOnly
<1>6. RunHasImages'
  BY <1>1, <1>2 DEF Runs, RunHasImages, ImagesOf, MovesOnly
<1>7. RunIsTheLast'
  BY <1>1 DEF Runs, RunIsTheLast, ImagesOf, MovesOnly
<1>8. TermineeShowsLastRun'
  BY <1>1 DEF Runs, TermineeShowsLastRun, ImagesOf, MovesOnly
<1>9. ResultsIffTerminee'
  BY <1>1 DEF Runs, ResultsIffTerminee, MovesOnly
<1> QED
  BY <1>3, <1>4, <1>5, <1>6, <1>7, <1>8, <1>9 DEF Runs

\* The compare-and-set succeeds only on the row that was checked, so that no
\* task works on the inspection: it is EN_ATTENTE or ERREUR.
LEMMA StartRunKeepsRuns ==
  ASSUME Reads, Runs, NEW r \in Requests, StartRun(r),
         req'[r] = Idle \/ (req'[r] = [req[r] EXCEPT !.pc = "queued"]),
         \A s \in Requests \ {r} : req'[s] = req[s]
  PROVE  Runs'
<1> DEFINE i == req[r].target
<1>1. /\ req[r].pc = "accepting" /\ i \in Inspections /\ row[i] \in Row /\ row[i] # None
      /\ row[i].status \in {"EN_ATTENTE", "ERREUR"} /\ ImagesOf(i) # {}
  BY ActiveRequest DEF StartRun, Runs, ChecksHold
<1>2. /\ row'[i] # None /\ row'[i].status = "EN_COURS"
      /\ \A j \in Inspections \ {i} : row'[j] = row[j]
  BY <1>1, StatusWritten DEF StartRun, Reads, Statuses
<1>3. /\ lastRun'[i] = req[r].seen.version + 1
      /\ \A j \in Inspections \ {i} : lastRun'[j] = lastRun[j]
      /\ UNCHANGED <<images, results>>
  BY <1>1 DEF StartRun, Reads, TypeOK
<1>4. /\ req'[r].pc \in {"idle", "queued"}
      /\ req'[r].pc = "queued" => req'[r].target = i /\ req'[r].seen = req[r].seen
  BY DEF Idle, Reads, TypeOK, Coroutine
<1>5. ASSUME NEW s \in Requests, s # r, req[s].pc \in Working
      PROVE  /\ req'[s] = req[s]
             /\ req[s].target \in Inspections \ {i}
  <2>1. req[s].target \in Inspections
    BY <1>5, ActiveRequest DEF Working
  <2>2. row[req[s].target].status \in {"EN_COURS", "TERMINEE"}
    BY <1>5 DEF Runs, RunImpliesEnCours
  <2> QED
    BY <1>1, <1>5, <2>1, <2>2
<1>6. \A s \in Requests \ {r} : req'[s] = req[s]
  OBVIOUS
<1>7. "queued" \in Working /\ "idle" \notin Working /\ "loaded" \in Working
  BY DEF Working
<1> HIDE DEF i
<1>8. ChecksHold'
  BY <1>3, <1>4, <1>6 DEF Runs, ChecksHold, ImagesOf
<1>9. RunImpliesEnCours'
  BY <1>2, <1>4, <1>5, <1>6, <1>7 DEF Runs, RunImpliesEnCours
<1>10. OneRunPerInspection'
  BY <1>4, <1>5, <1>6, <1>7 DEF Runs, OneRunPerInspection
<1>11. RunHasImages'
  BY <1>1, <1>3, <1>4, <1>6, <1>7 DEF Runs, RunHasImages, ImagesOf
<1>12. RunIsTheLast'
  BY <1>3, <1>4, <1>5, <1>6, <1>7 DEF Runs, RunIsTheLast, ImagesOf
<1>13. TermineeShowsLastRun'
  BY <1>2, <1>3 DEF Runs, TermineeShowsLastRun, ImagesOf
<1>14. ResultsIffTerminee'
  BY <1>1, <1>2, <1>3 DEF Runs, ResultsIffTerminee
<1> QED
  BY <1>8, <1>9, <1>10, <1>11, <1>12, <1>13, <1>14 DEF Runs

\* The results of the only task of the inspection.
LEMMA SaveResultsKeepsRuns ==
  ASSUME Reads, Runs, NEW r \in Requests, SaveResults(r),
         \/ req'[r] = Idle
         \/ "ack" \in Faults /\ req'[r] = [req[r] EXCEPT !.pc = "failing"],
         \A s \in Requests \ {r} : req'[s] = req[s]
  PROVE  Runs'
<1> DEFINE i == req[r].target
           res == [run |-> req[r].seen.version + 1, images |-> req[r].batch]
<1>1. req[r].pc = "loaded" /\ i \in Inspections /\ row[i] \in Row /\ row[i] # None
  BY ActiveRequest DEF SaveResults
<1>2. /\ row'[i] # None /\ row'[i].status = "TERMINEE"
      /\ \A j \in Inspections \ {i} : row'[j] = row[j]
  BY <1>1, StatusWritten DEF SaveResults, Reads, Statuses
<1>3. /\ results'[i] = {res}
      /\ \A j \in Inspections \ {i} : results'[j] = results[j]
      /\ UNCHANGED <<images, lastRun>>
  BY <1>1 DEF SaveResults, Reads, TypeOK
<1>4. /\ res.run = lastRun[i] /\ res.images # {}
      /\ res.images \subseteq {m.object : m \in ImagesOf(i)}
  BY <1>1 DEF Runs, RunIsTheLast
<1>5. /\ req'[r].pc \in {"idle", "failing"}
      /\ req'[r].pc = "failing" => "ack" \in Faults /\ req'[r].target = i
  BY DEF Idle, Reads, TypeOK, Coroutine
<1>6. \A s \in Requests \ {r} : req'[s] = req[s]
  OBVIOUS
<1>7. {"queued", "loaded", "failing"} = Working
  BY DEF Working
<1>8. ASSUME NEW s \in Requests, s # r, req[s].pc \in Working
      PROVE  req[s].target \in Inspections \ {i}
  BY <1>1, <1>7, <1>8, ActiveRequest DEF Runs, OneRunPerInspection
<1> HIDE DEF i, res
<1>9. ChecksHold'
  BY <1>3, <1>5, <1>6 DEF Runs, ChecksHold, ImagesOf
<1>10. RunImpliesEnCours'
  BY <1>2, <1>5, <1>6, <1>7, <1>8 DEF Runs, RunImpliesEnCours
<1>11. OneRunPerInspection'
  BY <1>5, <1>6, <1>7, <1>8 DEF Runs, OneRunPerInspection
<1>12. RunHasImages'
  <2>1. ImagesOf(i) # {}
    BY <1>1, <1>7 DEF Runs, RunHasImages, i
  <2> QED
    BY <1>3, <1>5, <1>6, <1>7, <2>1 DEF Runs, RunHasImages, ImagesOf
<1>13. RunIsTheLast'
  BY <1>3, <1>5, <1>6 DEF Runs, RunIsTheLast, ImagesOf
<1>14. TermineeShowsLastRun'
  BY <1>2, <1>3, <1>4 DEF Runs, TermineeShowsLastRun, ImagesOf
<1>15. ResultsIffTerminee'
  BY <1>2, <1>3 DEF Runs, ResultsIffTerminee
<1> QED
  BY <1>9, <1>10, <1>11, <1>12, <1>13, <1>14, <1>15 DEF Runs

\* Only the task of the inspection writes ERREUR.
LEMMA RecordErrorKeepsRuns ==
  ASSUME Reads, Runs, NEW r \in Requests, RecordError(r)
  PROVE  Runs'
<1> DEFINE i == req[r].target
<1>1. req[r].pc = "failing" /\ i \in Inspections /\ row[i] \in Row /\ row[i] # None
  BY ActiveRequest DEF RecordError
<1>2. /\ row'[i] # None /\ row'[i].status = "ERREUR"
      /\ \A j \in Inspections \ {i} : row'[j] = row[j]
  BY <1>1, StatusWritten DEF RecordError, Reads, Statuses
<1>3. UNCHANGED <<images, results, lastRun>>
  BY DEF RecordError
<1>4. req'[r].pc = "idle" /\ \A s \in Requests \ {r} : req'[s] = req[s]
  BY DEF RecordError, End, Idle, Reads, TypeOK
<1>5. "failing" \in Working /\ "idle" \notin Working
  BY DEF Working
<1>6. ASSUME NEW s \in Requests, s # r, req[s].pc \in Working
      PROVE  req[s].target \in Inspections \ {i}
  BY <1>1, <1>5, <1>6, ActiveRequest DEF Runs, OneRunPerInspection
<1>7. "ack" \notin Faults => row[i].status = "EN_COURS"
  BY <1>1, <1>5 DEF Runs, RunImpliesEnCours
<1> HIDE DEF i
<1>8. ChecksHold'
  BY <1>3, <1>4 DEF Runs, ChecksHold, ImagesOf
<1>9. RunImpliesEnCours'
  BY <1>2, <1>4, <1>5, <1>6 DEF Runs, RunImpliesEnCours
<1>10. OneRunPerInspection'
  BY <1>4, <1>5 DEF Runs, OneRunPerInspection
<1>11. RunHasImages'
  BY <1>3, <1>4, <1>5 DEF Runs, RunHasImages, ImagesOf
<1>12. RunIsTheLast'
  BY <1>3, <1>4 DEF Runs, RunIsTheLast, ImagesOf
<1>13. TermineeShowsLastRun'
  BY <1>2, <1>3 DEF Runs, TermineeShowsLastRun, ImagesOf
<1>14. ResultsIffTerminee'
  <2> SUFFICES ASSUME "ack" \notin Faults, NEW j \in Inspections
               PROVE  results[j] # {} <=> (row'[j] # None /\ row'[j].status = "TERMINEE")
    BY <1>3 DEF ResultsIffTerminee
  <2>1. results[j] # {} <=> (row[j] # None /\ row[j].status = "TERMINEE")
    BY DEF Runs, ResultsIffTerminee
  <2>2. CASE j = i
    BY <1>1, <1>2, <1>7, <2>1, <2>2
  <2>3. CASE j # i
    BY <1>2, <2>1, <2>3
  <2> QED
    BY <2>2, <2>3
<1> QED
  BY <1>8, <1>9, <1>10, <1>11, <1>12, <1>13, <1>14 DEF Runs

\* A request that ends without writing starts no task and loses no image.
LEMMA EndRunsQuiet ==
  ASSUME TypeOK, NEW r \in Requests, End(r), images \subseteq images',
         UNCHANGED <<row, results, lastRun>>
  PROVE  RunsQuiet
  BY DEF RunsQuiet, End, Idle, Working, TypeOK

\* Moves outside the task and its checks disturb no task.
LEMMA GotoRunsQuiet ==
  ASSUME TypeOK, NEW r \in Requests, NEW p, p \notin Working \cup {"accepting"},
         Goto(r, p), UNCHANGED <<row, images, results, lastRun>>
  PROVE  RunsQuiet
  BY DEF RunsQuiet, Goto, TypeOK, Coroutine

\* Entering the service disturbs no task.
LEMMA EnterRunsQuiet ==
  ASSUME TypeOK, NEW r \in Requests, NEW i \in Inspections,
         NEW p, p \notin Working \cup {"accepting"}, Enter(r, i, p)
  PROVE  RunsQuiet
  BY DEF RunsQuiet, Enter, Idle, TypeOK, Coroutine

\* A PATCH changes no status: tasks and results are left alone.
LEMMA PatchRunsQuiet ==
  ASSUME Reads, NEW r \in Requests, NEW n \in Notes, PatchCommit(r, n)
  PROVE  RunsQuiet
<1> DEFINE i == req[r].target
<1>1. req[r].pc = "patching" /\ i \in Inspections /\ row[i] # None
  BY ActiveRequest DEF PatchCommit
<1>2. /\ \A j \in Inspections \ {i} : row'[j] = row[j]
      /\ row'[i] # None
      /\ row'[i].status = row[i].status
  BY <1>1, NotesWritten DEF PatchCommit, Reads
<1>3. UNCHANGED <<images, results, lastRun>> /\ End(r)
  BY DEF PatchCommit
<1> HIDE DEF i
<1> QED
  BY <1>1, <1>2, <1>3 DEF RunsQuiet, End, Idle, Working, Reads, TypeOK

\* A delete changes no status: tasks and results are left alone.
LEMMA DeleteRunsQuiet ==
  ASSUME Reads, NEW r \in Requests, DeleteCommit(r)
  PROVE  RunsQuiet
<1> DEFINE i == req[r].target
           new == [row[i] EXCEPT !.deleted = TRUE, !.version = row[i].version + 1]
<1>1. req[r].pc = "deleting" /\ i \in Inspections /\ row[i] # None /\ row[i] \in Row
  BY ActiveRequest DEF DeleteCommit
<1>2. new.status = row[i].status /\ new # None
  BY <1>1, DeletedRow DEF Row
<1>3. row' = [row EXCEPT ![i] = new] /\ UNCHANGED <<images, results, lastRun>> /\ End(r)
  BY DEF DeleteCommit
<1> HIDE DEF i, new
<1> QED
  BY <1>1, <1>2, <1>3 DEF RunsQuiet, End, Idle, Working, Reads, TypeOK

\* Every step keeps the invariant of the analyses.
LEMMA NextRuns == Reads /\ Runs /\ Next => Runs'
<1> SUFFICES ASSUME Reads, Runs, Next PROVE Runs'
  OBVIOUS
<1>1. CASE RunsQuiet
  BY <1>1, QuietKeepsRuns
<1>2. {"editing", "patching", "deleting", "checking", "uploading"}
        \cap (Working \cup {"accepting"}) = {}
  BY DEF Working
<1>3. ASSUME NEW r \in Requests, NEW i \in Inspections,
             \/ ReadForEdit(r, i) \/ DeleteCheck(r, i) \/ UploadCheck(r, i)
             \/ AnalyseRead(r, i)
      PROVE  Runs'
  BY <1>1, <1>2, <1>3, EnterRunsQuiet
  DEF ReadForEdit, DeleteCheck, UploadCheck, AnalyseRead, Reads
<1>4. ASSUME NEW r \in Requests, PatchCheck(r) PROVE Runs'
  BY <1>1, <1>2, <1>4, GotoRunsQuiet, EndRunsQuiet DEF PatchCheck, Reads
<1>5. ASSUME NEW r \in Requests, NEW n \in Notes, PatchCommit(r, n) PROVE Runs'
  BY <1>1, <1>5, PatchRunsQuiet
<1>6. ASSUME NEW r \in Requests, DeleteCommit(r) PROVE Runs'
  BY <1>1, <1>6, DeleteRunsQuiet
<1>7. ASSUME NEW r \in Requests, NEW o \in Objects, PutImage(r, o) PROVE Runs'
  BY <1>1, <1>7 DEF PutImage, RunsQuiet, Reads, TypeOK, Coroutine, Working
<1>8. ASSUME NEW r \in Requests, NextSequenceNum(r) PROVE Runs'
  BY <1>1, <1>8 DEF NextSequenceNum, RunsQuiet, Reads, TypeOK, Coroutine, Working
<1>9. ASSUME NEW r \in Requests,
             InsertImage(r) \/ UploadFails(r) \/ AnalyseConflict(r) \/ HandlerFails(r)
      PROVE  Runs'
  BY <1>1, <1>9, EndRunsQuiet
  DEF InsertImage, UploadFails, AnalyseConflict, HandlerFails, Reads
<1>10. ASSUME NEW r \in Requests, AnalyseCheck(r) PROVE Runs'
  BY <1>1, <1>10, EndRunsQuiet, AnalyseCheckKeepsRuns DEF AnalyseCheck, Reads
<1>11. ASSUME NEW r \in Requests, AnalyseAccept(r) \/ AnalyseAcceptUnacked(r)
       PROVE  Runs'
  BY <1>11, StartRunKeepsRuns
  DEF AnalyseAccept, AnalyseAcceptUnacked, Goto, End, Reads, TypeOK
<1>12. ASSUME NEW r \in Requests, CompleteAnalysis(r) \/ CompleteUnacked(r)
       PROVE  Runs'
  BY <1>12, SaveResultsKeepsRuns
  DEF CompleteAnalysis, CompleteUnacked, Goto, End, Reads, TypeOK
<1>13. ASSUME NEW r \in Requests, Request(r) PROVE Runs'
  BY <1>3, <1>4, <1>5, <1>6, <1>7, <1>8, <1>9, <1>10, <1>11, <1>13 DEF Request
<1>14. ASSUME NEW r \in Requests, Worker(r) PROVE Runs'
  BY <1>9, <1>12, <1>14, LoadImagesKeepsRuns, WorkerFailsKeepsRuns, RecordErrorKeepsRuns
  DEF Worker
<1>15. CASE Crash
  BY <1>1, <1>15 DEF Crash, RunsQuiet, Idle, Working
<1> QED
  BY <1>13, <1>14, <1>15, CreateKeepsRuns DEF Next

-----------------------------------------------------------------------------
(***************************************************************************)
(* The theorems.                                                           *)
(***************************************************************************)

\* The inductive invariant holds of every inspection service, whatever the
\* number of inspections and of simultaneous requests and whatever fails.
THEOREM Invariance == Spec => []IInv
<1>1. Init => IInv
  BY DEF Init, IInv, TypeOK, Idle, Coroutine, Places, Uploading, Working, ReadsAreVersioned,
         UploadsOwnTheirObject, ImagesAreStored, DrawnNumbersFollow, SequenceWithoutGaps,
         ChecksHold, RunImpliesEnCours, OneRunPerInspection, RunHasImages, RunIsTheLast,
         TermineeShowsLastRun, ResultsIffTerminee
<1>2. IInv /\ [Next]_vars => IInv'
  <2> SUFFICES ASSUME IInv, [Next]_vars PROVE IInv'
    OBVIOUS
  <2>1. CASE Next
    <3>1. Reads /\ Uploads /\ Runs
      BY DEF IInv, Reads, Uploads, Runs
    <3>2. RowsAdvance /\ RequestsAdvance
      BY <2>1, <3>1, NextRows, NextRequests
    <3>3. TypeOK'
      BY <2>1, <3>1, <3>2, NextTables DEF Uploads, RowsAdvance, RequestsAdvance, TypeOK
    <3>4. ReadsAreVersioned'
      BY <3>1, <3>2, NextReads
    <3>5. Uploads'
      BY <2>1, <3>1, NextUploads DEF Reads
    <3>6. Runs'
      BY <2>1, <3>1, NextRuns
    <3> QED
      BY <3>3, <3>4, <3>5, <3>6 DEF IInv, Uploads, Runs
  <2>2. CASE UNCHANGED vars
    <3>1. UploadsQuiet /\ RunsQuiet
      BY <2>2 DEF vars, UploadsQuiet, RunsQuiet
    <3>2. Reads /\ Uploads /\ Runs
      BY DEF IInv, Reads, Uploads, Runs
    <3>3. Uploads' /\ Runs'
      BY <3>1, <3>2, QuietKeepsUploads, QuietKeepsRuns
    <3>4. TypeOK' /\ ReadsAreVersioned'
      BY <2>2 DEF vars, IInv, TypeOK, ReadsAreVersioned
    <3> QED
      BY <3>3, <3>4 DEF IInv, Uploads, Runs
  <2> QED
    BY <2>1, <2>2
<1> QED
  BY <1>1, <1>2, PTL DEF Spec

\* Rows, images, results and requests keep their types in every behaviour.
THEOREM TypeCorrectness == Spec => []TypeOK
  BY Invariance, PTL DEF IInv

\* Simultaneous requests never start two tasks on an inspection, a task never
\* finds the inspection in a state it may not leave, and what a TERMINEE
\* inspection shows is the result of the analysis accepted last.
THEOREM AnalysisSafety ==
  Spec => [](OneRunPerInspection /\ RunImpliesEnCours /\ RunHasImages
               /\ TermineeShowsLastRun /\ ResultsIffTerminee)
  BY Invariance, PTL DEF IInv

\* The images of an inspection are in the store, and are numbered without gaps.
THEOREM UploadSafety == Spec => [](ImagesAreStored /\ SequenceWithoutGaps)
  BY Invariance, PTL DEF IInv

\* The steps that write the inspections table, and who takes them.
RowWrite ==
    \/ \E i \in Inspections, n \in Notes : Create(i, n)
    \/ \E r \in Requests :
          /\ \A s \in Requests \ {r} : req'[s] = req[s]
          /\ \/ \E n \in Notes : PatchCommit(r, n)
             \/ DeleteCommit(r)
             \/ StartRun(r)
             \/ SaveResults(r)
             \/ RecordError(r)

\* Every write of the inspections or analysis_results table is one of RowWrite.
LEMMA RowWriters ==
  TypeOK /\ Next => RowWrite \/ UNCHANGED <<row, results>>
<1> SUFFICES ASSUME TypeOK, Next PROVE RowWrite \/ UNCHANGED <<row, results>>
  OBVIOUS
<1>1. ASSUME NEW r \in Requests, End(r) \/ \E p \in Places : Goto(r, p)
      PROVE  \A s \in Requests \ {r} : req'[s] = req[s]
  BY <1>1 DEF End, Goto, TypeOK
<1>2. {"queued", "failing"} \subseteq Places
  BY DEF Places, Working
<1>3. ASSUME NEW r \in Requests, NEW n \in Notes, PatchCommit(r, n) PROVE RowWrite
  BY <1>1, <1>3 DEF PatchCommit, RowWrite
<1>4. ASSUME NEW r \in Requests, DeleteCommit(r) PROVE RowWrite
  BY <1>1, <1>4 DEF DeleteCommit, RowWrite
<1>5. ASSUME NEW r \in Requests, AnalyseAccept(r) \/ AnalyseAcceptUnacked(r) PROVE RowWrite
  BY <1>1, <1>2, <1>5 DEF AnalyseAccept, AnalyseAcceptUnacked, RowWrite
<1>6. ASSUME NEW r \in Requests, CompleteAnalysis(r) \/ CompleteUnacked(r) PROVE RowWrite
  BY <1>1, <1>2, <1>6 DEF CompleteAnalysis, CompleteUnacked, RowWrite
<1>7. ASSUME NEW r \in Requests, RecordError(r) PROVE RowWrite
  BY <1>1, <1>7 DEF RecordError, RowWrite
<1>8. ASSUME NEW r \in Requests, Request(r) PROVE RowWrite \/ UNCHANGED <<row, results>>
  BY <1>3, <1>4, <1>5, <1>8
  DEF Request, ReadForEdit, DeleteCheck, UploadCheck, AnalyseRead, Enter, PatchCheck,
      PutImage, NextSequenceNum, InsertImage, UploadFails, AnalyseCheck, AnalyseConflict
<1>9. ASSUME NEW r \in Requests, Worker(r) PROVE RowWrite \/ UNCHANGED <<row, results>>
  BY <1>6, <1>7, <1>9 DEF Worker, LoadImages, WorkerFails, HandlerFails
<1> QED
  BY <1>8, <1>9 DEF Next, RowWrite, Crash

\* Rule #4, for any number of concurrent requests: the version check admits a
\* PATCH only on the row its client has read.
THEOREM OptimisticLocking == Spec => PatchFindsWhatWasRead
<1> DEFINE Applied == \A r \in Requests :
                        (req[r].pc = "patching" /\ req'[r] # req[r] /\ row' # row)
                          => row[req[r].target] = req[r].seen
<1>1. IInv /\ [Next]_vars => [Applied]_vars
  <2> SUFFICES ASSUME IInv, Next, NEW r \in Requests,
                      req[r].pc = "patching", req'[r] # req[r], row' # row
               PROVE  row[req[r].target] = req[r].seen
    OBVIOUS
  <2>1. Reads
    BY DEF IInv, Reads
  <2>2. RowWrite
    BY <2>1, RowWriters DEF Reads
  <2>3. PICK n \in Notes : PatchCommit(r, n)
    BY <2>2 DEF RowWrite, Create, DeleteCommit, StartRun, SaveResults, RecordError
  <2>4. row[req[r].target].version = req[r].seen.version
    BY <2>3 DEF PatchCommit
  <2> QED
    BY <2>1, <2>4, ActiveRequest
<1> QED
  BY <1>1, Invariance, PTL DEF Spec, PatchFindsWhatWasRead

\* Rule #5: a soft delete is final for PATCH and analyse, although neither
\* UPDATE looks at deleted_at: the delete has moved the version.
THEOREM SoftDelete == Spec => DeletedIsFinal
<1> DEFINE Final == \A i \in Inspections :
                      (row[i] # None /\ row[i].deleted) =>
                         /\ row'[i].deleted
                         /\ row'[i].notes = row[i].notes
                         /\ row'[i].status = "EN_COURS" => row[i].status = "EN_COURS"
<1>1. IInv /\ [Next]_vars => [Final]_vars
  <2> SUFFICES ASSUME IInv, Next, NEW i \in Inspections, row[i] # None, row[i].deleted
               PROVE  /\ row'[i].deleted
                      /\ row'[i].notes = row[i].notes
                      /\ row'[i].status = "EN_COURS" => row[i].status = "EN_COURS"
    OBVIOUS
  <2>1. Reads
    BY DEF IInv, Reads
  <2>2. CASE row'[i] = row[i]
    BY <2>2
  <2>3. ASSUME NEW new \in Row, row' = [row EXCEPT ![i] = Bumped(row[i], new)]
        PROVE  /\ row'[i].status = new.status
               /\ row'[i].notes = new.notes
               /\ row'[i].deleted = new.deleted
    BY <2>1, <2>3 DEF Bumped, Row, Reads, TypeOK
  <2>4. ASSUME NEW s \in {"TERMINEE", "ERREUR"}, Write(i, [row[i] EXCEPT !.status = s])
        PROVE  /\ row'[i].deleted
               /\ row'[i].notes = row[i].notes
               /\ row'[i].status # "EN_COURS"
    <3> DEFINE new == [row[i] EXCEPT !.status = s]
    <3>1. new \in Row /\ new.status = s /\ new.notes = row[i].notes /\ new.deleted = row[i].deleted
      BY <2>1 DEF Reads, TypeOK, Row, Statuses
    <3>2. row' = [row EXCEPT ![i] = Bumped(row[i], new)]
      BY <2>4 DEF Write
    <3> HIDE DEF new
    <3> QED
      BY <2>3, <3>1, <3>2
  <2>5. ASSUME NEW r \in Requests, req[r].pc # "idle", req[r].target = i
        PROVE  row[i].version # req[r].seen.version
    BY <2>1, <2>5, ActiveRequest DEF Reads, ReadsAreVersioned
  <2>6. ASSUME NEW j \in Inspections, NEW n \in Notes, Create(j, n) PROVE row'[i] = row[i]
    BY <2>1, <2>6 DEF Create, Reads, TypeOK
  <2>7. ASSUME NEW r \in Requests, NEW n \in Notes, PatchCommit(r, n) PROVE row'[i] = row[i]
    BY <2>1, <2>5, <2>7, ActiveRequest DEF PatchCommit, Write, Reads, TypeOK
  <2>8. ASSUME NEW r \in Requests, StartRun(r) PROVE row'[i] = row[i]
    BY <2>1, <2>5, <2>8, ActiveRequest DEF StartRun, Write, Reads, TypeOK
  <2>9. ASSUME NEW r \in Requests, DeleteCommit(r)
        PROVE  row'[i] = row[i] \/ /\ row'[i].deleted
                                   /\ row'[i].notes = row[i].notes
                                   /\ row'[i].status = row[i].status
    BY <2>1, <2>9, ActiveRequest DEF DeleteCommit, Reads, TypeOK, Row
  <2>10. ASSUME NEW r \in Requests, SaveResults(r) \/ RecordError(r)
         PROVE  row'[i] = row[i] \/ /\ row'[i].deleted
                                    /\ row'[i].notes = row[i].notes
                                    /\ row'[i].status # "EN_COURS"
    <3>1. CASE req[r].target = i
      BY <2>4, <2>10, <3>1 DEF SaveResults, RecordError, Write
    <3>2. CASE req[r].target # i
      BY <2>1, <2>10, <3>2 DEF SaveResults, RecordError, Write, Reads, TypeOK
    <3> QED
      BY <3>1, <3>2
  <2> QED
    BY <2>1, <2>2, <2>6, <2>7, <2>8, <2>9, <2>10, RowWriters DEF RowWrite, Reads
<1> QED
  BY <1>1, Invariance, PTL DEF Spec, DeletedIsFinal

-----------------------------------------------------------------------------
(***************************************************************************)
(* Refinement: the rows go through the states of SM1.                      *)
(***************************************************************************)

\* Empty tables are the initial state of SM1.
LEMMA InitRefines == Init => SM1!Init
  BY DEF Init, SM1!Init, StatusOf

\* Writing one row moves one inspection of SM1.
LEMMA StatusMoves ==
  ASSUME NEW i \in Inspections, \A j \in Inspections \ {i} : row'[j] = row[j]
  PROVE  [j \in Inspections |-> StatusOf(j)]'
           = [[j \in Inspections |-> StatusOf(j)] EXCEPT ![i] = StatusOf(i)']
  BY DEF StatusOf

\* Every step of the service is a step of SM1 or leaves it alone.
LEMMA NextRefines ==
  ASSUME IInv, Next
  PROVE  [SM1!Next]_(SM1!vars)
<1>1. Reads /\ Runs
  BY DEF IInv, Reads, Runs
<1>2. CASE UNCHANGED <<row, results>>
  BY <1>2 DEF SM1!vars, StatusOf
<1>3. ASSUME NEW i \in Inspections, NEW n \in Notes, Create(i, n)
      PROVE  SM1!Next
  <2>1. /\ \A j \in Inspections \ {i} : row'[j] = row[j]
        /\ row[i] = None /\ row'[i] # None /\ row'[i].status = "EN_ATTENTE"
    <3> DEFINE new == [status |-> "EN_ATTENTE", version |-> 1, notes |-> n, deleted |-> FALSE]
    <3>1. new \in Row /\ new.status = "EN_ATTENTE"
      BY DEF Row, Statuses
    <3>2. row[i] = None /\ row' = [row EXCEPT ![i] = new]
      BY <1>3 DEF Create
    <3> HIDE DEF new
    <3> QED
      BY <1>1, <3>1, <3>2 DEF Reads, TypeOK
  <2>2. StatusOf(i) = "NONE" /\ StatusOf(i)' = "EN_ATTENTE" /\ results' = results
    BY <1>3, <2>1 DEF StatusOf, Create
  <2>3. SM1!Create(i)
    BY <2>1, <2>2, StatusMoves DEF SM1!Create, SM1!Move
  <2> QED
    BY <2>3 DEF SM1!Next
<1>4. ASSUME NEW r \in Requests, StartRun(r)
      PROVE  SM1!Next
  <2>0. req[r].target \in Inspections
    BY <1>1, <1>4, ActiveRequest DEF StartRun
  <2> PICK i \in Inspections : i = req[r].target
    BY <2>0
  <2>1. /\ row[i] # None
        /\ row[i].status \in {"EN_ATTENTE", "ERREUR"}
    BY <1>1, <1>4, ActiveRequest DEF StartRun, Runs, ChecksHold
  <2>2. /\ row'[i] # None /\ row'[i].status = "EN_COURS"
        /\ \A j \in Inspections \ {i} : row'[j] = row[j]
        /\ results' = results
    BY <1>1, <1>4, <2>1, StatusWritten DEF StartRun, Reads, Statuses
  <2>3. StatusOf(i) \in {"EN_ATTENTE", "ERREUR"} /\ StatusOf(i)' = "EN_COURS"
    BY <2>1, <2>2 DEF StatusOf
  <2>4. SM1!Start(i)
    BY <2>1, <2>2, <2>3, StatusMoves DEF SM1!Start, SM1!Move
  <2> QED
    BY <2>1, <2>4 DEF SM1!Next
<1>5. ASSUME NEW r \in Requests, SaveResults(r)
      PROVE  SM1!Next
  <2>0. req[r].target \in Inspections
    BY <1>1, <1>5, ActiveRequest DEF SaveResults
  <2> PICK i \in Inspections : i = req[r].target
    BY <2>0
  <2> DEFINE res == [run |-> req[r].seen.version + 1, images |-> req[r].batch]
  <2>1. row[i] # None /\ row[i].status = "EN_COURS"
    BY <1>1, <1>5, ActiveRequest DEF SaveResults, Runs, RunImpliesEnCours, Working
  <2>2. /\ row'[i] # None /\ row'[i].status = "TERMINEE"
        /\ \A j \in Inspections \ {i} : row'[j] = row[j]
        /\ results' = [results EXCEPT ![i] = {res}]
    BY <1>1, <1>5, <2>1, StatusWritten DEF SaveResults, Reads, Statuses
  <2> HIDE DEF res
  <2>3. StatusOf(i) = "EN_COURS" /\ StatusOf(i)' = "TERMINEE"
    BY <2>1, <2>2 DEF StatusOf
  <2>4. [j \in Inspections |-> results[j] # {}]'
          = [[j \in Inspections |-> results[j] # {}] EXCEPT ![i] = TRUE]
    BY <1>1, <2>1, <2>2 DEF Reads, TypeOK
  <2>5. SM1!Finish(i)
    BY <2>1, <2>2, <2>3, <2>4, StatusMoves DEF SM1!Finish, SM1!Move
  <2> QED
    BY <2>1, <2>5 DEF SM1!Next
<1>6. ASSUME NEW r \in Requests, RecordError(r)
      PROVE  SM1!Next
  <2>0. req[r].target \in Inspections
    BY <1>1, <1>6, ActiveRequest DEF RecordError
  <2> PICK i \in Inspections : i = req[r].target
    BY <2>0
  <2>1. /\ row[i] # None
        /\ \/ row[i].status = "EN_COURS"
           \/ "ack" \in Faults /\ row[i].status = "TERMINEE"
    BY <1>1, <1>6, ActiveRequest DEF RecordError, Runs, RunImpliesEnCours, Working
  <2>2. /\ row'[i] # None /\ row'[i].status = "ERREUR"
        /\ \A j \in Inspections \ {i} : row'[j] = row[j]
        /\ results' = results
    BY <1>1, <1>6, <2>1, StatusWritten DEF RecordError, Reads, Statuses
  <2>3. /\ \/ StatusOf(i) = "EN_COURS"
           \/ "ack" \in Faults /\ StatusOf(i) = "TERMINEE"
        /\ StatusOf(i)' = "ERREUR"
    BY <2>1, <2>2 DEF StatusOf
  <2>4. SM1!Fail(i) \/ SM1!Retract(i)
    BY <2>1, <2>2, <2>3, StatusMoves DEF SM1!Fail, SM1!Retract, SM1!Move
  <2> QED
    BY <2>1, <2>4 DEF SM1!Next
<1>7. ASSUME NEW r \in Requests, DeleteCommit(r) \/ \E n \in Notes : PatchCommit(r, n)
      PROVE  UNCHANGED SM1!vars
  <2>1. RunsQuiet
    BY <1>1, <1>7, PatchRunsQuiet, DeleteRunsQuiet
  <2>2. \A i \in Inspections : StatusOf(i)' = StatusOf(i)
    BY <2>1 DEF RunsQuiet, StatusOf
  <2> QED
    BY <2>1, <2>2 DEF RunsQuiet, SM1!vars
<1> QED
  BY <1>1, <1>2, <1>3, <1>4, <1>5, <1>6, <1>7, RowWriters DEF RowWrite, Reads

\* The service implements SM1 under any faults: an inspection moves EN_ATTENTE
\* -> EN_COURS -> TERMINEE or ERREUR, from TERMINEE to ERREUR only if
\* acknowledgements get lost, and its results appear with TERMINEE and stay.
THEOREM Refinement == Spec => ImplementsSM1
<1>1. IInv /\ [Next]_vars => [SM1!Next]_(SM1!vars)
  <2>1. CASE UNCHANGED vars
    BY <2>1 DEF vars, SM1!vars, StatusOf
  <2> QED
    BY <2>1, NextRefines
<1> QED
  BY <1>1, InitRefines, Invariance, PTL DEF Spec, ImplementsSM1, SM1!Spec
=============================================================================
