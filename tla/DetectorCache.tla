--------------------------- MODULE DetectorCache ---------------------------
(***************************************************************************)
(* The detectors of the analysis worker, over the model registry: every    *)
(* analysis takes the active model, loads its weights and its class        *)
(* mapping on first use under a process-wide lock, and keeps the detector  *)
(* in a dictionary keyed by the identifier of the model.                   *)
(*                                                                         *)
(* anyio.Lock serves its waiters in the order of their arrival: queue      *)
(* holds the task that has the lock, followed by those that wait for it.   *)
(***************************************************************************)
EXTENDS ModelRegistry, Sequences, SequencesExt

CONSTANTS
    Tasks,     \* analyses that run at the same time
    Default,   \* the class mapping used when model_config.json cannot be read
    Truncated  \* content of a file whose writing was not finished

Detector == [weights : Uploads, mapping : Uploads \cup {Default}]

ASSUME DefaultAssumption == Default \notin Uploads \cup {None}
ASSUME TruncatedAssumption == Truncated \notin Uploads \cup {None}
ASSUME DetectorAssumption == None \notin Detector

VARIABLES
    task,       \* task[t]: the analysis t, with its local variables
    cache,      \* _detector_cache[m]
    queue,      \* _cache_lock
    disk,       \* disk[m]: the temporary file {model_id}.pt of the container
    detections  \* damage_detections: the model each names, and the detector used

worker == <<task, cache, queue, disk, detections>>
vars   == <<registry, worker>>

InLock == {"weights", "mapping", "file", "writing", "loading"}

Task == [pc      : {"idle", "waiting", "ready"} \cup InLock,
         model   : Models \cup {None},
         weights : Uploads \cup {None},            \* downloaded
         mapping : Uploads \cup {None, Default}]   \* downloaded

NoTask == [pc |-> "idle", model |-> None, weights |-> None, mapping |-> None]

\* The dictionary holds detectors, and a task that waits is queued once.
CacheTypeOK ==
    /\ RegistryTypeOK
    /\ task \in [Tasks -> Task]
    /\ cache \in [Models -> Detector \cup {None}]
    /\ disk \in [Models -> Uploads \cup {None, Truncated}]
    /\ detections \subseteq [model : Models, detector : Detector]
    /\ queue \in Seq(Tasks)
    /\ ToSet(queue) = {t \in Tasks : task[t].pc \in {"waiting"} \cup InLock}
    /\ IsInjective(queue)

Init ==
    /\ RegistryInit
    /\ task = [t \in Tasks |-> NoTask]
    /\ cache = [m \in Models |-> None]
    /\ queue = << >>
    /\ disk = [m \in Models |-> None]
    /\ detections = {}

-----------------------------------------------------------------------------

Move(t, place) == task' = [task EXCEPT ![t].pc = place]
HasLock(t) == queue # << >> /\ Head(queue) = t

\* get_active; without an active model the analysis fails before it gets here.
ResolveModel(t) ==
    /\ task[t].pc = "idle"
    /\ \E m \in Active :
          task' = [task EXCEPT ![t] = [NoTask EXCEPT !.pc = "waiting", !.model = m]]
    /\ queue' = Append(queue, t)
    /\ UNCHANGED <<registry, cache, disk, detections>>

UseCached(t) ==
    /\ task[t].pc = "waiting"
    /\ HasLock(t)
    /\ cache[task[t].model] # None
    /\ Move(t, "ready")
    /\ queue' = Tail(queue)
    /\ UNCHANGED <<registry, cache, disk, detections>>

\* Operators named ...Mutant are faulty variants of the definition that follows.
\* Here the dictionary was looked at before the lock was taken.
StartLoadingMutant(t) ==
    /\ task[t].pc = "waiting"
    /\ HasLock(t)
    /\ Move(t, "weights")
    /\ UNCHANGED <<registry, cache, queue, disk, detections>>

StartLoading(t) ==
    /\ task[t].pc = "waiting"
    /\ HasLock(t)
    /\ cache[task[t].model] = None
    /\ Move(t, "weights")
    /\ UNCHANGED <<registry, cache, queue, disk, detections>>

ReadWeights(t) ==
    /\ task[t].pc = "weights"
    /\ task' = [task EXCEPT ![t].pc = "mapping", ![t].weights = weights[task[t].model]]
    /\ UNCHANGED <<registry, cache, queue, disk, detections>>

\* An unreadable mapping is left unset.
ReadMappingMutant(t) ==
    /\ task[t].pc = "mapping"
    /\ \E c \in {config[task[t].model], None} :
          task' = [task EXCEPT ![t].pc = "file", ![t].mapping = c]
    /\ UNCHANGED <<registry, cache, queue, disk, detections>>

\* "config absent: fall back to defaults", on any exception of get_object.
ReadMapping(t) ==
    /\ task[t].pc = "mapping"
    /\ \E c \in {config[task[t].model], Default} :
          task' = [task EXCEPT ![t].pc = "file", ![t].mapping = c]
    /\ UNCHANGED <<registry, cache, queue, disk, detections>>

\* from_weights writes the weights to a file unless the file exists ...
OpenFile(t) ==
    LET m == task[t].model IN
    /\ task[t].pc = "file"
    /\ IF disk[m] = None
       THEN disk' = [disk EXCEPT ![m] = Truncated] /\ Move(t, "writing")
       ELSE UNCHANGED disk /\ Move(t, "loading")
    /\ UNCHANGED <<registry, cache, queue, detections>>

WriteFile(t) ==
    /\ task[t].pc = "writing"
    /\ disk' = [disk EXCEPT ![task[t].model] = task[t].weights]
    /\ Move(t, "loading")
    /\ UNCHANGED <<registry, cache, queue, detections>>

\* The dictionary keeps the detector loaded last.
LoadDetectorMutant(t) ==
    /\ task[t].pc = "loading"
    /\ disk[task[t].model] # Truncated
    /\ cache' = [m \in Models |->
                   IF m = task[t].model
                   THEN [weights |-> disk[m], mapping |-> task[t].mapping]
                   ELSE None]
    /\ Move(t, "ready")
    /\ queue' = Tail(queue)
    /\ UNCHANGED <<registry, disk, detections>>

\* ... and loads the network from the file, which must be complete.
LoadDetector(t) ==
    LET m == task[t].model IN
    /\ task[t].pc = "loading"
    /\ disk[m] # Truncated
    /\ cache' = [cache EXCEPT ![m] = [weights |-> disk[m], mapping |-> task[t].mapping]]
    /\ Move(t, "ready")
    /\ queue' = Tail(queue)
    /\ UNCHANGED <<registry, disk, detections>>

\* An exception leaves the lock taken.
LoadFailsMutant(t) ==
    /\ task[t].pc \in InLock
    /\ task' = [task EXCEPT ![t] = NoTask]
    /\ UNCHANGED <<registry, cache, queue, disk, detections>>

\* The store, the disk or the loading fails: the lock is released.
LoadFails(t) ==
    /\ task[t].pc \in InLock
    /\ task' = [task EXCEPT ![t] = NoTask]
    /\ queue' = Tail(queue)
    /\ UNCHANGED <<registry, cache, disk, detections>>

\* _detector_cache[model.id], read after the lock is released.
Detect(t) ==
    LET m == task[t].model IN
    /\ task[t].pc = "ready"
    /\ cache[m] # None
    /\ detections' = detections \cup {[model |-> m, detector |-> cache[m]]}
    /\ task' = [task EXCEPT ![t] = NoTask]
    /\ UNCHANGED <<registry, cache, queue, disk>>

\* The process restarts in its container: requests, tasks, lock and dictionary
\* are gone, the temporary files are not.
Restart ==
    /\ req' = [r \in Requests |-> Idle]
    /\ task' = [t \in Tasks |-> NoTask]
    /\ cache' = [m \in Models |-> None]
    /\ queue' = << >>
    /\ UNCHANGED <<table, weights, config, registered, disk, detections>>

-----------------------------------------------------------------------------

Load(t) ==
    \/ UseCached(t) \/ StartLoading(t) \/ ReadWeights(t) \/ ReadMapping(t)
    \/ OpenFile(t) \/ WriteFile(t) \/ LoadDetector(t) \/ LoadFails(t)

Next ==
    \/ RegistryNext /\ UNCHANGED worker
    \/ \E t \in Tasks : ResolveModel(t) \/ Load(t) \/ Detect(t)
    \/ Restart

Spec == Init /\ [][Next]_vars

\* The event loop runs every task that can go on.  None has to start.
Fairness == \A t \in Tasks : WF_vars(Load(t))

LiveSpec == Spec /\ Fairness

-----------------------------------------------------------------------------

\* Only the task that has the lock loads a detector, and the dictionary entry
\* that is read after the lock is released is still there.
CacheIsRead ==
    \A t \in Tasks :
        /\ task[t].pc \in InLock => HasLock(t)
        /\ task[t].pc = "ready" => cache[task[t].model] # None

\* A detector is loaded once in the life of the process: what simultaneous
\* analyses use is not replaced under them.
LoadedOnce ==
    [][\A m \in Models :
         (cache[m] # None /\ cache'[m] # cache[m]) => cache' = [n \in Models |-> None]]_vars

\* Every analysis that waits for its detector gets it or fails: no exception
\* leaves the lock taken.
EveryTaskServed ==
    \A t \in Tasks : task[t].pc = "waiting" ~> task[t].pc \in {"ready", "idle"}

\* damage_detections.model_id, "which AI model version produced this detection":
\* the weights that produced it are those registered under that version.
DetectionsNameTheirModel ==
    \A d \in detections : d.detector.weights = registered[d.model]

-----------------------------------------------------------------------------
(***************************************************************************)
(* The inductive invariant behind these properties.                        *)
(***************************************************************************)

\* What the task t relies on: the row of its model is not taken away, the lock is
\* its own as long as it loads, and what it has read of the store was there.
Sound(t) ==
    LET m == task[t].model IN
    /\ task[t].pc # "idle" => m \in Models /\ table[m] # None
    /\ task[t].pc \in InLock => HasLock(t) /\ cache[m] = None
    /\ task[t].pc \in InLock \ {"weights"} => task[t].weights # None
    /\ task[t].pc \in {"file", "writing", "loading"} => task[t].mapping # None
    /\ task[t].pc = "loading" => disk[m] # None
    /\ task[t].pc = "ready" => cache[m] # None

\* The whole of it.
CacheInv ==
    /\ RegistryInv
    /\ CacheTypeOK
    /\ \A t \in Tasks : Sound(t)

=============================================================================
