--------------------------- MODULE ModelRegistry ---------------------------
(***************************************************************************)
(* The registry of detection models: the ai_models table, with its unique  *)
(* (name, version) and its partial unique index uq_one_active_model, and   *)
(* the two objects each registration leaves in the store.                  *)
(*                                                                         *)
(* promote runs in one READ COMMITTED transaction.  Its statements are     *)
(* separate steps: an UPDATE finds its rows in a snapshot taken when it    *)
(* starts, waits for the row locks of other transactions, and looks at the *)
(* rows again before it changes them.  Uncommitted changes are kept in the *)
(* request; Commit moves them to the table.                                *)
(***************************************************************************)
EXTENDS Integers

CONSTANTS
    Models,    \* the name:version pairs a model may be registered under
    Uploads,   \* contents of a registration: weights and class mapping
    Requests,  \* requests of administrators in flight at the same time
    None       \* no row, no object, an unset local variable

ModelRow == [status : {"STAGING", "PRODUCTION", "DEPRECATED"}, active : BOOLEAN]

ASSUME NoneAssumption == None \notin Models /\ None \notin Uploads /\ None \notin ModelRow

VARIABLES
    table,      \* table[m]: the committed row of m
    weights,    \* weights[m]: the object {name}/{version}/best.pt
    config,     \* config[m]: the object {name}/{version}/model_config.json
    req,        \* req[r]: the request r, with its local variables
    registered  \* history: the upload of the registration that inserted the row

registry == <<table, weights, config, req, registered>>

Registering == {"weights", "config", "insert"}
Promoting   == {"deactivate", "locking", "activate", "commit"}

Request ==
    [pc         : {"idle"} \cup Registering \cup Promoting,
     target     : Models \cup {None},
     upload     : Uploads \cup {None},
     incumbents : SUBSET Models,   \* what the first UPDATE finds in its snapshot
     retired    : SUBSET Models]   \* what it has deactivated, uncommitted

Idle == [pc |-> "idle", target |-> None, upload |-> None,
         incumbents |-> {}, retired |-> {}]

\* Rows, objects and requests keep their types.
RegistryTypeOK ==
    /\ table \in [Models -> ModelRow \cup {None}]
    /\ weights \in [Models -> Uploads \cup {None}]
    /\ config \in [Models -> Uploads \cup {None}]
    /\ req \in [Requests -> Request]
    /\ registered \in [Models -> Uploads \cup {None}]

RegistryInit ==
    /\ table = [m \in Models |-> None]
    /\ weights = [m \in Models |-> None]
    /\ config = [m \in Models |-> None]
    /\ req = [r \in Requests |-> Idle]
    /\ registered = [m \in Models |-> None]

-----------------------------------------------------------------------------

Active == {m \in Models : table[m] # None /\ table[m].active}

Goto(r, place) == req' = [req EXCEPT ![r].pc = place]
End(r) == req' = [req EXCEPT ![r] = Idle]

\* The rows a transaction has updated, and holds locked until it ends.
LockedBy(r) == req[r].retired \cup (IF req[r].pc = "commit" THEN {req[r].target} ELSE {})

LockedByOthers(r) == UNION {LockedBy(s) : s \in Requests \ {r}}

-----------------------------------------------------------------------------
\* POST /models

RegisterCheck(r, m, u) ==
    /\ req[r].pc = "idle"
    /\ table[m] = None
    /\ req' = [req EXCEPT ![r] =
                 [Idle EXCEPT !.pc = "weights", !.target = m, !.upload = u]]
    /\ UNCHANGED <<table, weights, config, registered>>

\* Operators named ...Mutant are faulty variants of the definition that follows.
\* Here the row is inserted before model_config.json is stored.
PutWeightsMutant(r) ==
    /\ req[r].pc = "weights"
    /\ weights' = [weights EXCEPT ![req[r].target] = req[r].upload]
    /\ Goto(r, "insert")
    /\ UNCHANGED <<table, config, registered>>

PutWeights(r) ==
    /\ req[r].pc = "weights"
    /\ weights' = [weights EXCEPT ![req[r].target] = req[r].upload]
    /\ Goto(r, "config")
    /\ UNCHANGED <<table, config, registered>>

PutConfig(r) ==
    /\ req[r].pc = "config"
    /\ config' = [config EXCEPT ![req[r].target] = req[r].upload]
    /\ Goto(r, "insert")
    /\ UNCHANGED <<table, weights, registered>>

InsertModel(r) ==
    LET m == req[r].target IN
    /\ req[r].pc = "insert"
    /\ table[m] = None
    /\ table' = [table EXCEPT ![m] = [status |-> "STAGING", active |-> FALSE]]
    /\ registered' = [registered EXCEPT ![m] = req[r].upload]
    /\ End(r)
    /\ UNCHANGED <<weights, config>>

\* The store or the database fails, or uq_model_name_version refuses the row.
RegisterFails(r) ==
    /\ req[r].pc \in Registering
    /\ End(r)
    /\ UNCHANGED <<table, weights, config, registered>>

-----------------------------------------------------------------------------
\* POST /models/{id}/promote

PromoteCheck(r, m) ==
    /\ req[r].pc = "idle"
    /\ table[m] # None
    /\ ~table[m].active
    /\ req' = [req EXCEPT ![r] = [Idle EXCEPT !.pc = "deactivate", !.target = m]]
    /\ UNCHANGED <<table, weights, config, registered>>

\* UPDATE ai_models SET is_active = FALSE ... WHERE is_active: the snapshot ...
FindIncumbents(r) ==
    /\ req[r].pc = "deactivate"
    /\ req' = [req EXCEPT ![r].pc = "locking", ![r].incumbents = Active]
    /\ UNCHANGED <<table, weights, config, registered>>

\* The incumbent is retired in a transaction of its own.
DeactivateMutant(r) ==
    /\ req[r].pc = "locking"
    /\ req[r].incumbents \cap LockedByOthers(r) = {}
    /\ table' = [m \in Models |->
                   IF m \in req[r].incumbents \cap Active
                   THEN [status |-> "DEPRECATED", active |-> FALSE]
                   ELSE table[m]]
    /\ Goto(r, "activate")
    /\ UNCHANGED <<weights, config, registered>>

\* ... and the rows of it that are still active once they can be locked.
Deactivate(r) ==
    /\ req[r].pc = "locking"
    /\ req[r].incumbents \cap LockedByOthers(r) = {}
    /\ req' = [req EXCEPT ![r].pc = "activate",
                          ![r].retired = req[r].incumbents \cap Active]
    /\ UNCHANGED <<table, weights, config, registered>>

\* Other rows whose index entry is_active = TRUE is committed and not removed
\* by this transaction.
Rivals(r) == Active \ (req[r].retired \cup {req[r].target})

\* Without the partial unique index.
ActivateMutant(r) ==
    /\ req[r].pc = "activate"
    /\ req[r].target \notin LockedByOthers(r)
    /\ Goto(r, "commit")
    /\ UNCHANGED <<table, weights, config, registered>>

\* UPDATE ... SET is_active = TRUE waits for the lock of its row and for every
\* transaction that is adding or removing an entry of uq_one_active_model.
Activate(r) ==
    /\ req[r].pc = "activate"
    /\ req[r].target \notin LockedByOthers(r)
    /\ Rivals(r) = {}
    /\ \A s \in Requests \ {r} : req[s].pc # "commit"
    /\ Goto(r, "commit")
    /\ UNCHANGED <<table, weights, config, registered>>

Commit(r) ==
    /\ req[r].pc = "commit"
    /\ table' = [m \in Models |->
                   IF m = req[r].target
                   THEN [status |-> "PRODUCTION", active |-> TRUE]
                   ELSE IF m \in req[r].retired
                   THEN [status |-> "DEPRECATED", active |-> FALSE]
                   ELSE table[m]]
    /\ End(r)
    /\ UNCHANGED <<weights, config, registered>>

\* uq_one_active_model refuses the entry, the transaction is the victim of a
\* deadlock, or the database fails: everything is rolled back.
PromoteFails(r) ==
    /\ req[r].pc \in Promoting
    /\ End(r)
    /\ UNCHANGED <<table, weights, config, registered>>

-----------------------------------------------------------------------------

RegistryStep(r) ==
    \/ \E m \in Models, u \in Uploads : RegisterCheck(r, m, u)
    \/ PutWeights(r) \/ PutConfig(r) \/ InsertModel(r) \/ RegisterFails(r)
    \/ \E m \in Models : PromoteCheck(r, m)
    \/ FindIncumbents(r) \/ Deactivate(r) \/ Activate(r) \/ Commit(r) \/ PromoteFails(r)

RegistryNext == \E r \in Requests : RegistryStep(r)

RegistrySpec == RegistryInit /\ [][RegistryNext]_registry

-----------------------------------------------------------------------------

\* SM4: however promotions interleave, one model is in production at a time,
\* and it alone carries the status PRODUCTION.
SingleActive ==
    \A m \in Models :
        /\ \A n \in Models : (m \in Active /\ n \in Active) => m = n
        /\ m \in Active <=> (table[m] # None /\ table[m].status = "PRODUCTION")

\* A model that can be promoted has both its objects in the store.
ArtefactsStored ==
    \A m \in Models : table[m] # None => weights[m] # None /\ config[m] # None

\* Once a model is in production there always is one, so that an analysis
\* never fails for want of an active model.
ProductionServed == [][Active # {} => Active' # {}]_registry

-----------------------------------------------------------------------------
(***************************************************************************)
(* The inductive invariant behind these properties.                        *)
(***************************************************************************)

\* A promotion that is about to commit is the only one and leaves no rival; the
\* rows that promotions have retired are still active in the table, each
\* locked by one of them.
LocksHold ==
    \A r \in Requests :
        /\ req[r].pc \in Promoting => /\ req[r].target \in Models
                                      /\ table[req[r].target] # None
        /\ req[r].pc \notin {"activate", "commit"} => req[r].retired = {}
        /\ req[r].retired \subseteq Active
        /\ \A s \in Requests \ {r} : req[r].retired \cap req[s].retired = {}
        /\ req[r].pc = "commit" =>
              /\ Rivals(r) = {}
              /\ \A s \in Requests \ {r} :
                    /\ req[s].pc # "commit"
                    /\ req[r].target \notin req[s].retired

\* The objects that a registration has stored so far are there.
StoredSoFar ==
    \A r \in Requests : req[r].pc \in Registering =>
        /\ req[r].target \in Models
        /\ req[r].upload \in Uploads
        /\ req[r].pc # "weights" => weights[req[r].target] # None
        /\ req[r].pc = "insert" => config[req[r].target] # None

\* The whole of it.
RegistryInv ==
    /\ RegistryTypeOK
    /\ SingleActive
    /\ ArtefactsStored
    /\ LocksHold
    /\ StoredSoFar
=============================================================================
