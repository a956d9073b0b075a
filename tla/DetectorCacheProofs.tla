------------------------ MODULE DetectorCacheProofs ------------------------
(***************************************************************************)
(* Theorems about ModelRegistry, for any number of models, registrations   *)
(* and simultaneous administrators, and about DetectorCache, for any       *)
(* number of models and of analyses that run at the same time.             *)
(***************************************************************************)
EXTENDS DetectorCache, SequenceTheorems, TLAPS

-----------------------------------------------------------------------------
(***************************************************************************)
(* The registry alone.                                                     *)
(***************************************************************************)

USE NoneAssumption

\* The empty registry satisfies the invariant.
LEMMA InitInv == RegistryInit => RegistryInv
  BY DEF RegistryInit, RegistryInv, RegistryTypeOK, SingleActive, ArtefactsStored, LocksHold,
         StoredSoFar, Active, Idle, Request, Registering, Promoting

\* A step that touches no model in production, and no request that promotes,
\* keeps the invariant of the locks.
LEMMA QuietKeepsLocks ==
  ASSUME RegistryInv, NEW r \in Requests, NEW new \in Request,
         req' = [req EXCEPT ![r] = new],
         new.pc \notin Promoting, new.retired = {},
         Active' = Active,
         \A m \in Models : table[m] # None => table'[m] # None
  PROVE  LocksHold'
<1>1. \A s \in Requests \ {r} : req'[s] = req[s]
  BY DEF RegistryInv, RegistryTypeOK
<1>2. req'[r] = new
  BY DEF RegistryInv, RegistryTypeOK
<1>3. \A s \in Requests \ {r} : Rivals(s)' = Rivals(s)
  BY <1>1 DEF Rivals
<1> QED
  BY <1>1, <1>2, <1>3 DEF LocksHold, RegistryInv, Promoting

\* A registration keeps the invariant.
LEMMA RegisterKeepsInv ==
  ASSUME RegistryInv, NEW r \in Requests,
         \/ \E m \in Models, u \in Uploads : RegisterCheck(r, m, u)
         \/ PutWeights(r) \/ PutConfig(r) \/ InsertModel(r) \/ RegisterFails(r)
  PROVE  RegistryInv'
<1> USE DEF RegistryInv
<1>1. Idle \in Request /\ Idle.pc \notin Promoting \cup Registering /\ Idle.retired = {}
  BY DEF Idle, Request, Promoting, Registering
<1>2. req[r].pc \notin {"activate", "commit"} /\ req[r] \in Request
  BY DEF RegisterCheck, PutWeights, PutConfig, InsertModel, RegisterFails, Registering,
         RegistryTypeOK
<1>3. PICK new \in Request :
        /\ req' = [req EXCEPT ![r] = new]
        /\ new.pc \notin Promoting /\ new.retired = {}
        /\ new.pc \in Registering =>
              /\ new.target \in Models /\ new.upload \in Uploads
              /\ new.pc # "weights" => weights'[new.target] # None
              /\ new.pc = "insert" => config'[new.target] # None
  <2>1. ASSUME NEW m \in Models, NEW u \in Uploads, RegisterCheck(r, m, u)
        PROVE  \E new \in Request :
                 /\ req' = [req EXCEPT ![r] = new]
                 /\ new.pc = "weights" /\ new.target = m /\ new.upload = u /\ new.retired = {}
    <3> DEFINE new == [Idle EXCEPT !.pc = "weights", !.target = m, !.upload = u]
    <3>1. new \in Request
      BY DEF Idle, Request, Registering
    <3>2. new.pc = "weights" /\ new.target = m /\ new.upload = u /\ new.retired = {}
      BY DEF Idle
    <3>3. req' = [req EXCEPT ![r] = new]
      BY <2>1 DEF RegisterCheck
    <3> QED
      BY <3>1, <3>2, <3>3
  <2>2. ASSUME NEW p \in {"config", "insert"}, Goto(r, p), req[r].pc \in Registering
        PROVE  \E new \in Request :
                 /\ req' = [req EXCEPT ![r] = new]
                 /\ new.pc = p /\ new.target = req[r].target /\ new.upload = req[r].upload
                 /\ new.retired = {}
    <3> DEFINE new == [req[r] EXCEPT !.pc = p]
    <3>1. new \in Request
      BY <1>2 DEF Request, Registering
    <3>2. /\ new.pc = p /\ new.target = req[r].target /\ new.upload = req[r].upload
          /\ new.retired = {}
      BY <1>2 DEF Request, LocksHold
    <3>3. req' = [req EXCEPT ![r] = new]
      BY <2>2 DEF Goto, RegistryTypeOK
    <3> QED
      BY <3>1, <3>2, <3>3
  <2>3. CASE \E m \in Models, u \in Uploads : RegisterCheck(r, m, u)
    BY <2>1, <2>3 DEF Promoting, Registering
  <2>4. CASE PutWeights(r)
    <3>1. req[r].pc = "weights" /\ Goto(r, "config")
      BY <2>4 DEF PutWeights
    <3>2. req[r].target \in Models /\ req[r].upload \in Uploads
      BY <3>1 DEF StoredSoFar, Registering
    <3>3. weights'[req[r].target] # None
      BY <2>4, <3>2 DEF PutWeights, RegistryTypeOK
    <3> QED
      BY <2>2, <3>1, <3>2, <3>3 DEF Promoting, Registering
  <2>5. CASE PutConfig(r)
    <3>1. req[r].pc = "config" /\ Goto(r, "insert")
      BY <2>5 DEF PutConfig
    <3>2. req[r].target \in Models /\ req[r].upload \in Uploads /\ weights[req[r].target] # None
      BY <3>1 DEF StoredSoFar, Registering
    <3>3. config'[req[r].target] # None /\ weights' = weights
      BY <2>5, <3>2 DEF PutConfig, RegistryTypeOK
    <3> QED
      BY <2>2, <3>1, <3>2, <3>3 DEF Promoting, Registering
  <2>6. CASE InsertModel(r) \/ RegisterFails(r)
    BY <1>1, <2>6 DEF InsertModel, RegisterFails, End
  <2> QED
    BY <2>3, <2>4, <2>5, <2>6
<1>4. /\ \A s \in Requests \ {r} : req'[s] = req[s]
      /\ req'[r] = new
  BY <1>3 DEF RegistryTypeOK
<1>5. /\ weights' \in [Models -> Uploads \cup {None}]
      /\ config' \in [Models -> Uploads \cup {None}]
      /\ \A m \in Models : weights[m] # None => weights'[m] # None
      /\ \A m \in Models : config[m] # None => config'[m] # None
  <2>1. CASE PutWeights(r)
    BY <2>1 DEF PutWeights, StoredSoFar, Registering, RegistryTypeOK
  <2>2. CASE PutConfig(r)
    BY <2>2 DEF PutConfig, StoredSoFar, Registering, RegistryTypeOK
  <2>3. CASE UNCHANGED <<weights, config>>
    BY <2>3 DEF RegistryTypeOK
  <2> QED
    BY <2>1, <2>2, <2>3 DEF RegisterCheck, InsertModel, RegisterFails
<1>6. /\ table' \in [Models -> ModelRow \cup {None}]
      /\ registered' \in [Models -> Uploads \cup {None}]
      /\ Active' = Active
      /\ \A m \in Models :
            \/ table'[m] = table[m]
            \/ /\ table[m] = None
               /\ table'[m].status = "STAGING"
               /\ table'[m] # None
               /\ weights'[m] # None /\ config'[m] # None
  <2>1. CASE InsertModel(r)
    <3> DEFINE staged == [status |-> "STAGING", active |-> FALSE]
    <3>1. staged \in ModelRow /\ staged.status = "STAGING" /\ ~staged.active
      BY DEF ModelRow
    <3>2. /\ req[r].target \in Models /\ req[r].upload \in Uploads
          /\ weights[req[r].target] # None /\ config[req[r].target] # None
      BY <2>1 DEF InsertModel, StoredSoFar, Registering
    <3>3. /\ table[req[r].target] = None
          /\ table' = [table EXCEPT ![req[r].target] = staged]
          /\ registered' = [registered EXCEPT ![req[r].target] = req[r].upload]
          /\ weights' = weights /\ config' = config
      BY <2>1 DEF InsertModel
    <3> HIDE DEF staged
    <3> QED
      BY <3>1, <3>2, <3>3 DEF Active, RegistryTypeOK
  <2>2. CASE ~InsertModel(r)
    <3>1. table' = table /\ registered' = registered
      BY <2>2 DEF RegisterCheck, PutWeights, PutConfig, InsertModel, RegisterFails
    <3> QED
      BY <3>1 DEF Active, RegistryTypeOK
  <2> QED
    BY <2>1, <2>2
<1>7. RegistryTypeOK'
  BY <1>3, <1>5, <1>6 DEF RegistryTypeOK
<1>8. LocksHold'
  BY <1>3, <1>6, QuietKeepsLocks
<1>9. SingleActive'
  BY <1>6 DEF SingleActive
<1>10. ArtefactsStored'
  BY <1>5, <1>6 DEF ArtefactsStored
<1>11. StoredSoFar'
  BY <1>3, <1>4, <1>5 DEF StoredSoFar
<1> QED
  BY <1>7, <1>8, <1>9, <1>10, <1>11

\* A promotion moves to its next statement, having written nothing.
LEMMA PromoteStepKeepsInv ==
  ASSUME RegistryInv, NEW r \in Requests, NEW new \in Request,
         req' = [req EXCEPT ![r] = new], UNCHANGED <<table, weights, config, registered>>,
         new.pc \notin Registering,
         new.pc \in Promoting => new.target \in Models /\ table[new.target] # None,
         new.pc \notin {"activate", "commit"} => new.retired = {},
         new.retired \subseteq Active,
         \A s \in Requests \ {r} : new.retired \cap LockedBy(s) = {},
         new.pc = "commit" =>
            /\ Active \subseteq new.retired \cup {new.target}
            /\ \A s \in Requests \ {r} :
                  req[s].pc # "commit" /\ new.target \notin req[s].retired
  PROVE  RegistryInv'
<1> USE DEF RegistryInv
<1>1. req'[r] = new /\ \A s \in Requests \ {r} : req'[s] = req[s]
  BY DEF RegistryTypeOK
<1>2. RegistryTypeOK' /\ SingleActive' /\ ArtefactsStored' /\ StoredSoFar'
  BY <1>1 DEF RegistryTypeOK, SingleActive, ArtefactsStored, StoredSoFar, Active
<1>3. Active' = Active
  BY DEF Active
<1>4. \A s \in Requests \ {r} : Rivals(s)' = Rivals(s)
  BY <1>1, <1>3 DEF Rivals
<1>5. \A s \in Requests \ {r} :
         /\ new.retired \cap req[s].retired = {}
         /\ req[s].pc = "commit" => req[s].target \notin new.retired
  BY DEF LockedBy
<1>6. Rivals(r)' = Active \ (new.retired \cup {new.target})
  BY <1>1, <1>3 DEF Rivals
<1>7. LocksHold'
  BY <1>1, <1>3, <1>4, <1>5, <1>6 DEF LocksHold
<1> QED
  BY <1>2, <1>7

\* Nothing but the transaction that is about to commit is at "commit".
LEMMA CommitKeepsInv ==
  ASSUME RegistryInv, NEW r \in Requests, Commit(r)
  PROVE  RegistryInv' /\ Active' = {req[r].target}
<1> USE DEF RegistryInv
<1> DEFINE m == req[r].target
           crowned == [status |-> "PRODUCTION", active |-> TRUE]
           retiree == [status |-> "DEPRECATED", active |-> FALSE]
<1>1. /\ crowned \in ModelRow /\ crowned.active /\ crowned.status = "PRODUCTION"
      /\ retiree \in ModelRow /\ ~retiree.active /\ retiree.status = "DEPRECATED"
  BY DEF ModelRow
<1>2. /\ req[r].pc = "commit"
      /\ table' = [x \in Models |-> IF x = m THEN crowned
                                     ELSE IF x \in req[r].retired THEN retiree ELSE table[x]]
      /\ req' = [req EXCEPT ![r] = Idle]
      /\ UNCHANGED <<weights, config, registered>>
  BY DEF Commit, End
<1>3. /\ m \in Models /\ table[m] # None
      /\ req[r].retired \subseteq Active
      /\ Rivals(r) = {}
      /\ \A s \in Requests \ {r} : /\ req[s].pc # "commit"
                                    /\ m \notin req[s].retired
                                    /\ req[r].retired \cap req[s].retired = {}
  BY <1>2 DEF LocksHold, Promoting
<1>4. Idle \in Request /\ Idle.pc = "idle" /\ Idle.retired = {}
  BY DEF Idle, Request
<1>5. req'[r] = Idle /\ \A s \in Requests \ {r} : req'[s] = req[s]
  BY <1>2 DEF RegistryTypeOK
<1>6. Active \subseteq req[r].retired \cup {m}
  BY <1>3 DEF Rivals
<1> HIDE DEF crowned, retiree, m
<1>7. /\ table'[m] = crowned
      /\ \A x \in Models \ {m} : table'[x] = IF x \in req[r].retired THEN retiree ELSE table[x]
  BY <1>2, <1>3
<1>8. Active' = {m}
  BY <1>1, <1>3, <1>6, <1>7 DEF Active, RegistryTypeOK
<1>9. \A x \in Models : table'[x] # None <=> table[x] # None
  BY <1>1, <1>3, <1>7 DEF Active, RegistryTypeOK
<1>10. table' \in [Models -> ModelRow \cup {None}]
  BY <1>1, <1>2 DEF RegistryTypeOK
<1>11. RegistryTypeOK'
  BY <1>2, <1>4, <1>10 DEF RegistryTypeOK
<1>12. SingleActive'
  <2>1. \A x \in Models \ {m} : ~(table'[x] # None /\ table'[x].status = "PRODUCTION")
    BY <1>1, <1>6, <1>7 DEF SingleActive
  <2> QED
    BY <1>1, <1>3, <1>7, <1>8, <1>9, <2>1 DEF SingleActive
<1>13. ArtefactsStored' /\ StoredSoFar'
  BY <1>2, <1>4, <1>5, <1>9 DEF ArtefactsStored, StoredSoFar, Registering
<1>14. \A s \in Requests \ {r} : req[s].retired = {}
  BY <1>3, <1>6, <1>7 DEF LocksHold
<1>15. LocksHold'
  BY <1>3, <1>4, <1>5, <1>9, <1>14 DEF LocksHold, Promoting
<1> QED
  BY <1>8, <1>11, <1>12, <1>13, <1>15 DEF m

\* A promotion keeps the invariant.
LEMMA PromoteKeepsInv ==
  ASSUME RegistryInv, NEW r \in Requests,
         \/ \E m \in Models : PromoteCheck(r, m)
         \/ FindIncumbents(r) \/ Deactivate(r) \/ Activate(r) \/ PromoteFails(r)
  PROVE  RegistryInv'
<1> USE DEF RegistryInv
<1>1. req[r] \in Request /\ Idle \in Request /\ Idle.pc = "idle" /\ Idle.retired = {}
  BY DEF RegistryTypeOK, Idle, Request
<1>2. ASSUME NEW m \in Models, PromoteCheck(r, m) PROVE RegistryInv'
  <2> DEFINE new == [Idle EXCEPT !.pc = "deactivate", !.target = m]
  <2>1. new \in Request /\ new.pc = "deactivate" /\ new.target = m /\ new.retired = {}
    BY DEF Idle, Request, Promoting
  <2>2. /\ req' = [req EXCEPT ![r] = new] /\ UNCHANGED <<table, weights, config, registered>>
        /\ table[m] # None
    BY <1>2 DEF PromoteCheck
  <2> HIDE DEF new
  <2> QED
    BY <2>1, <2>2, PromoteStepKeepsInv DEF Registering
<1>3. ASSUME FindIncumbents(r) PROVE RegistryInv'
  <2> DEFINE new == [req[r] EXCEPT !.pc = "locking", !.incumbents = Active]
  <2>1. /\ req[r].pc = "deactivate" /\ req[r].pc \in Promoting
        /\ req' = [req EXCEPT ![r] = new] /\ UNCHANGED <<table, weights, config, registered>>
    BY <1>3 DEF FindIncumbents, RegistryTypeOK, Promoting
  <2>2. /\ new \in Request /\ new.pc = "locking"
        /\ new.target = req[r].target /\ new.retired = req[r].retired
    BY <1>1 DEF Request, Promoting, Active
  <2>3. req[r].target \in Models /\ table[req[r].target] # None /\ req[r].retired = {}
    BY <2>1 DEF LocksHold
  <2> HIDE DEF new
  <2> QED
    BY <2>1, <2>2, <2>3, PromoteStepKeepsInv DEF Registering
<1>4. ASSUME Deactivate(r) PROVE RegistryInv'
  <2> DEFINE new == [req[r] EXCEPT !.pc = "activate", !.retired = req[r].incumbents \cap Active]
  <2>1. /\ req[r].pc = "locking" /\ req[r].pc \in Promoting
        /\ req[r].incumbents \cap LockedByOthers(r) = {}
        /\ req' = [req EXCEPT ![r] = new] /\ UNCHANGED <<table, weights, config, registered>>
    BY <1>4 DEF Deactivate, RegistryTypeOK, Promoting
  <2>2. /\ new \in Request /\ new.pc = "activate"
        /\ new.target = req[r].target /\ new.retired = req[r].incumbents \cap Active
    BY <1>1 DEF Request, Promoting
  <2>3. req[r].target \in Models /\ table[req[r].target] # None
    BY <2>1 DEF LocksHold
  <2>4. \A s \in Requests \ {r} : new.retired \cap LockedBy(s) = {}
    BY <2>1, <2>2 DEF LockedByOthers
  <2> HIDE DEF new
  <2> QED
    BY <2>1, <2>2, <2>3, <2>4, PromoteStepKeepsInv DEF Registering
<1>5. ASSUME Activate(r) PROVE RegistryInv'
  <2> DEFINE new == [req[r] EXCEPT !.pc = "commit"]
  <2>1. /\ req[r].pc = "activate" /\ req[r].pc \in Promoting
        /\ req[r].target \notin LockedByOthers(r) /\ Rivals(r) = {}
        /\ \A s \in Requests \ {r} : req[s].pc # "commit"
        /\ req' = [req EXCEPT ![r] = new] /\ UNCHANGED <<table, weights, config, registered>>
    BY <1>5 DEF Activate, Goto, RegistryTypeOK, Promoting
  <2>2. /\ new \in Request /\ new.pc = "commit"
        /\ new.target = req[r].target /\ new.retired = req[r].retired
    BY <1>1 DEF Request, Promoting
  <2>3. /\ req[r].target \in Models /\ table[req[r].target] # None
        /\ req[r].retired \subseteq Active
        /\ \A s \in Requests \ {r} : req[r].retired \cap req[s].retired = {}
    BY <2>1 DEF LocksHold
  <2>4. \A s \in Requests \ {r} : LockedBy(s) = req[s].retired
    BY <2>1 DEF LockedBy
  <2>5. /\ \A s \in Requests \ {r} : new.retired \cap LockedBy(s) = {}
        /\ \A s \in Requests \ {r} : new.target \notin req[s].retired
        /\ Active \subseteq new.retired \cup {new.target}
    BY <2>1, <2>2, <2>3, <2>4 DEF LockedByOthers, Rivals
  <2> HIDE DEF new
  <2> QED
    BY <2>1, <2>2, <2>3, <2>5, PromoteStepKeepsInv DEF Registering
<1>6. ASSUME PromoteFails(r) PROVE RegistryInv'
  <2>1. req' = [req EXCEPT ![r] = Idle] /\ UNCHANGED <<table, weights, config, registered>>
    BY <1>6 DEF PromoteFails, End
  <2> QED
    BY <1>1, <2>1, PromoteStepKeepsInv DEF Registering, Promoting
<1> QED
  BY <1>2, <1>3, <1>4, <1>5, <1>6

\* The invariant of the registry, whatever registrations and promotions race.
THEOREM RegistryInvariance == RegistrySpec => []RegistryInv
<1>1. RegistryInv /\ [RegistryNext]_registry => RegistryInv'
  <2>1. CASE RegistryNext
    BY <2>1, RegisterKeepsInv, PromoteKeepsInv, CommitKeepsInv DEF RegistryNext, RegistryStep
  <2>2. CASE UNCHANGED registry
    BY <2>2 DEF registry, RegistryInv, RegistryTypeOK, SingleActive, ArtefactsStored, LocksHold,
                StoredSoFar, Active, Rivals
  <2> QED
    BY <2>1, <2>2
<1> QED
  BY <1>1, InitInv, PTL DEF RegistrySpec

\* SM4: one model at a time is in production, and a registered model has its
\* weights and its class mapping in the store.
THEOREM OneModelInProduction == RegistrySpec => [](SingleActive /\ ArtefactsStored)
  BY RegistryInvariance, PTL DEF RegistryInv

\* From the first promotion on, every state has a model in production.
THEOREM ProductionIsServed == RegistrySpec => ProductionServed
<1>1. RegistryInv /\ [RegistryNext]_registry => [Active # {} => Active' # {}]_registry
  <2> SUFFICES ASSUME RegistryInv, RegistryNext, Active # {} PROVE Active' # {}
    OBVIOUS
  <2>1. CASE \E r \in Requests : Commit(r)
    BY <2>1, CommitKeepsInv
  <2>2. CASE ~\E r \in Requests : Commit(r)
    <3>1. PICK r \in Requests : RegistryStep(r)
      BY DEF RegistryNext
    <3>2. CASE table' = table
      BY <3>2 DEF Active
    <3>3. CASE InsertModel(r)
      <4>1. table[req[r].target] = None /\ \A m \in Models \ {req[r].target} : table'[m] = table[m]
        BY <3>3 DEF InsertModel, RegistryInv, RegistryTypeOK
      <4> QED
        BY <4>1 DEF Active
    <3> QED
      BY <2>2, <3>1, <3>2, <3>3
      DEF RegistryStep, RegisterCheck, PutWeights, PutConfig, RegisterFails, PromoteCheck,
          FindIncumbents, Deactivate, Activate, PromoteFails
  <2> QED
    BY <2>1, <2>2
<1> QED
  BY <1>1, RegistryInvariance, PTL DEF RegistrySpec, ProductionServed

-----------------------------------------------------------------------------
(***************************************************************************)
(* The registry and the cache.                                             *)
(***************************************************************************)

USE DefaultAssumption, TruncatedAssumption, DetectorAssumption

-----------------------------------------------------------------------------
\* The queue of the lock.

\* A task that was not queued is queued once behind the others.
LEMMA Enqueue ==
  ASSUME NEW q \in Seq(Tasks), IsInjective(q), NEW t \in Tasks, t \notin ToSet(q)
  PROVE  /\ Append(q, t) \in Seq(Tasks)
         /\ IsInjective(Append(q, t))
         /\ ToSet(Append(q, t)) = ToSet(q) \cup {t}
         /\ Append(q, t) # << >>
         /\ q # << >> => Head(Append(q, t)) = Head(q)
<1> DEFINE p == Append(q, t)
<1>1. p \in Seq(Tasks) /\ Len(p) = Len(q) + 1 /\ p[Len(p)] = t /\ \A i \in 1..Len(q) : p[i] = q[i]
  BY AppendProperties
<1>2. DOMAIN q = 1..Len(q) /\ Len(q) \in Nat /\ DOMAIN p = 1..Len(p)
  BY <1>1, LenProperties
<1> HIDE DEF p
<1>3. \A i \in DOMAIN q : q[i] # t
  BY DEF ToSet
<1>4. IsInjective(p)
  BY <1>1, <1>2, <1>3 DEF IsInjective
<1>5. ToSet(p) = ToSet(q) \cup {t}
  BY <1>1, <1>2 DEF ToSet
<1>6. p # << >>
  BY <1>1, <1>2
<1>7. q # << >> => Head(p) = Head(q)
  BY <1>1, <1>2, <1>6, EmptySeq
<1> QED
  BY <1>1, <1>4, <1>5, <1>6, <1>7 DEF p

\* The task that has the lock leaves, the others stay.
LEMMA Dequeue ==
  ASSUME NEW q \in Seq(Tasks), IsInjective(q), q # << >>
  PROVE  /\ Tail(q) \in Seq(Tasks)
         /\ IsInjective(Tail(q))
         /\ ToSet(Tail(q)) = ToSet(q) \ {Head(q)}
         /\ Head(q) \in Tasks
<1> DEFINE p == Tail(q)
<1>1. /\ Head(q) \in Tasks /\ p \in Seq(Tasks) /\ Len(p) = Len(q) - 1
      /\ \A i \in 1..Len(p) : p[i] = q[i + 1]
  BY HeadTailProperties
<1>2. DOMAIN q = 1..Len(q) /\ Len(q) \in Nat \ {0} /\ DOMAIN p = 1..Len(p) /\ Head(q) = q[1]
  BY <1>1, LenProperties, EmptySeq
<1> HIDE DEF p
<1>3. \A i \in DOMAIN p : /\ i + 1 \in DOMAIN q /\ i + 1 # 1 /\ i \in Int
                         /\ p[i] = q[i + 1]
  BY <1>1, <1>2
<1>4. \A a, b \in DOMAIN q : q[a] = q[b] => a = b
  BY DEF IsInjective
<1>5. IsInjective(p)
  <2> SUFFICES ASSUME NEW i \in DOMAIN p, NEW j \in DOMAIN p, p[i] = p[j] PROVE i = j
    BY DEF IsInjective
  <2>1. i + 1 = j + 1
    BY <1>3, <1>4
  <2> QED
    BY <1>3, <2>1
<1>6. ToSet(p) \subseteq ToSet(q) \ {Head(q)}
  <2> SUFFICES ASSUME NEW i \in DOMAIN p PROVE p[i] \in ToSet(q) /\ p[i] # q[1]
    BY <1>2 DEF ToSet
  <2>1. i + 1 \in DOMAIN q /\ 1 \in DOMAIN q /\ i + 1 # 1 /\ p[i] = q[i + 1]
    BY <1>2, <1>3
  <2> QED
    BY <1>4, <2>1 DEF ToSet
<1>7. ASSUME NEW x \in ToSet(q) \ {Head(q)} PROVE x \in ToSet(p)
  <2>1. PICK i \in DOMAIN q : q[i] = x
    BY DEF ToSet
  <2>2. i # 1 /\ i - 1 \in 1..Len(p) /\ (i - 1) + 1 = i
    BY <1>1, <1>2, <2>1
  <2>3. p[i - 1] = x
    BY <1>1, <2>1, <2>2
  <2> QED
    BY <1>2, <2>2, <2>3 DEF ToSet
<1> QED
  BY <1>1, <1>5, <1>6, <1>7 DEF p

-----------------------------------------------------------------------------
\* The registry under the worker.

\* A registered model is not taken away, and no object of the store either.
LEMMA RegistryOnlyGrows ==
  ASSUME RegistryInv, NEW r \in Requests, RegistryStep(r)
  PROVE  \A m \in Models : table[m] # None => table'[m] # None
<1>1. CASE Commit(r)
  <2> DEFINE crowned == [status |-> "PRODUCTION", active |-> TRUE]
             retiree == [status |-> "DEPRECATED", active |-> FALSE]
  <2>1. crowned \in ModelRow /\ retiree \in ModelRow
    BY DEF ModelRow
  <2>2. table' = [m \in Models |-> IF m = req[r].target THEN crowned
                                   ELSE IF m \in req[r].retired THEN retiree ELSE table[m]]
    BY <1>1 DEF Commit
  <2> HIDE DEF crowned, retiree
  <2> QED
    BY <2>1, <2>2
<1>2. CASE InsertModel(r)
  BY <1>2 DEF InsertModel, RegistryInv, RegistryTypeOK
<1>3. CASE table' = table
  BY <1>3
<1> QED
  BY <1>1, <1>2, <1>3
  DEF RegistryStep, RegisterCheck, PutWeights, PutConfig, RegisterFails, PromoteCheck,
      FindIncumbents, Deactivate, Activate, PromoteFails

\* The registry keeps its invariant when the worker steps.
LEMMA WorkerKeepsRegistry ==
  ASSUME RegistryInv, UNCHANGED registry
  PROVE  RegistryInv'
  BY DEF registry, RegistryInv, RegistryTypeOK, SingleActive, ArtefactsStored, LocksHold,
         StoredSoFar, Active, Rivals

\* A restart ends every registration and every promotion: what they have not
\* committed never was.
LEMMA RestartKeepsRegistry ==
  ASSUME RegistryInv, Restart
  PROVE  RegistryInv'
<1>1. /\ req' = [r \in Requests |-> Idle] /\ UNCHANGED <<table, weights, config, registered>>
      /\ Idle \in Request /\ Idle.pc = "idle" /\ Idle.retired = {}
  BY DEF Restart, Idle, Request
<1>2. RegistryTypeOK' /\ SingleActive' /\ ArtefactsStored'
  BY <1>1 DEF RegistryInv, RegistryTypeOK, SingleActive, ArtefactsStored, Active
<1>3. LocksHold' /\ StoredSoFar'
  BY <1>1 DEF LocksHold, StoredSoFar, Promoting, Registering
<1> QED
  BY <1>2, <1>3 DEF RegistryInv

-----------------------------------------------------------------------------
\* The steps of a task.

\* What a step of the task t leaves the others: its lock, if one of them has it,
\* the dictionary unless t has the lock, and every row and every file.
LEMMA OthersStaySound ==
  ASSUME CacheInv, NEW t \in Tasks, NEW new \in Task, task' = [task EXCEPT ![t] = new],
         \A m \in Models : table[m] # None => table'[m] # None,
         \A m \in Models : disk[m] # None => disk'[m] # None,
         \A m \in Models : cache[m] # None => cache'[m] # None,
         cache' = cache \/ HasLock(t),
         \/ queue' = queue
         \/ queue' = Append(queue, t) /\ t \notin ToSet(queue)
         \/ queue' = Tail(queue) /\ HasLock(t)
  PROVE  \A s \in Tasks \ {t} : Sound(s)'
<1> SUFFICES ASSUME NEW s \in Tasks \ {t} PROVE Sound(s)'
  OBVIOUS
<1>1. Sound(s) /\ queue \in Seq(Tasks) /\ IsInjective(queue)
  BY DEF CacheInv, CacheTypeOK
<1>2. task'[s] = task[s]
  BY DEF CacheInv, CacheTypeOK
<1>3. HasLock(s) => HasLock(s)' /\ cache' = cache
  <2> SUFFICES ASSUME HasLock(s) PROVE HasLock(s)' /\ cache' = cache
    OBVIOUS
  <2>1. ~HasLock(t)
    BY DEF HasLock
  <2>2. CASE queue' = queue
    BY <2>1, <2>2 DEF HasLock
  <2>3. CASE queue' = Append(queue, t) /\ t \notin ToSet(queue)
    <3>1. queue' # << >> /\ Head(queue') = Head(queue)
      BY <1>1, <2>3, Enqueue DEF HasLock
    <3> QED
      BY <2>1, <3>1 DEF HasLock
  <2> QED
    BY <2>1, <2>2, <2>3
<1> QED
  BY <1>1, <1>2, <1>3 DEF Sound

\* A step of a task that leaves the queue as it is keeps the invariant, if it
\* leaves the task sound.
LEMMA StepOutsideQueue ==
  ASSUME CacheInv, UNCHANGED <<registry, queue>>,
         NEW t \in Tasks, NEW new \in Task, task' = [task EXCEPT ![t] = new],
         task[t].pc \in {"waiting"} \cup InLock <=> new.pc \in {"waiting"} \cup InLock,
         cache' = cache,
         disk' \in [Models -> Uploads \cup {None, Truncated}],
         \A m \in Models : disk[m] # None => disk'[m] # None,
         detections' \subseteq [model : Models, detector : Detector],
         Sound(t)'
  PROVE  CacheInv'
<1>1. RegistryInv'
  BY WorkerKeepsRegistry DEF CacheInv
<1>2. task' \in [Tasks -> Task] /\ task'[t] = new /\ \A s \in Tasks \ {t} : task'[s] = task[s]
  BY DEF CacheInv, CacheTypeOK
<1>3. {s \in Tasks : task'[s].pc \in {"waiting"} \cup InLock}
        = {s \in Tasks : task[s].pc \in {"waiting"} \cup InLock}
  BY <1>2
<1>4. CacheTypeOK'
  BY <1>1, <1>2, <1>3 DEF CacheInv, CacheTypeOK, RegistryInv
<1>5. \A s \in Tasks \ {t} : Sound(s)'
  BY OthersStaySound DEF registry
<1> QED
  BY <1>1, <1>4, <1>5 DEF CacheInv

\* A step that gives the lock back keeps the invariant, if it leaves the task sound.
LEMMA StepReleasesLock ==
  ASSUME CacheInv, UNCHANGED <<registry, disk, detections>>,
         NEW t \in Tasks, HasLock(t), queue' = Tail(queue),
         NEW new \in Task, task' = [task EXCEPT ![t] = new], new.pc \in {"idle", "ready"},
         cache' \in [Models -> Detector \cup {None}],
         \A m \in Models : cache[m] # None => cache'[m] # None,
         Sound(t)'
  PROVE  CacheInv'
<1>1. RegistryInv'
  BY WorkerKeepsRegistry DEF CacheInv
<1>2. task' \in [Tasks -> Task] /\ task'[t] = new /\ \A s \in Tasks \ {t} : task'[s] = task[s]
  BY DEF CacheInv, CacheTypeOK
<1>3. queue \in Seq(Tasks) /\ IsInjective(queue) /\ queue # << >> /\ Head(queue) = t
  BY DEF CacheInv, CacheTypeOK, HasLock
<1>4. queue' \in Seq(Tasks) /\ IsInjective(queue') /\ ToSet(queue') = ToSet(queue) \ {t}
  BY <1>3, Dequeue
<1>5. {s \in Tasks : task'[s].pc \in {"waiting"} \cup InLock}
        = {s \in Tasks : task[s].pc \in {"waiting"} \cup InLock} \ {t}
  BY <1>2 DEF InLock
<1>6. CacheTypeOK'
  BY <1>1, <1>2, <1>4, <1>5 DEF CacheInv, CacheTypeOK, RegistryInv
<1>7. \A s \in Tasks \ {t} : Sound(s)'
  BY OthersStaySound DEF registry
<1> QED
  BY <1>1, <1>6, <1>7 DEF CacheInv

\* Taking the active model and queueing for the lock.
LEMMA ResolveKeepsInv ==
  ASSUME CacheInv, NEW t \in Tasks, ResolveModel(t)
  PROVE  CacheInv'
<1>1. PICK m \in Active :
        task' = [task EXCEPT ![t] = [NoTask EXCEPT !.pc = "waiting", !.model = m]]
  BY DEF ResolveModel
<1> DEFINE new == [NoTask EXCEPT !.pc = "waiting", !.model = m]
<1>2. new \in Task /\ new.pc = "waiting" /\ new.model = m /\ m \in Models /\ table[m] # None
  BY DEF NoTask, Task, Active
<1>3. /\ task[t].pc = "idle" /\ queue' = Append(queue, t)
      /\ task' = [task EXCEPT ![t] = new]
      /\ UNCHANGED <<registry, cache, disk, detections>>
  BY <1>1 DEF ResolveModel
<1> HIDE DEF new
<1>4. task' \in [Tasks -> Task] /\ task'[t] = new /\ \A s \in Tasks \ {t} : task'[s] = task[s]
  BY <1>2, <1>3 DEF CacheInv, CacheTypeOK
<1>5. queue \in Seq(Tasks) /\ IsInjective(queue) /\ t \notin ToSet(queue)
  BY <1>3 DEF CacheInv, CacheTypeOK, InLock
<1>6. queue' \in Seq(Tasks) /\ IsInjective(queue') /\ ToSet(queue') = ToSet(queue) \cup {t}
  BY <1>3, <1>5, Enqueue
<1>7. {s \in Tasks : task'[s].pc \in {"waiting"} \cup InLock}
        = {s \in Tasks : task[s].pc \in {"waiting"} \cup InLock} \cup {t}
  BY <1>2, <1>4
<1>8. RegistryInv'
  BY <1>3, WorkerKeepsRegistry DEF CacheInv
<1>9. CacheTypeOK'
  BY <1>3, <1>4, <1>6, <1>7, <1>8 DEF CacheInv, CacheTypeOK, RegistryInv
<1>10. Sound(t)'
  BY <1>2, <1>3, <1>4 DEF Sound, InLock, registry
<1>11. \A s \in Tasks \ {t} : Sound(s)'
  BY <1>2, <1>3, <1>5, OthersStaySound DEF registry
<1> QED
  BY <1>8, <1>9, <1>10, <1>11 DEF CacheInv

\* The detector is in the dictionary.
LEMMA UseCachedKeepsInv ==
  ASSUME CacheInv, NEW t \in Tasks, UseCached(t)
  PROVE  CacheInv'
<1> DEFINE new == [task[t] EXCEPT !.pc = "ready"]
<1>1. /\ task[t].pc = "waiting" /\ HasLock(t) /\ cache[task[t].model] # None
      /\ task' = [task EXCEPT ![t] = new] /\ queue' = Tail(queue)
      /\ UNCHANGED <<registry, cache, disk, detections>>
  BY DEF UseCached, Move, CacheInv, CacheTypeOK
<1>2. task[t] \in Task /\ Sound(t)
  BY DEF CacheInv, CacheTypeOK
<1>3. new \in Task /\ new.pc = "ready" /\ new.model = task[t].model
  BY <1>2 DEF Task
<1> HIDE DEF new
<1>4. task'[t] = new
  BY <1>1 DEF CacheInv, CacheTypeOK
<1>5. Sound(t)'
  BY <1>1, <1>2, <1>3, <1>4 DEF Sound, InLock, registry
<1> QED
  BY <1>1, <1>3, <1>5, StepReleasesLock DEF CacheInv, CacheTypeOK

\* The task at the head of the queue finds no detector.
LEMMA StartLoadingKeepsInv ==
  ASSUME CacheInv, NEW t \in Tasks, StartLoading(t)
  PROVE  CacheInv'
<1> DEFINE new == [task[t] EXCEPT !.pc = "weights"]
<1>1. /\ task[t].pc = "waiting" /\ HasLock(t) /\ cache[task[t].model] = None
      /\ task' = [task EXCEPT ![t] = new]
      /\ UNCHANGED <<registry, cache, queue, disk, detections>>
  BY DEF StartLoading, Move, CacheInv, CacheTypeOK
<1>2. task[t] \in Task /\ Sound(t)
  BY DEF CacheInv, CacheTypeOK
<1>3. new \in Task /\ new.pc = "weights" /\ new.model = task[t].model
  BY <1>2 DEF Task, InLock
<1> HIDE DEF new
<1>4. task'[t] = new
  BY <1>1 DEF CacheInv, CacheTypeOK
<1>5. Sound(t)'
  BY <1>1, <1>2, <1>3, <1>4 DEF Sound, InLock, registry, HasLock
<1> QED
  BY <1>1, <1>3, <1>5, StepOutsideQueue DEF CacheInv, CacheTypeOK, InLock

\* The weights are those of a registered model: the object is in the store.
LEMMA ReadWeightsKeepsInv ==
  ASSUME CacheInv, NEW t \in Tasks, ReadWeights(t)
  PROVE  CacheInv'
<1> DEFINE new == [task[t] EXCEPT !.pc = "mapping", !.weights = weights[task[t].model]]
<1>1. /\ task[t].pc = "weights" /\ task' = [task EXCEPT ![t] = new]
      /\ UNCHANGED <<registry, cache, queue, disk, detections>>
  BY DEF ReadWeights, CacheInv, CacheTypeOK
<1>2. task[t] \in Task /\ Sound(t)
  BY DEF CacheInv, CacheTypeOK
<1>3. /\ task[t].model \in Models /\ HasLock(t) /\ cache[task[t].model] = None
      /\ table[task[t].model] # None
  BY <1>1, <1>2 DEF Sound, InLock
<1>4. weights[task[t].model] \in Uploads
  BY <1>3 DEF CacheInv, RegistryInv, ArtefactsStored, RegistryTypeOK
<1>5. new \in Task /\ new.pc = "mapping" /\ new.model = task[t].model /\ new.weights # None
  BY <1>2, <1>4 DEF Task, InLock
<1> HIDE DEF new
<1>6. task'[t] = new
  BY <1>1 DEF CacheInv, CacheTypeOK
<1>7. Sound(t)'
  BY <1>1, <1>3, <1>5, <1>6 DEF Sound, InLock, registry, HasLock
<1> QED
  BY <1>1, <1>5, <1>7, StepOutsideQueue DEF CacheInv, CacheTypeOK, InLock

\* So is its class mapping; the default stands in for one that cannot be read.
LEMMA ReadMappingKeepsInv ==
  ASSUME CacheInv, NEW t \in Tasks, ReadMapping(t)
  PROVE  CacheInv'
<1>1. PICK c \in {config[task[t].model], Default} :
        task' = [task EXCEPT ![t].pc = "file", ![t].mapping = c]
  BY DEF ReadMapping
<1> DEFINE new == [task[t] EXCEPT !.pc = "file", !.mapping = c]
<1>2. /\ task[t].pc = "mapping" /\ task' = [task EXCEPT ![t] = new]
      /\ UNCHANGED <<registry, cache, queue, disk, detections>>
  BY <1>1 DEF ReadMapping, CacheInv, CacheTypeOK
<1>3. task[t] \in Task /\ Sound(t)
  BY DEF CacheInv, CacheTypeOK
<1>4. /\ task[t].model \in Models /\ HasLock(t) /\ cache[task[t].model] = None
      /\ table[task[t].model] # None /\ task[t].weights # None
  BY <1>2, <1>3 DEF Sound, InLock
<1>5. c \in Uploads \cup {Default} /\ c # None
  BY <1>4 DEF CacheInv, RegistryInv, ArtefactsStored, RegistryTypeOK
<1>6. /\ new \in Task /\ new.pc = "file" /\ new.model = task[t].model
      /\ new.weights = task[t].weights /\ new.mapping = c
  BY <1>3, <1>5 DEF Task, InLock
<1> HIDE DEF new
<1>7. task'[t] = new
  BY <1>2 DEF CacheInv, CacheTypeOK
<1>8. Sound(t)'
  BY <1>2, <1>4, <1>5, <1>6, <1>7 DEF Sound, InLock, registry, HasLock
<1> QED
  BY <1>2, <1>6, <1>8, StepOutsideQueue DEF CacheInv, CacheTypeOK, InLock

\* A file that is there is taken as it is; a new one is incomplete at first.
LEMMA OpenFileKeepsInv ==
  ASSUME CacheInv, NEW t \in Tasks, OpenFile(t)
  PROVE  CacheInv'
<1> DEFINE m == task[t].model
           place == IF disk[m] = None THEN "writing" ELSE "loading"
           new == [task[t] EXCEPT !.pc = place]
<1>1. /\ task[t].pc = "file" /\ task' = [task EXCEPT ![t] = new]
      /\ disk' = IF disk[m] = None THEN [disk EXCEPT ![m] = Truncated] ELSE disk
      /\ UNCHANGED <<registry, cache, queue, detections>>
  BY DEF OpenFile, Move, CacheInv, CacheTypeOK
<1>2. task[t] \in Task /\ Sound(t)
  BY DEF CacheInv, CacheTypeOK
<1>3. /\ m \in Models /\ HasLock(t) /\ cache[m] = None /\ table[m] # None
      /\ task[t].weights # None /\ task[t].mapping # None
  BY <1>1, <1>2 DEF Sound, InLock
<1>4. /\ new \in Task /\ new.pc \in {"writing", "loading"} /\ new.model = m
      /\ new.pc = "loading" => disk[m] # None
      /\ new.weights = task[t].weights /\ new.mapping = task[t].mapping
  BY <1>2 DEF Task, InLock
<1> HIDE DEF new, m
<1>5. /\ disk' \in [Models -> Uploads \cup {None, Truncated}]
      /\ \A n \in Models : disk[n] # None => disk'[n] # None
  BY <1>1, <1>3 DEF CacheInv, CacheTypeOK
<1>6. task'[t] = new
  BY <1>1 DEF CacheInv, CacheTypeOK
<1>7. Sound(t)'
  BY <1>1, <1>3, <1>4, <1>5, <1>6 DEF Sound, InLock, registry, HasLock
<1> QED
  BY <1>1, <1>4, <1>5, <1>7, StepOutsideQueue DEF CacheInv, CacheTypeOK, InLock

\* The file is complete.
LEMMA WriteFileKeepsInv ==
  ASSUME CacheInv, NEW t \in Tasks, WriteFile(t)
  PROVE  CacheInv'
<1> DEFINE m == task[t].model
           new == [task[t] EXCEPT !.pc = "loading"]
<1>1. /\ task[t].pc = "writing" /\ task' = [task EXCEPT ![t] = new]
      /\ disk' = [disk EXCEPT ![m] = task[t].weights]
      /\ UNCHANGED <<registry, cache, queue, detections>>
  BY DEF WriteFile, Move, CacheInv, CacheTypeOK
<1>2. task[t] \in Task /\ Sound(t)
  BY DEF CacheInv, CacheTypeOK
<1>3. /\ m \in Models /\ HasLock(t) /\ cache[m] = None /\ table[m] # None
      /\ task[t].weights # None /\ task[t].mapping # None
  BY <1>1, <1>2 DEF Sound, InLock
<1>4. /\ new \in Task /\ new.pc = "loading" /\ new.model = m
      /\ new.weights = task[t].weights /\ new.mapping = task[t].mapping
      /\ task[t].weights \in Uploads
  BY <1>2, <1>3 DEF Task, InLock
<1> HIDE DEF new, m
<1>5. /\ disk' \in [Models -> Uploads \cup {None, Truncated}]
      /\ disk'[m] # None
      /\ \A n \in Models : disk[n] # None => disk'[n] # None
  BY <1>1, <1>3, <1>4 DEF CacheInv, CacheTypeOK
<1>6. task'[t] = new
  BY <1>1 DEF CacheInv, CacheTypeOK
<1>7. Sound(t)'
  BY <1>1, <1>3, <1>4, <1>5, <1>6 DEF Sound, InLock, registry, HasLock
<1> QED
  BY <1>1, <1>4, <1>5, <1>7, StepOutsideQueue DEF CacheInv, CacheTypeOK, InLock

\* The detector enters the dictionary, in an entry that was empty.
LEMMA LoadDetectorKeepsInv ==
  ASSUME CacheInv, NEW t \in Tasks, LoadDetector(t)
  PROVE  /\ CacheInv'
         /\ \A m \in Models : cache[m] # None => cache'[m] = cache[m]
<1> DEFINE m == task[t].model
           new == [task[t] EXCEPT !.pc = "ready"]
           detector == [weights |-> disk[m], mapping |-> task[t].mapping]
<1>1. /\ task[t].pc = "loading" /\ disk[m] # Truncated
      /\ task' = [task EXCEPT ![t] = new]
      /\ cache' = [cache EXCEPT ![m] = detector] /\ queue' = Tail(queue)
      /\ UNCHANGED <<registry, disk, detections>>
  BY DEF LoadDetector, Move, CacheInv, CacheTypeOK
<1>2. task[t] \in Task /\ Sound(t)
  BY DEF CacheInv, CacheTypeOK
<1>3. /\ m \in Models /\ HasLock(t) /\ cache[m] = None /\ table[m] # None
      /\ task[t].mapping # None /\ disk[m] # None
  BY <1>1, <1>2 DEF Sound, InLock
<1>4. detector \in Detector
  <2>1. disk[m] \in Uploads
    BY <1>1, <1>3 DEF CacheInv, CacheTypeOK
  <2>2. task[t].mapping \in Uploads \cup {Default}
    BY <1>2, <1>3 DEF Task
  <2> QED
    BY <2>1, <2>2 DEF Detector
<1>5. new \in Task /\ new.pc = "ready" /\ new.model = m
  BY <1>2 DEF Task, InLock
<1> HIDE DEF new, m, detector
<1>6. /\ cache' \in [Models -> Detector \cup {None}] /\ cache'[m] # None
      /\ \A n \in Models : cache[n] # None => cache'[n] = cache[n]
  BY <1>1, <1>3, <1>4 DEF CacheInv, CacheTypeOK
<1>7. task'[t] = new
  BY <1>1 DEF CacheInv, CacheTypeOK
<1>8. Sound(t)'
  BY <1>1, <1>3, <1>5, <1>6, <1>7 DEF Sound, InLock, registry
<1> QED
  BY <1>1, <1>3, <1>5, <1>6, <1>8, StepReleasesLock

\* Whatever fails, the lock is given back.
LEMMA LoadFailsKeepsInv ==
  ASSUME CacheInv, NEW t \in Tasks, LoadFails(t)
  PROVE  CacheInv'
<1>1. /\ task[t].pc \in InLock /\ task' = [task EXCEPT ![t] = NoTask] /\ queue' = Tail(queue)
      /\ UNCHANGED <<registry, cache, disk, detections>>
  BY DEF LoadFails
<1>2. NoTask \in Task /\ NoTask.pc = "idle"
  BY DEF NoTask, Task
<1>3. HasLock(t)
  BY <1>1 DEF CacheInv, Sound
<1>4. task'[t] = NoTask
  BY <1>1 DEF CacheInv, CacheTypeOK
<1>5. Sound(t)'
  BY <1>2, <1>4 DEF Sound, InLock
<1> QED
  BY <1>1, <1>2, <1>3, <1>5, StepReleasesLock DEF CacheInv, CacheTypeOK

\* The detector that is read after the lock was given back is there.
LEMMA DetectKeepsInv ==
  ASSUME CacheInv, NEW t \in Tasks, Detect(t)
  PROVE  CacheInv'
<1> DEFINE m == task[t].model
<1>1. /\ task[t].pc = "ready" /\ task' = [task EXCEPT ![t] = NoTask] /\ cache[m] # None
      /\ detections' = detections \cup {[model |-> m, detector |-> cache[m]]}
      /\ UNCHANGED <<registry, cache, queue, disk>>
  BY DEF Detect
<1>2. NoTask \in Task /\ NoTask.pc = "idle" /\ task'[t] = NoTask
  BY <1>1 DEF NoTask, Task, CacheInv, CacheTypeOK
<1>3. m \in Models
  BY <1>1 DEF CacheInv, Sound
<1>4. cache[m] \in Detector
  BY <1>1, <1>3 DEF CacheInv, CacheTypeOK
<1>5. detections' \subseteq [model : Models, detector : Detector]
  BY <1>1, <1>3, <1>4 DEF CacheInv, CacheTypeOK
<1>6. Sound(t)'
  BY <1>2 DEF Sound, InLock
<1> QED
  BY <1>1, <1>2, <1>5, <1>6, StepOutsideQueue DEF CacheInv, CacheTypeOK, InLock

\* A restart leaves the files and nothing else: no task holds the lock.
LEMMA RestartKeepsInv ==
  ASSUME CacheInv, Restart
  PROVE  CacheInv'
<1>1. /\ task' = [t \in Tasks |-> NoTask] /\ cache' = [m \in Models |-> None]
      /\ queue' = << >> /\ UNCHANGED <<disk, detections>>
  BY DEF Restart
<1>2. NoTask \in Task /\ NoTask.pc = "idle"
  BY DEF NoTask, Task
<1>3. RegistryInv'
  BY RestartKeepsRegistry DEF CacheInv
<1>4. queue' \in Seq(Tasks) /\ IsInjective(queue') /\ ToSet(queue') = {}
  BY <1>1 DEF IsInjective, ToSet
<1>5. CacheTypeOK'
  BY <1>1, <1>2, <1>3, <1>4 DEF CacheInv, CacheTypeOK, RegistryInv, InLock
<1>6. \A t \in Tasks : Sound(t)'
  BY <1>1, <1>2 DEF Sound, InLock
<1> QED
  BY <1>3, <1>5, <1>6 DEF CacheInv

\* A request of an administrator takes nothing away that a task relies on.
LEMMA RegistryKeepsInv ==
  ASSUME CacheInv, RegistryNext, UNCHANGED worker
  PROVE  CacheInv'
<1>1. RegistryInv'
  BY RegisterKeepsInv, PromoteKeepsInv, CommitKeepsInv DEF RegistryNext, RegistryStep, CacheInv
<1>2. UNCHANGED <<task, cache, queue, disk, detections>>
  BY DEF worker
<1>3. CacheTypeOK'
  BY <1>1, <1>2 DEF CacheInv, CacheTypeOK, RegistryInv
<1>4. \A m \in Models : table[m] # None => table'[m] # None
  BY RegistryOnlyGrows DEF RegistryNext, CacheInv
<1>5. \A t \in Tasks : Sound(t)'
  BY <1>2, <1>4 DEF CacheInv, Sound, HasLock
<1> QED
  BY <1>1, <1>3, <1>5 DEF CacheInv

-----------------------------------------------------------------------------

\* The idle worker over the empty registry.
LEMMA CacheInitInv == Init => CacheInv
<1> SUFFICES ASSUME Init PROVE CacheInv
  OBVIOUS
<1>1. RegistryInv
  BY InitInv DEF Init
<1>2. NoTask \in Task /\ NoTask.pc = "idle"
  BY DEF NoTask, Task
<1>3. queue \in Seq(Tasks) /\ IsInjective(queue) /\ ToSet(queue) = {}
  BY DEF Init, IsInjective, ToSet
<1>4. CacheTypeOK
  BY <1>1, <1>2, <1>3 DEF Init, CacheTypeOK, RegistryInv, InLock
<1>5. \A t \in Tasks : Sound(t)
  BY <1>2 DEF Init, Sound, InLock
<1> QED
  BY <1>1, <1>4, <1>5 DEF CacheInv

\* Every step keeps the invariant.
LEMMA CacheStep == CacheInv /\ [Next]_vars => CacheInv'
<1> SUFFICES ASSUME CacheInv, [Next]_vars PROVE CacheInv'
  OBVIOUS
<1>1. CASE RegistryNext /\ UNCHANGED worker
  BY <1>1, RegistryKeepsInv
<1>2. ASSUME NEW t \in Tasks, ResolveModel(t) \/ Load(t) \/ Detect(t)
      PROVE  CacheInv'
  BY <1>2, ResolveKeepsInv, UseCachedKeepsInv, StartLoadingKeepsInv, ReadWeightsKeepsInv,
     ReadMappingKeepsInv, OpenFileKeepsInv, WriteFileKeepsInv, LoadDetectorKeepsInv,
     LoadFailsKeepsInv, DetectKeepsInv
  DEF Load
<1>3. CASE Restart
  BY <1>3, RestartKeepsInv
<1>4. CASE UNCHANGED vars
  <2>1. UNCHANGED registry /\ UNCHANGED <<task, cache, queue, disk, detections>>
    BY <1>4 DEF vars, worker
  <2>2. RegistryInv'
    BY <2>1, WorkerKeepsRegistry DEF CacheInv
  <2>3. UNCHANGED table
    BY <2>1 DEF registry
  <2>4. CacheTypeOK' /\ \A t \in Tasks : Sound(t)'
    BY <2>1, <2>2, <2>3 DEF CacheInv, CacheTypeOK, RegistryInv, Sound, HasLock
  <2> QED
    BY <2>2, <2>4 DEF CacheInv
<1> QED
  BY <1>1, <1>2, <1>3, <1>4 DEF Next

\* The invariant of the worker and of the registry, whatever analyses,
\* administrators, failures and restarts meet.
THEOREM CacheInvariance == Spec => []CacheInv
  BY CacheInitInv, CacheStep, PTL DEF Spec

\* The dictionary holds complete detectors, and the queue of the lock each task
\* that waits or loads, once.
THEOREM CacheTypeCorrectness == Spec => []CacheTypeOK
  BY CacheInvariance, PTL DEF CacheInv

\* One task at a time loads, and _detector_cache[model.id], read after the lock was
\* given back, raises no KeyError.
THEOREM CacheSafety == Spec => []CacheIsRead
<1>1. CacheInv => CacheIsRead
  BY DEF CacheInv, Sound, CacheIsRead
<1> QED
  BY <1>1, CacheInvariance, PTL

\* The registry stays consistent through restarts, which it has no step for.
THEOREM RegistrySurvivesRestarts == Spec => [](SingleActive /\ ArtefactsStored)
<1>1. CacheInv => SingleActive /\ ArtefactsStored
  BY DEF CacheInv, RegistryInv
<1> QED
  BY <1>1, CacheInvariance, PTL

\* A detector that is in the dictionary is not replaced as long as the process
\* lives: analyses that overlap use one network.
THEOREM DetectorsStay == Spec => LoadedOnce
<1> DEFINE Stays == \A m \in Models :
                      (cache[m] # None /\ cache'[m] # cache[m]) => cache' = [n \in Models |-> None]
<1>1. CacheInv /\ [Next]_vars => [Stays]_vars
  <2> SUFFICES ASSUME CacheInv, Next PROVE Stays
    OBVIOUS
  <2>1. CASE Restart
    BY <2>1 DEF Restart
  <2>2. CASE \E t \in Tasks : LoadDetector(t)
    BY <2>2, LoadDetectorKeepsInv
  <2>3. CASE cache' = cache
    BY <2>3
  <2> QED
    BY <2>1, <2>2, <2>3
    DEF Next, worker, ResolveModel, Load, UseCached, StartLoading, ReadWeights, ReadMapping,
        OpenFile, WriteFile, LoadFails, Detect
<1> QED
  BY <1>1, CacheInvariance, PTL DEF Spec, LoadedOnce

=============================================================================
