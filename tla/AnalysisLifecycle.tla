------------------------- MODULE AnalysisLifecycle -------------------------
(***************************************************************************)
(* State machine SM1, as the clients of the inspection API see it: an      *)
(* inspection waits (EN_ATTENTE), is analysed (EN_COURS) and ends with its *)
(* results (TERMINEE) or with an error (ERREUR), from which it may be      *)
(* analysed again.  The results of an analysis appear in the same step as  *)
(* TERMINEE and never disappear.  A finished inspection leaves TERMINEE    *)
(* only where acknowledgements get lost: a worker that does not learn that *)
(* its COMMIT worked takes its run for failed.                             *)
(***************************************************************************)
CONSTANTS
    Inspections,
    AcksGetLost  \* whether a COMMIT may take effect and yet raise

VARIABLES status,    \* status[i]: the state of inspection i, "NONE" before it exists
          published  \* published[i]: the results of i can be read

vars == <<status, published>>

LifecycleTypeOK ==
    /\ status \in [Inspections ->
                     {"NONE", "EN_ATTENTE", "EN_COURS", "TERMINEE", "ERREUR"}]
    /\ published \in [Inspections -> BOOLEAN]

Init ==
    /\ status = [i \in Inspections |-> "NONE"]
    /\ published = [i \in Inspections |-> FALSE]

Move(i, from, to) ==
    /\ status[i] \in from
    /\ status' = [status EXCEPT ![i] = to]

Create(i) == Move(i, {"NONE"}, "EN_ATTENTE") /\ UNCHANGED published
Start(i)  == Move(i, {"EN_ATTENTE", "ERREUR"}, "EN_COURS") /\ UNCHANGED published
Fail(i)   == Move(i, {"EN_COURS"}, "ERREUR") /\ UNCHANGED published

Finish(i) ==
    /\ Move(i, {"EN_COURS"}, "TERMINEE")
    /\ published' = [published EXCEPT ![i] = TRUE]

\* The results stay, under an inspection that says ERREUR.
Retract(i) == AcksGetLost /\ Move(i, {"TERMINEE"}, "ERREUR") /\ UNCHANGED published

Next ==
    \E i \in Inspections :
        Create(i) \/ Start(i) \/ Fail(i) \/ Finish(i) \/ Retract(i)

Spec == Init /\ [][Next]_vars

\* Progress: a started analysis comes to an end, with results or with an error.
RunsEnd ==
    \A i \in Inspections :
        (status[i] = "EN_COURS") ~> (status[i] \in {"TERMINEE", "ERREUR"})
=============================================================================
