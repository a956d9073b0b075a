------------------------------ MODULE MCWorker ------------------------------
(***************************************************************************)
(* The two waits of an analysis, for TLC: the client waits for the run     *)
(* (Inspections), the run for its detector (DetectorCache).  The modules   *)
(* share no variable, and a behaviour is one of either: half says of       *)
(* which, and the other stays in its initial state.                        *)
(***************************************************************************)
EXTENDS DetectorCache

CONSTANTS Inspections, Clients, Objects, Notes, MaxVersion

VARIABLES row, images, results, objects, coroutine, lastRun, half

Runs == INSTANCE Inspections WITH Requests <- Clients, req <- coroutine, Faults <- {}

runs == <<row, images, results, objects, coroutine, lastRun>>

WaitInit == Init /\ Runs!Init /\ half \in {"run", "detector"}

WaitNext ==
    \/ half = "run" /\ Runs!Next /\ UNCHANGED <<vars, half>>
    \/ half = "detector" /\ Next /\ UNCHANGED <<runs, half>>

WaitSpec ==
    /\ WaitInit /\ [][WaitNext]_<<vars, runs, half>>
    /\ Fairness /\ Runs!Fairness

\* Every accepted analysis reaches TERMINEE or ERREUR, as Inspections states it of
\* run_analysis: no fault of its Faults occurs here, and the run may fail at any await.
EveryRunEnds == Runs!EveryRunEnds
=============================================================================
