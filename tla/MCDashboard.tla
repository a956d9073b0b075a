----------------------------- MODULE MCDashboard -----------------------------
(***************************************************************************)
(* A small instance of Dashboard for TLC: two inspections of one road      *)
(* section, an analysis that finds nothing, a critical one and one at the  *)
(* threshold.                                                              *)
(***************************************************************************)
EXTENDS Dashboard, TLC

CONSTANTS i1, i2, crack, pothole, rutting

Pair == {i1, i2}
Damages == {crack, pothole, rutting}
Sections == i1 :> "N1" @@ i2 :> "N1"

Finds == {[found |-> [t \in Damages |-> 0], score |-> 100],
          [found |-> crack :> 1 @@ pothole :> 1 @@ rutting :> 1, score |-> 39],
          [found |-> crack :> 0 @@ pothole :> 2 @@ rutting :> 1, score |-> 40]}

Symmetry == Permutations({i1, i2}) \cup Permutations(Jobs)
=============================================================================
