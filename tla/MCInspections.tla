--------------------------- MODULE MCInspections ---------------------------
(***************************************************************************)
(* Small instances of Inspections for TLC.                                 *)
(***************************************************************************)
EXTENDS Inspections, TLC

Symmetry ==
    Permutations(Requests) \cup Permutations(Objects)
        \cup Permutations(Notes) \cup Permutations(Inspections)
=============================================================================
