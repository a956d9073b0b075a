-------------------------- MODULE MCModelRegistry --------------------------
(***************************************************************************)
(* Small instances of ModelRegistry for TLC.                               *)
(***************************************************************************)
EXTENDS ModelRegistry, TLC

Symmetry == Permutations(Models) \cup Permutations(Uploads) \cup Permutations(Requests)
=============================================================================
