-------------------------- MODULE MCDetectorCache --------------------------
(***************************************************************************)
(* Small instances of DetectorCache for TLC.                               *)
(***************************************************************************)
EXTENDS DetectorCache

Symmetry ==
    Permutations(Models) \cup Permutations(Uploads)
        \cup Permutations(Requests) \cup Permutations(Tasks)
=============================================================================
