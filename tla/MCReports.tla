------------------------------ MODULE MCReports ------------------------------
(***************************************************************************)
(* A small instance of Reports for TLC: the search finds nothing or        *)
(* passages; the LLM may cite one whatever was found.                      *)
(***************************************************************************)
EXTENDS Reports, TLC

CONSTANTS p1

Searches == {<<>>, <<p1>>}

Symmetry == Permutations(Requests) \cup Permutations(Clerks)
                \cup Permutations(Titles) \cup Permutations(Files)
=============================================================================
