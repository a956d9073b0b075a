----------------------------- MODULE MCKnowledge -----------------------------
(***************************************************************************)
(* A small instance of Knowledge for TLC: windows of three words that      *)
(* share one, texts that end in the first window, at its end, one word     *)
(* past it, at the end of the second, and in the third, with pages that    *)
(* turn inside a window or between two, or are empty.                      *)
(***************************************************************************)
EXTENDS Knowledge

Corpus == {<<>>, <<1>>, <<1, 1, 2>>, <<1, 2, 2, 4>>, <<1, 1, 1, 2, 2>>, <<1, 1, 2, 3, 3, 3>>}
=============================================================================
