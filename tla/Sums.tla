---------------------------------- MODULE Sums ----------------------------------
(***************************************************************************)
(* Python's sum.                                                           *)
(***************************************************************************)
EXTENDS FiniteSetsExt

\* Of the weights w of the elements of S.
SumOf(w, S) == MapThenSumSet(LAMBDA x : w[x], S)
=============================================================================
