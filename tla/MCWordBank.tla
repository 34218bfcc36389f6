------------------------------ MODULE MCWordBank ------------------------------
(***************************************************************************)
(* Instances of WordBank for TLC: interchangeable requests and runs.       *)
(***************************************************************************)
EXTENDS WordBank, TLC

CONSTANTS r1, r2, x1, x2

TwoRequests == {r1, r2}
TwoRuns == {x1, x2}
Symmetry == Permutations(TwoRequests) \union Permutations(TwoRuns)
=============================================================================
