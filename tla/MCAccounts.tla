------------------------------ MODULE MCAccounts ------------------------------
(***************************************************************************)
(* Instances of Accounts for TLC: interchangeable API threads.             *)
(***************************************************************************)
EXTENDS Accounts, TLC

CONSTANTS p1, p2

TwoRequests == {p1, p2}
Symmetry == Permutations(TwoRequests)
=============================================================================
