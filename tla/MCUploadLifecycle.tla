-------------------------- MODULE MCUploadLifecycle --------------------------
(***************************************************************************)
(* Instances of UploadLifecycle for TLC.                                   *)
(***************************************************************************)
EXTENDS UploadLifecycle, TLC

CONSTANTS p1, p2, ra, rb

TwoRequests == {p1, p2}
TwoRecordings == {ra, rb}
Symmetry == Permutations(TwoRequests) \union Permutations(TwoRecordings)

\* No step and no property of the run reads the latest answer.
ButAnswer == <<attempt, sealed, object, url, request, history>>

\* Bound: once every attempt of the instance is issued, one of them is sealed at most.
FewSealed == Cardinality(sealed) <= 1 \/ \E a \in Attempts : Status(a) = "absent"
=============================================================================
