----------------------------- MODULE MCCurriculum -----------------------------
(***************************************************************************)
(* An instance of Curriculum for TLC: the challenges table is empty, or a  *)
(* learner outside the instance has started and left the baseline in it.   *)
(***************************************************************************)
EXTENDS Curriculum, TLC

CONSTANTS l1, l2, r1, r2, r3

TwoLearners == {l1, l2}
ThreeRequests == {r1, r2, r3}
EmptyOrWhole == {{}, Baseline}
Symmetry == Permutations(TwoLearners) \union Permutations(ThreeRequests)
=============================================================================
