-------------------------- MODULE MCSkillProjection --------------------------
(***************************************************************************)
(* Instances of SkillProjection for TLC: interchangeable workers and runs. *)
(***************************************************************************)
EXTENDS SkillProjection, TLC

CONSTANTS w1, w2, w3, x1, x2, x3

ThreeWorkers == {w1, w2, w3}
ThreeRuns == {x1, x2, x3}
Symmetry == Permutations(ThreeWorkers) \union Permutations(ThreeRuns)
=============================================================================
