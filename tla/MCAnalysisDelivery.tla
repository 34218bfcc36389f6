------------------------- MODULE MCAnalysisDelivery -------------------------
(***************************************************************************)
(* Small instances of AnalysisDelivery for TLC.  Workers are model values  *)
(* and interchangeable; attempts are numbers, ordered by created_at.       *)
(***************************************************************************)
EXTENDS AnalysisDelivery, TLC

CONSTANTS w1, w2

OneAttempt == {1}
TwoAttempts == {1, 2}
TwoWorkers == {w1, w2}
WorkerSymmetry == Permutations(TwoWorkers)

AllExceptions == Exceptions

\* One transient and one permanent failure.
SttAndOther == {"SttTransient", "Other"}

=============================================================================
