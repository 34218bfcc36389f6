------------------------- MODULE MCRecordingRetention -------------------------
(***************************************************************************)
(* Instances of RecordingRetention for TLC.                                *)
(***************************************************************************)
EXTENDS RecordingRetention, TLC

CONSTANTS w1, w2, r1, r2

OwnAndForeign == {r1, r2}
TwoWorkers == {w1, w2}
OtherProvider == {r2}
TransientAndPermanent == {"BuiltinTransport", "MarkedRetryable", "Permanent"}
=============================================================================
