\* A call ends with its result.
SPECIFICATION CallSpec
CONSTANTS
    Fillers <- MCFillers
    Cues <- MCCues
    Normalized <- MCNormalized
INVARIANTS
    ScoreRestsOnEvidence
    ResumedScoreIsSame
    AcceptedIsGrounded
    RepairKeepsValid
    RecommendationIsSound
CHECK_DEADLOCK FALSE
