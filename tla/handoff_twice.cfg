SPECIFICATION Spec
CONSTANTS
    p1 = p1
    p2 = p2
    Requests <- TwoRequests
    MaxPerHour = 1
    MaxChallenges = 0
    MaxCodes = 1
    MaxFlows = 1
SYMMETRY Symmetry
INVARIANTS
    HandoffOnce
CHECK_DEADLOCK FALSE
