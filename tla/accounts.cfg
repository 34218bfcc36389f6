SPECIFICATION Spec
CONSTANTS
    p1 = p1
    p2 = p2
    Requests <- TwoRequests
    MaxPerHour = 1
    MaxChallenges = 3
    MaxCodes = 2
    MaxFlows = 1
SYMMETRY Symmetry
INVARIANTS
    TypeOK
    ActivationRemains
    LinkWorksOnce
    SessionsAreVerified
    ResendLimit
CHECK_DEADLOCK FALSE
