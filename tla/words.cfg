SPECIFICATION Spec
CONSTANTS
    r1 = r1
    r2 = r2
    x1 = x1
    x2 = x2
    Requests <- TwoRequests
    Runs <- TwoRuns
    MaxItems = 3
SYMMETRY Symmetry
INVARIANTS
    ReferencesResolve
PROPERTIES
    EvidenceIsImmutable
CHECK_DEADLOCK FALSE
