SPECIFICATION Spec
CONSTANTS
    w1 = w1
    w2 = w2
    w3 = w3
    x1 = x1
    x2 = x2
    x3 = x3
    NoWorker = NoWorker
    Workers <- ThreeWorkers
    Runs <- ThreeRuns
    Window = 2
SYMMETRY Symmetry
INVARIANTS
    EvidenceOfCompletion
    ProjectionGrounded
CHECK_DEADLOCK FALSE
