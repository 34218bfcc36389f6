SPECIFICATION Spec
CONSTANTS
    w1 = w1
    w2 = w2
    Attempts <- OneAttempt
    Workers <- TwoWorkers
    MaxAttempts = 3
    StorageRetryLimit = 2
    LlmProvider = "openai"
    Raised <- AllExceptions
    MaxCrashes = 1
    MaxStalls = 1
    MaxRequeues = 1
SYMMETRY WorkerSymmetry
INVARIANTS
    TypeOK
    TranscribesUnderLease
    CompletedHasEvidence
PROPERTIES
    EvidenceByOwner
    VerdictIsStable
CHECK_DEADLOCK FALSE
