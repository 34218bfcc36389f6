SPECIFICATION Spec
CONSTANTS
    w1 = w1
    w2 = w2
    Attempts <- OneAttempt
    Workers <- TwoWorkers
    MaxAttempts = 3
    StorageRetryLimit = 2
    LlmProvider = "openai"
    Raised <- SttAndOther
    MaxCrashes = 0
    MaxStalls = 1
    MaxRequeues = 0
SYMMETRY WorkerSymmetry
PROPERTIES
    CompletedIsFinal
CHECK_DEADLOCK FALSE
