SPECIFICATION FairSpec
CONSTANTS
    w1 = w1
    w2 = w2
    Attempts <- TwoAttempts
    Workers <- TwoWorkers
    MaxAttempts = 2
    StorageRetryLimit = 2
    LlmProvider = "openai"
    Raised <- SttAndOther
    MaxCrashes = 1
    MaxStalls = 0
    MaxRequeues = 1
INVARIANTS
    OneDeliveryAtATime
    OutcomeAgreement
PROPERTIES
    KeepsPromise
    EveryRecordingSettles
CHECK_DEADLOCK FALSE
