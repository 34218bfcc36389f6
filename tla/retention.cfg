SPECIFICATION FairSpec
CONSTANTS
    w1 = w1
    w2 = w2
    r1 = r1
    r2 = r2
    Recordings <- OwnAndForeign
    Foreign <- OtherProvider
    Workers <- TwoWorkers
    MaxDeleteAttempts = 2
    Raised <- TransientAndPermanent
    MaxCrashes = 1
    MaxStalls = 2
INVARIANTS
    TypeOK
    AuditIsTrue
    KeptUntilDeadline
    CallsAreCounted
PROPERTIES
    OutcomeByLeaseholder
    EveryDeadlineHonoured
CHECK_DEADLOCK FALSE
