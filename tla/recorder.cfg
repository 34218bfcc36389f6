\* The bound on generations stops the page.
SPECIFICATION Spec
CONSTANT MaxGeneration = 8
CHECK_DEADLOCK FALSE
INVARIANTS
    MicOnlyInSession
    ReviewIsCurrent
    ConfirmsChosen
