SPECIFICATION Spec
CONSTANTS
    p1 = p1
    p2 = p2
    ra = ra
    rb = rb
    Recordings <- TwoRecordings
    Requests <- TwoRequests
    MaxAttempts = 3
SYMMETRY Symmetry
VIEW ButAnswer
CONSTRAINT FewSealed
INVARIANTS
    TypeOK
    UncontestedIsStored
    UncontestedIsKept
    UncontestedIsAlone
PROPERTIES
    NeverRequeued
CHECK_DEADLOCK FALSE
