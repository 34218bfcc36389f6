SPECIFICATION Spec
CONSTANTS
    l1 = l1
    l2 = l2
    r1 = r1
    r2 = r2
    r3 = r3
    Learners <- TwoLearners
    Requests <- ThreeRequests
    Steps = 3
    Practice = 2
    Catalogues <- EmptyOrWhole
SYMMETRY Symmetry
INVARIANTS
    StartAnswered
    BaselineInOrder
    RecommendationsBounded
CHECK_DEADLOCK FALSE
