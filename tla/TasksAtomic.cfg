SPECIFICATION Spec
CONSTANTS
    w1 = w1
    w2 = w2
    Workers = {w1, w2}
    N = 3
    LaneOf <- SharedLane
    Qty <- TwoLanesQty
    Firsts <- TwoLanesFirsts
    Views <- Completing
    Metered = {1, 3}
    MaxEvents = 1
SYMMETRY RequestSymmetry
INVARIANTS
    TypeOK
    ActivationEarned
    ConsumedAtMostOnce
    WorkIsAccounted
PROPERTIES
    NeverReplanned
CHECK_DEADLOCK FALSE
