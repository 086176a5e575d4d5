SPECIFICATION FairSpec
CONSTANTS
    w1 = w1
    w2 = w2
    Workers = {w1, w2}
    N = 3
    LaneOf <- TwoLanes
    Qty <- TwoLanesQty
    Firsts <- TwoLanesFirsts
    Views <- Counting
    Metered = {1, 3}
    MaxEvents = 6
PROPERTIES
    OrderCompletes
CHECK_DEADLOCK FALSE
