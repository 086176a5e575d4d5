SPECIFICATION RepairSpec
CONSTANTS
    w1 = w1
    w2 = w2
    Workers = {w1, w2}
    N = 2
    LaneOf <- OneLane
    Qty <- OneLaneQty
    Firsts = {1}
    Views <- ManagerAndFloor
    Metered = {1}
    MaxEvents = 0
INVARIANTS
    RowsConsistent
PROPERTIES
    StrandedIsRepaired
CHECK_DEADLOCK FALSE
