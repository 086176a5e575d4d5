SPECIFICATION Spec
CONSTANTS
    Products = {1, 2}
    Rules <- MCRules
    Operations <- MCOperations
    Routed <- MCRouted
    OrderNumbers = {0, 7}
    ShipNumbers = {0, 2}
    Keys = {0, 1}
    MaxItems = 1
    MaxRequests = 5
    Days = 2
CHECK_DEADLOCK FALSE
INVARIANTS
    TypeOK
    GeneratedNumbersAreFree
    NothingHalfDone
