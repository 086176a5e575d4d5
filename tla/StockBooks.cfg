SPECIFICATION Spec
CONSTANTS
    main = main
    wip = wip
    lotA = lotA
    Locations = {main, wip}
    Main = main
    Lots = {lotA}
    NoLot = NoLot
    Refs = {"r"}
    Keys = {"", "k"}
    LineLists <- Mixed
    MaxStock = 2
    MaxLot = 2
    MaxActive = 2
INVARIANTS
    TypeOK
    BooksAgree
    ReservationsBacked
PROPERTIES
    PromiseKept
CHECK_DEADLOCK FALSE
