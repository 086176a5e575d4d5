SPECIFICATION FairSpec
CONSTANTS
    p1 = p1
    p2 = p2
    s1 = s1
    NoMark = NoMark
    Users = {p1, p2, s1}
    Stage <- StageOf
    Supers = {s1}
    Views <- Desks
    Quantity = 1
    MaxUnits = 2
    MaxRequests = 3
INVARIANTS
    ShippedArePacked
    FullItemIsLogged
    PagesAgree
PROPERTIES
    AllShipped
CHECK_DEADLOCK FALSE
