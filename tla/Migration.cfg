SPECIFICATION Spec
CONSTANTS
    Rows <- MCRows
    Early <- MCEarly
    Kind <- MCKind
    Names <- MCNames
    Name <- MCName
    Strip <- MCStrip
    Ref <- MCRef
    PartOf <- MCPartOf
    MaterialOf <- MCMaterialOf
    ColorMapped <- MCColorMapped
    OfficeNames <- MCOfficeNames
    Phases <- MCPhases
    MaxRuns = 2
    MaxSame = 2
CHECK_DEADLOCK FALSE
INVARIANTS
    MapsAreSound
PROPERTIES
    EveryRowAccounted
    ReRunChangesNothing
