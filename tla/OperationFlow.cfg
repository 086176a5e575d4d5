SPECIFICATION Spec
CONSTANTS
    c1 = c1
    c2 = c2
    cutA = cutA
    cutB = cutB
    asm = asm
    Operations = {cutA, cutB, asm}
    Deps <- Assembly
    Callers = {c1, c2}
    Calls <- ViewsAndServices
    Units = {"w"}
    None = None
    MaxExecs = 1
INVARIANTS
    TypeOK
    CompletedIsRecorded
    NoneLeftWaiting
    WorkIsReleased
CHECK_DEADLOCK FALSE
