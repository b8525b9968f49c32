SPECIFICATION FairSpec
CONSTANTS
    p1 = p1
    p2 = p2
    p3 = p3
    x1 = x1
    x2 = x2
    x3 = x3
    Procs = {p1, p2, p3}
    Sockets = {x1, x2, x3}
    InitialCap = 1
    MaxCap = 2
CHECK_DEADLOCK FALSE
INVARIANTS
    OneOwner
    BrokenIsNotReused
PROPERTIES
    SendIsSafe
    ClosedIsDrained
