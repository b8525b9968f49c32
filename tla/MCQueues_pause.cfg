SPECIFICATION FairSpec
CONSTANTS
    p1 = p1
    o1 = o1
    w1 = w1
    j1 = j1
    q1 = q1
    q2 = q2
    Names = {q1, q2}
    Jobs = {j1}
    Producers = {p1}
    Workers = {w1}
    Operators = {o1}
    Orders <- MCOrders
    Ops = {"pause", "resume", "clear", "delete", "look", "flush"}
    MaxOps = 2
    MaxErrs = 1
    MaxCrashes = 1
CHECK_DEADLOCK FALSE
INVARIANTS
    MemoryAgrees
    Registered
PROPERTIES
    PausedIsNotAsked
    ShownIsServed
