SPECIFICATION Spec
CONSTANTS
    c1 = c1
    c2 = c2
    w1 = w1
    Conns = {c1, c2}
    Wids = {w1}
    Wid <- MCWidTwo
    BeatStates = {""}
    UiSignals = {"quiet"}
    UiRequests = {u1}
    TTL = 1
    MaxTime = 2
CHECK_DEADLOCK FALSE
PROPERTY
    QuietGetsNoJobs
