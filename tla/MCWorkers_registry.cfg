SPECIFICATION FairSpec
CONSTANTS
    c1 = c1
    c2 = c2
    w1 = w1
    Conns = {c1, c2}
    Wids = {w1}
    Wid <- MCWidTwo
    BeatStates = {"", "quiet", "terminate"}
    UiSignals = {"quiet", "terminate"}
    UiRequests = {u1, u2}
    TTL = 1
    MaxTime = 2
CHECK_DEADLOCK FALSE
INVARIANTS
    KnownIsConnected
PROPERTIES
    ForgottenForCause
    NeverUnquiet
    GoneIsForgotten
