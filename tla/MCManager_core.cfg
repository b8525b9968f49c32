SPECIFICATION Spec
CONSTANTS
    j1 = j1
    j2 = j2
    c1 = c1
    c2 = c2
    Jobs = {j1, j2}
    Conns = {c1, c2}
    Retry <- MCRetry
    Timeouts = {1}
    RetryDelays = {1}
    ScheduleDelays = {1}
    DeadTTL = 1
    Extensions = {}
    MaxBatch = 1
    SharedScores = FALSE
    MaxTime = 3
    MaxCrashes = 1
    MaxErrs = 0
SYMMETRY Symmetry
INVARIANTS
    TypeOK
    AtMostOneCopy
    Accounted
    AckedIsGone
    DeliveryBudget
    ReservationsAgree
PROPERTIES
    FreshReservation
    FollowsDiagram
