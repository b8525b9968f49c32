SPECIFICATION Spec
CONSTANTS
    j1 = j1
    j2 = j2
    c1 = c1
    c2 = c2
    Jobs = {j1}
    Conns = {c1, c2}
    Retry <- MCRetryOne
    Timeouts = {1}
    RetryDelays = {1}
    ScheduleDelays = {1}
    DeadTTL = 1
    Extensions = {2}
    MaxBatch = 1
    SharedScores = FALSE
    MaxTime = 4
    MaxCrashes = 1
    MaxErrs = 1
SYMMETRY Symmetry
PROPERTIES
    ReapOnlyExpired
    FollowsDiagram
