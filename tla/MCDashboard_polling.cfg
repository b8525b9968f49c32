SPECIFICATION FairSpec
CONSTANTS
    r1 = r1
    r2 = r2
    Intervals = {2, 5}
    Default = 5
    Requests = {r1, r2}
    MaxJobs = 1
    MaxEvents = 2
    MaxFaults = 1
CHECK_DEADLOCK FALSE
INVARIANTS
    DrawnOnce
    OnePoller
    LabelHonest
    FailedWithinProcessed
PROPERTIES
    CatchesUp
