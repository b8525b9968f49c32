SPECIFICATION Spec
CONSTANTS
    a1 = a1
    a2 = a2
    Jobs = {1, 2}
    Admins = {a1, a2}
    Requests = {"delete", "retry", "kill", "retryall", "killall", "mkill", "mdiscard", "mrequeue", "clear"}
    Place <- MCPlace
    Score <- MCScore
    Type <- MCType
    Filters <- MCFilters
    MaxKeys = 2
    PageSize = 2
    MaxTries <- MCTries
    MaxRequests = 2
    MaxFaults = 1
SYMMETRY Symmetry
CHECK_DEADLOCK FALSE
INVARIANTS
    NoCopies
    NoLoss
PROPERTIES
    OnlyNamed
