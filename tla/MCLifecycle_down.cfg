SPECIFICATION FairSpec
CONSTANTS
    Periods <- MCPeriods
    Added = {3}
    MaxTasks = 2
    MaxTime = 3
    Signals = {"TERM", "HUP", "TTIN"}
    MaxSignals = 2
CHECK_DEADLOCK FALSE
INVARIANTS
    AtMostTwice
    Punctual
    DownInOrder
    
PROPERTIES
    StopsWhenTold
