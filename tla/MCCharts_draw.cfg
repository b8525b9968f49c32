SPECIFICATION Spec
CONSTANTS
    Points <- MCPoints
    MaxPoints = 3
    Days = 3
    Hours = 3
    MaxAnswers = 3
    MaxGraphs = 2
CHECK_DEADLOCK FALSE
INVARIANTS
    WindowIsLatest
    LegendCurrent
    HistoryHonest
