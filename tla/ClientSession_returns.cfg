SPECIFICATION FairSpec
CONSTANTS
    NFilters = 2
    QSize = 1
    EarlyTraffic = FALSE
    MaxStarts = 2
    MaxConns = 3
INVARIANTS
    TypeOK
    Restored
    StopLeavesNothing
PROPERTIES
    CallsReturn
CHECK_DEADLOCK FALSE
