SPECIFICATION FairSpec
CONSTANTS
    NFilters = 2
    QSize = 1
    EarlyTraffic = TRUE
    MaxStarts = 2
    MaxConns = 3
PROPERTIES
    CallsReturn
CHECK_DEADLOCK FALSE
