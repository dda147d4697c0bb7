CONSTANTS
    MaxHandlers = 2
    MaxLosses = 3
    MaxSpurious = 1
    MaxCalls = 5
SPECIFICATION FairSpec
INVARIANTS
    ReturnMeansCalledBack
    OneConnection
    ReportsWhileConnected
PROPERTY
    EarlyWaitEnds
CHECK_DEADLOCK FALSE
