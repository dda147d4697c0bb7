CONSTANTS
    MaxHandlers = 0
    MaxLosses = 0
    MaxSpurious = 0
    MaxCalls = 2
SPECIFICATION FairSpec
PROPERTY
    GwConnectReturns
CHECK_DEADLOCK FALSE
