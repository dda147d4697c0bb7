CONSTANTS
    Poll = Poll
    Apps = {app}
    MaxIn = 2
    MaxOpens = 1
    MaxTriggers = 2
    MaxAsks = 1
    MaxFaults = 1
SPECIFICATION FairSpec
INVARIANTS
    OwnResponse
    ReportsRise
    CallsWhole
PROPERTIES
    PassersReported
    CleanupReturns
CHECK_DEADLOCK FALSE
