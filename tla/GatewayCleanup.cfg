CONSTANTS
    MaxHandlers = 1
    MaxLosses = 0
    MaxSpurious = 0
    MaxCalls = 4
SPECIFICATION Spec
INVARIANT
    CleanupIsSafe
CHECK_DEADLOCK FALSE
