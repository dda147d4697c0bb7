CONSTANTS
    Poll = Poll
    Apps = {app}
    MaxIn = 1
    MaxOpens = 2
    MaxTriggers = 1
    MaxAsks = 1
    MaxFaults = 0
SPECIFICATION Spec
INVARIANT
    AskSucceeds
CHECK_DEADLOCK FALSE
