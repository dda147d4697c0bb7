CONSTANTS
    Timers = {h1}
    MaxFlips = 1
    MaxClimate = 1
    MaxFaults = 1
    MaxLosses = 1
SPECIFICATION FairSpec
INVARIANT
    DoorFollowsUnlessMissed
PROPERTIES
    StatusRenewed
    ClimateHeals
    DoorSettles
CHECK_DEADLOCK FALSE
