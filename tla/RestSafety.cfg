CONSTANTS
    Models <- ModelSet
    DeviceTemplate <- DeviceTemplates
    Discoverable <- DiscoverableSet
    SensorTypes <- SensorTypeSets
    DriverTemplate <- DriverTemplates
    Uids <- UidSet
    NoModel = "no model"
    GatewayOpen = TRUE
    MaxFaults = 2
    MaxCalls = 3
    MaxPortal = 1
    MaxRestarts = 1
SPECIFICATION Spec
INVARIANTS
    DeviceNotRepeated
    PostsOnKnowledge
    ConfirmedOrRejected
    DuplicateIsKnown
CHECK_DEADLOCK FALSE
