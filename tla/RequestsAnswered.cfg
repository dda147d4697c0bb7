CONSTANTS
    Services = {"controlActuator", "reboot"}
    MaxRequests = 2
    MaxEvents = 1
    MaxSets = 2
    MaxRuns = 2
SPECIFICATION Spec
INVARIANTS
    AnsweredInOrder
    RanAsAsked
    ResultMeansDone
    UsesLiveUnlessRaced
    EventToLatest
PROPERTY
    ImplementsServer
CHECK_DEADLOCK FALSE
