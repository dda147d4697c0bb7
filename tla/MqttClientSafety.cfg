CONSTANTS
    Main = Main
    Threads = {Main, Sampler}
    MaxConnects = 2
    MaxCalls = 1
    MaxPackets = 2
    MaxFaults = 2
    MaxRequests = 1
SPECIFICATION Spec
INVARIANTS
    StateTracksLink
    CallbackTracksLink
    OnlineWhenSettled
    OnlineMeansReachable
    OffUnlessRaced
    ValueFailureReported
CHECK_DEADLOCK FALSE
PROPERTY
    ImplementsEvents
