CONSTANTS
    Main = Main
    Threads = {Main}
    MaxConnects = 2
    MaxCalls = 0
    MaxPackets = 0
    MaxFaults = 2
    MaxRequests = 1
SPECIFICATION FairSpec
PROPERTIES
    DisconnectReturns
    EventuallyOnline
    RequestsAnswered
CHECK_DEADLOCK FALSE
