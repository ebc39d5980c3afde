SPECIFICATION FairSpec
CONSTANTS
    Clients = {1, 2}
    Ops <- QueueOps
    OwnXids = {}
    Retriers = {1}
    Opener = 2
    NoClient = NoClient
    WireCap = 1
    SockCap = 2
    MaxCalls <- FourCalls
    MaxParts = 1
    MaxAsync = 1
INVARIANTS
    NoLostWakeup
    ExactlyOnce
PROPERTIES
    RecvReturns
    CallEnds
CHECK_DEADLOCK FALSE
