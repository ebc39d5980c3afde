SPECIFICATION Spec
CONSTANTS
    Clients = {1, 2}
    Ops <- TwoTransacts
    OwnXids = {}
    Retriers = {}
    Opener = NoClient
    NoClient = NoClient
    WireCap = 2
    SockCap = 2
    MaxCalls <- TwoCalls
    MaxParts = 1
    MaxAsync = 0
INVARIANTS
    OwnReply
CHECK_DEADLOCK FALSE
