SPECIFICATION Spec
CONSTANTS
    Clients = {1, 2}
    Ops <- RpcOps
    OwnXids = {2}
    Retriers = {}
    Opener = NoClient
    NoClient = NoClient
    WireCap = 2
    SockCap = 2
    MaxCalls <- ThreeCalls
    MaxParts = 2
    MaxAsync = 0
INVARIANTS
    OwnReply
    NothingLeftBehind
    MultipartWhole
CHECK_DEADLOCK FALSE
