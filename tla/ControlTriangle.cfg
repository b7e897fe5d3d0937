\* A direct path and a detour, each lost now and then; two destinations asked for.
CONSTANTS
    A = A
    B = B
    C = C
    D = D
    Node <- FourNodes
    InRange <- TriangleRange
    TargetPeers <- Nobody
    Destinations <- EndToEnd
    Id = {i1, i2}
    RouteRadius = 2
    MaxLinks = 8
    MaxCost = 65535
    Lossy = TRUE
    MaxStimuli <- TriangleTraffic
    NoEntry = NoEntry
SPECIFICATION Spec
SYMMETRY IdSymmetry
INVARIANTS
    HopsVerified
    LinkHandshake
    RouteInv
    LoopFree
    ReverseTree
PROPERTIES
    RequestThrottled
CHECK_DEADLOCK FALSE
