\* Nodes around a hub that ask it for links.
CONSTANTS
    A = A
    B = B
    C = C
    D = D
    Node <- FourNodes
    InRange <- HubRange
    TargetPeers <- Neighbours
    Destinations <- Nobody
    Id = {i1}
    RouteRadius = 2
    MaxLinks = 1
    MaxCost = 65535
    Lossy = TRUE
    MaxStimuli <- LinkTraffic
    NoEntry = NoEntry
SPECIFICATION Spec
INVARIANTS
    LinksWithinLimit
CHECK_DEADLOCK FALSE
