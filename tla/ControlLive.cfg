\* Three nodes in a line over a medium that loses nothing, every kind of stimulus; the
\* cost of a path across saturates.
CONSTANTS
    A = A
    B = B
    C = C
    D = D
    Node <- FourNodes
    InRange <- LineRange
    TargetPeers <- Neighbours
    Destinations <- Across
    Id = {i1, i2}
    RouteRadius = 1
    MaxLinks = 8
    MaxCost = 5
    Lossy = FALSE
    MaxStimuli <- LineTraffic
    NoEntry = NoEntry
SPECIFICATION FairSpec
INVARIANTS
    TypeOK
    RouteInv
PROPERTIES
    RequestAnswered
    DiscoveryAnswered
CHECK_DEADLOCK FALSE
