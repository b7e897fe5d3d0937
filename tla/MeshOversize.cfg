\* A packet of the greatest length send accepts.
CONSTANTS
    A = A
    B = B
    C = C
    p1 = p1
    p2 = p2
    Node <- Nodes
    InRange <- LineRange
    TargetPeers <- Nobody
    Destinations <- AToB
    Id = {i1, i2}
    RouteRadius = 2
    MaxLinks = 8
    MaxCost = 65535
    Lossy = FALSE
    MaxStimuli <- Through
    NoEntry = NoEntry
    AddressValue <- Addresses
    PacketId = {p1, p2}
    Length <- AtSendLimit
    FirstForm <- Plain
    MaxRoutePayload = 192
    MaxRelayPayload = 191
    PendingTxMax = 2
    PendingPerDestMax = 2
    FramesPerTxCell = 2
    DataLossy = FALSE
SPECIFICATION FairMeshSpec
PROPERTIES
    QueuedPacketLeaves
CHECK_DEADLOCK FALSE
