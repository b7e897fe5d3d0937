\* A packet and an echo of the greatest length a frame carries, over a direct path
\* and a detour whose data frames get lost; the queues have room for both.
CONSTANTS
    A = A
    B = B
    C = C
    p1 = p1
    p2 = p2
    Node <- Nodes
    InRange <- TriangleRange
    TargetPeers <- Nobody
    Destinations <- AToC
    Id = {i1}
    RouteRadius = 1
    MaxLinks = 8
    MaxCost = 65535
    Lossy = FALSE
    MaxStimuli <- Relink
    NoEntry = NoEntry
    AddressValue <- Addresses
    PacketId = {p1, p2}
    Length <- AtSealLimit
    FirstForm <- OneEcho
    MaxRoutePayload = 192
    MaxRelayPayload = 191
    PendingTxMax = 2
    PendingPerDestMax = 2
    FramesPerTxCell = 1
    DataLossy = TRUE
SPECIFICATION FairMeshSpec
INVARIANTS
    MeshTypeOK
    PacketProgress
    NonceUnique
PROPERTIES
    Delivers
    QueuedPacketLeaves
CHECK_DEADLOCK FALSE
