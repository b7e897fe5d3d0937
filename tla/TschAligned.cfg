\* Two nodes; a beacon is on the air for half a slot.
CONSTANTS
    A = A
    B = B
    C = C
    InRange <- EbRange
    Node <- Nodes
    Link <- Links
    Cell <- Cells
    HopSequence <- Hops
    SlotDuration = 2
    SlotframeLen = 3
    AirTime = 1
    FramesPerTxCell = 2
    NoSource = NoSource
    NoChannel = NoChannel
    MaxTime = 15
    MaxBeacons <- Beacons
    MaxPackets <- Packets
SPECIFICATION Spec
INVARIANTS
    Aligned
CHECK_DEADLOCK FALSE
