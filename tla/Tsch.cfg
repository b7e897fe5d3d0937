\* A node follows two beacons of another, each on the air for longer than a slot.
CONSTANTS
    A = A
    B = B
    C = C
    InRange <- EbRange
    Node <- Nodes
    Link <- Links
    Cell <- Cells
    HopSequence <- Hops
    SlotDuration = 2
    SlotframeLen = 3
    AirTime = 3
    FramesPerTxCell = 2
    NoSource = NoSource
    NoChannel = NoChannel
    MaxTime = 16
    MaxBeacons <- Beacons
    MaxPackets <- Packets
SPECIFICATION Spec
INVARIANTS
    TypeOK
    ClockSkew
    WakeupOnBoundary
    ResyncBounded
    ListensInOwnSlot
    BroadcastsMove
CHECK_DEADLOCK FALSE
