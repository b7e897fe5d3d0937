\* One traffic timer that gives two packets for one peer, no beacon.
CONSTANTS
    p = p
    q = q
    Peer = {p, q}
    OwnCell <- Own
    PeerCell <- Cells
    HopSequence <- Hops
    SlotframeLen = 3
    Message = {"long", "short"}
    Stamped = {"long"}
    DedupKey <- Keys
    FrameLen = 1
    TxBufCap = 2
    ActionsCap = 5
    ConsumedCap = 1
    FramesPerTxCell = 2
    BroadcastsDrained = 1
    None = None
    MaxEvents = 1
    MaxBroadcasts = 1
    MaxWork = 2
SPECIFICATION Spec
INVARIANT SentInPeerSlot
