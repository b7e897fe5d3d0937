\* The fork elects its relays, then a packet comes.
CONSTANTS
    Node = {0, 1, 2, 3, 4}
    Setup <- RelaySetup
    InitialHopLimit = 3
    RecentCacheCap = 32
    NoInfo = NoInfo
SPECIFICATION Spec
PROPERTIES
    ElectedForwards
CHECK_DEADLOCK FALSE
