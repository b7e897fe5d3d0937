\* Two packets and a cache for one, naive or snr; a fork that elects its relays and
\* loses one while a packet is on its way.
CONSTANTS
    Node = {0, 1, 2, 3, 4}
    Setup <- PassSetups
    InitialHopLimit = 2
    RecentCacheCap = 1
    NoInfo = NoInfo
SPECIFICATION Spec
INVARIANTS
    TypeOK
    RecentWindow
    ForwardedOnce
    HopBudget
    NaiveReaches
    MprCovers
CHECK_DEADLOCK FALSE
