\* Two packets, a cache for one, nothing lost.
CONSTANTS
    Node = {0, 1, 2, 3, 4}
    Setup <- NaiveSetup
    InitialHopLimit = 2
    RecentCacheCap = 1
    NoInfo = NoInfo
SPECIFICATION Spec
INVARIANTS
    RebroadcastOnce
CHECK_DEADLOCK FALSE
