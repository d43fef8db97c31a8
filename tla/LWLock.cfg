SPECIFICATION FairSpec
CONSTANTS
    p1 = p1
    p2 = p2
    p3 = p3
    Backends <- ThreeBackends
    Locks <- OneLock
    MaxOwed = 1
INVARIANTS
    SemaphoreAccounting
    NoLostWaiter
    OneList
PROPERTIES
    RWSpec
    StarvedOnlyByOthers
