SPECIFICATION FairSpec
CONSTANTS
    p1 = p1
    p2 = p2
    m1 = m1
    m2 = m2
    Procs <- TwoProcs
    Messages <- TwoMessages
    MaxBackends = 2
    MAXNUMMESSAGES = 2
    MSGNUMWRAPAROUND = 2
    MaxNesting = 2
INVARIANTS
    NumbersBounded
PROPERTIES
    BroadcastSpec
    IdleReads
