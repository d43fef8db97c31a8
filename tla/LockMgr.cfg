SPECIFICATION Spec
CONSTANTS
    p1 = p1
    p2 = p2
    p3 = p3
    a = a
    b = b
    Procs <- ThreeProcs
    Tags <- TwoTags
    NumSlots = 2
    Modes <- ReadWrite
    Requests <- SharedAndExclusive
    Xids <- Xact
    MaxProclocks = 5
    MaxHold = 1
    Cancellable <- OneProc
    CreateWhileDangling = FALSE
SYMMETRY ProcSymmetry
INVARIANTS
    
    CountsExact
    GrantKept
    NoMissedWakeup
    NoMissedDeadlock
