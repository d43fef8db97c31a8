SPECIFICATION FairSpec
CONSTANTS
    w1 = w1
    w2 = w2
    c1 = c1
    c2 = c2
    NoConn = NoConn
    Workers <- TwoWorkers
    Conns <- TwoConns
    MaxWakeups = 1
    SleepIsLong = TRUE
CHECK_DEADLOCK FALSE
INVARIANTS
    IdlersExact
    AllHandled
PROPERTY
    NobodyStuck
