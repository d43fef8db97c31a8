SPECIFICATION FairSpec
CONSTANTS
    Threads = {t1, t2, t3}
    Handlers = {t1}
    Locks = {1, 2}
    Delayed = {1}
    MaxLocks = 2
    Requests <- Mixed
    Upgraded = 10
    MaxWriteLockCount = 1
INVARIANTS Exclusive HandlerAlone
PROPERTY Served
