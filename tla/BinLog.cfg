SPECIFICATION FairSpec
CONSTANTS
    t1 = t1
    t2 = t2
    d1 = d1
    Threads <- MCThreads
    Dumpers <- MCDumpers
    Purger = Purger
    Nobody = Nobody
    max_size = 1
    MaxEvents = 2
    MaxFiles = 4
    MaxCrashes = 1
    Plans <- MCPlans
INVARIANT IndexWhole
 
PROPERTY CatchesUp
CHECK_DEADLOCK FALSE
