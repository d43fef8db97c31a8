SPECIFICATION Spec
CONSTANTS
    p1 = p1
    p2 = p2
    k1 = k1
    k2 = k2
    k3 = k3
    Checkpointer = ckpt
    Nobody = nobody
    Backends <- MCBackends
    Blocks <- MCBlocks
    MaxLSN = 1
    MaxPins = 1
    Plans <- MCPlans
SYMMETRY MCSymmetry
INVARIANT PagesCurrent
INVARIANT Durable
INVARIANT CleanupSafe
CHECK_DEADLOCK FALSE
