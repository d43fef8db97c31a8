SPECIFICATION NotifyFairSpec
CONSTANTS
    Backends = {b1, b2}
    Clients = {b1, b2}
    Nobody = Nobody
    Plans <- MCPlans
INVARIANTS PendingIsSignalled ListenersReached
PROPERTY Delivered
