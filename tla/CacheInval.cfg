SPECIFICATION Spec
CONSTANTS
    Backends = {b1, b2}
    NoBackend = NoBackend
    Relations = {r1, r2}
    InitRels = {r1}
    Capacity = 2
    MaxVersion = 3
SYMMETRY Symmetry
INVARIANTS
    
    StaleIsPending
    InitFileFresh
