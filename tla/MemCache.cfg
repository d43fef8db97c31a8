SPECIFICATION Spec
CONSTANTS
    Threads = {t1, t2}
    Keys = {k1, k2}
    Objects = {o1, o2, o3}
    NoObj = NoObj
    Lens = {1, 2}
    MaxCount = 2
    MaxSize = 3
SYMMETRY Symmetry
INVARIANTS CacheConsistent ReferencesExact 
