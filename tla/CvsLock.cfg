SPECIFICATION CvsFairSpec
CONSTANTS
    Processes <- MCProcs
    Dirs <- MCDirs
    Commands = {"read", "tree", "dir"}
    UsesLockDir = FALSE
    Faults = {"signal", "kill", "error", "close"}
    Nobody <- MCNobody
INVARIANTS NoTwoWriters 
PROPERTY SomebodyGetsIn
