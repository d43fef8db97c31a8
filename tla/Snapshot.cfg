SPECIFICATION Spec
CONSTANTS
    b1 = b1
    b2 = b2
    b3 = b3
    Backends <- ThreeBackends
    Updaters <- OneUpdater
    Markers <- OneMarker
    Cleaners <- OneCleaner
    MaxXid = 3
CHECK_DEADLOCK FALSE
INVARIANTS
    SnapshotIsPrefix
    NoVersionLost
    KilledUnseen
