CONSTANTS
    kMax = 4
    Threads = {w1}
SPECIFICATION Spec
INVARIANTS
    TypeOK
    SnapshotExact
    WaitersMatchLatches
    ApplyingOpsFinished
PROPERTIES
    AppliedIsStable
    SettledBelowCleanTime
CHECK_DEADLOCK FALSE
