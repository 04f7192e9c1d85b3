SPECIFICATION Spec
CONSTANTS
    Servers = {s1, s2, s3}
    None = None
    StalledAppends = FALSE
    MaxTerm = 3
    MaxLog = 2
    MaxBatch = 2
    MaxTransit = 0
    MaxWork = 1
    MaxConfigs = 0
SYMMETRY Symmetry
INVARIANTS
    TypeOK
    LogMatching
PROPERTIES
    
    ImplementsReplicatedLog
CHECK_DEADLOCK FALSE
