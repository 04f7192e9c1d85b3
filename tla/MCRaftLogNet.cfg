SPECIFICATION Spec
CONSTANTS
    Servers = {s1, s2, s3}
    None = None
    StalledAppends = FALSE
    MaxTerm = 2
    MaxLog = 3
    MaxBatch = 2
    MaxTransit = 1
    MaxWork = 0
    MaxConfigs = 1
SYMMETRY Symmetry
CONSTRAINT ConfigsChangeEarly
INVARIANTS
    ConfigMatchesLog
PROPERTIES
    ImplementsReplicatedLog
CHECK_DEADLOCK FALSE
