CONSTANTS
    kMax = 7
    MaxTerm = 2
    MaxConfigChanges = 0
    MaxError = 0
    MaxWork = 9
    Writes = {w1, w2}
    CommitWaits = {}
    BeginCommits = {}
    FinalizeCommits = {}
    AbortTxns = {}
    Scanners = {}
    Flushers = {}
SPECIFICATION FairSpec
PROPERTIES
    ReplicatedIsApplied
CHECK_DEADLOCK FALSE
