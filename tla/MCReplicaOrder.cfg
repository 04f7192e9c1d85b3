CONSTANTS
    kMax = 8
    MaxTerm = 3
    MaxConfigChanges = 1
    MaxError = 0
    MaxWork = 4
    Writes = {w1, w2}
    CommitWaits = {c1}
    BeginCommits = {b}
    FinalizeCommits = {f}
    AbortTxns = {}
    Scanners = {}
    Flushers = {f1}
SPECIFICATION Spec
SYMMETRY Symmetry
CONSTRAINT WithinMaxWork
INVARIANTS
    TypeOK
    StartOpChecksHold
    AppliesInLogOrder
    DriverMatchesMvcc
CHECK_DEADLOCK FALSE
