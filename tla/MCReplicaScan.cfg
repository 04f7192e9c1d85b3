CONSTANTS
    kMax = 7
    MaxTerm = 2
    MaxConfigChanges = 0
    MaxError = 0
    MaxWork = 9
    Writes = {w1}
    CommitWaits = {}
    BeginCommits = {b}
    FinalizeCommits = {f}
    AbortTxns = {a}
    Scanners = {s1}
    Flushers = {}
SPECIFICATION Spec
CONSTRAINT TxnAlone
INVARIANTS
    SafeTimePinned
    
CHECK_DEADLOCK FALSE
