CONSTANTS
    Programs <- InsertsAndUpdates
    MaxPending = 2
    MaxMerges = 1
    MaxCrashes = 1
    Stalls = {1}
    FinishDuringGC = FALSE
SPECIFICATION Spec
INVARIANTS
    NoLaterOpVisible
CHECK_DEADLOCK FALSE
