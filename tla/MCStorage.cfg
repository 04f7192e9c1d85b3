CONSTANTS
    Programs <- InsertsAndUpdates
    MaxPending = 2
    MaxMerges = 3
    MaxCrashes = 2
    Stalls = {}
    FinishDuringGC = FALSE
SPECIFICATION Spec
INVARIANTS
    EveryOpOnce
    
    RedosInOrder
CHECK_DEADLOCK FALSE
