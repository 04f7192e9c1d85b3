CONSTANTS
    Tablets = {t1, t2}
    Timestamps <- TwoTimestamps
    MaxEpochs = 2
    MaxDeleted = 1
SPECIFICATION FairSpec
INVARIANTS TypeOK EndIsComplete
PROPERTIES ImplementsAtomicCommit EveryTransactionEnds
CHECK_DEADLOCK FALSE
