CONSTANTS
    Servers = {s1, s2}
    Seqs <- TwoWrites
    MaxAttempts = 3
    MaxTerm = 3
    MaxCrashes = 1
    MaxGCs = 1
    MaxWork = 6
SPECIFICATION Spec
SYMMETRY ServerSymmetry
CONSTRAINT WithinMaxWork
INVARIANTS ExactlyOnce OnlyTheDriverCompletes CachedResponseIsDecided
CHECK_DEADLOCK FALSE
