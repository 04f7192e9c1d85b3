CONSTANTS
    Servers = {s1, s2}
    None = None
    Elections = {e1, e2}
    raft_enable_pre_election = TRUE
    MaxTerm = 2
    MaxCrashes = 1
SPECIFICATION FairSpec
INVARIANTS
    TypeOK
    ElectionSafety
    OneVotePerTerm
    NoUnexpectedLeader
    VotesAreDurable
PROPERTIES
    ElectionsEnd
