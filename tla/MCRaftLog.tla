------------------------------ MODULE MCRaftLog ------------------------------
EXTENDS RaftLog, TLC

\* The servers are interchangeable: all are voters at first.
Symmetry == Permutations(Servers)

\* A config change is made early enough for a later leader to abort it.
ConfigsChangeEarly ==
    \A s \in Servers : \A i \in DOMAIN srv[s].log :
        srv[s].log[i].voters # {} => srv[s].log[i].term < MaxTerm
==============================================================================
