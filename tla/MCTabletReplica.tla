-------------------------- MODULE MCTabletReplica --------------------------
(* One replica on small instances; a cfg chooses the ops and the bounds.     *)
EXTENDS TabletReplica, TLC

CONSTANT
    MaxWork   \* bound on the work below: many terms or many kinds of ops, not both

Symmetry == Permutations(Writes)

Started(ops) == {o \in ops : op[o].stage # "new"}

\* The work of a behaviour so far: the terms and ops, and twice for whatever is
\* not a plain write.
Work ==
    Cardinality(Started(Ops)) + term
        + Cardinality(Started(CommitWaits \cup BeginCommits))
        + 2 * config_changes
        + 2 * Cardinality({w \in Flushers : thread[w].pc # "idle"})

WithinMaxWork == Work <= MaxWork

\* A transaction has its term to itself: the write is in other behaviours.
TxnAlone == Started(Participants) # {} => Started(Writes) = {} /\ term <= 1
=============================================================================
