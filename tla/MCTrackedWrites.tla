---- MODULE MCTrackedWrites ----
(***************************************************************************)
(* Instances of TrackedWrites for TLC.                                     *)
(***************************************************************************)
EXTENDS TrackedWrites, TLC

CONSTANT MaxWork    \* bound on the work below: many attempts or many faults, not both

TwoWrites == {1, 2}

\* The attempts, terms and faults of a behaviour so far. The second write is
\* only there for the watermark of the client.
Work == sent[1] + 2 * sent[2] + term + 2 * (crashes + gcs)

WithinMaxWork == Work <= MaxWork /\ 2 \notin complete

ServerSymmetry == Permutations(Servers)
====
