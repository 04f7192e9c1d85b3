--------------------------- MODULE MCTimeManager ---------------------------
(* The time manager with every caller it admits, on small instances.        *)
EXTENDS TimeManager, TLC

Symmetry == Permutations(Threads)
=============================================================================
