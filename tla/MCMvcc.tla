------------------------------- MODULE MCMvcc -------------------------------
(* The MVCC manager with every caller it admits, on a small instance.       *)
EXTENDS Mvcc, TLC

Symmetry == Permutations(Threads)
=============================================================================
