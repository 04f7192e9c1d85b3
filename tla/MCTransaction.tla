---- MODULE MCTransaction ----
(***************************************************************************)
(* Instances of Transaction for TLC.                                       *)
(***************************************************************************)
EXTENDS Transaction, TLC

\* Every pair of BEGIN_COMMIT timestamps: equal, and either one later.
TwoTimestamps == {1, 2}

TabletSymmetry == Permutations(Tablets)
====
