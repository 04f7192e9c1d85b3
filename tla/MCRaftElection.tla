--------------------------- MODULE MCRaftElection ---------------------------
(* Leader elections for TLC. Liveness is checked, so symmetry is not used. *)
EXTENDS RaftElection
=============================================================================
