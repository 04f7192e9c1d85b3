---------------------------- MODULE ReplicatedLog ----------------------------
(***************************************************************************)
(* What a tablet's Raft configuration promises to the replicas above it:   *)
(* there is one sequence of decided operations, it only grows at its end,  *)
(* and every replica applies a prefix of it, in order. A replica that      *)
(* restarts may forget how far it had got, and then applies again from an  *)
(* earlier point of the same sequence. Only a restart may take it back.    *)
(***************************************************************************)
EXTENDS Sequences, Naturals

CONSTANTS
    Servers,     \* the replicas
    Ops          \* what can be decided

VARIABLES
    decided,     \* the operations decided so far
    applied,     \* what each replica has applied
    restarts     \* how often a replica restarted

IsPrefix(a, b) == Len(a) <= Len(b) /\ a = SubSeq(b, 1, Len(a))

Init ==
    /\ decided = << >>
    /\ applied = [s \in Servers |-> << >>]
    /\ restarts = 0

(***************************************************************************)
(* Further operations are decided, and replicas apply operations that were *)
(* decided before. A follower may apply and its answer decide at once.     *)
(***************************************************************************)
Progress ==
    /\ IsPrefix(decided, decided')
    /\ \A i \in 1 .. Len(decided') : decided'[i] \in Ops
    /\ DOMAIN applied' = Servers
    /\ \A s \in Servers :
          \E n \in Len(applied[s]) .. Len(decided) : applied'[s] = SubSeq(decided, 1, n)
    /\ UNCHANGED restarts

(***************************************************************************)
(* A replica restarts with part of what it had applied.                    *)
(***************************************************************************)
Restart(s) ==
    /\ restarts' = restarts + 1
    /\ \E n \in 0 .. Len(applied[s]) :
          applied' = [applied EXCEPT ![s] = SubSeq(@, 1, n)]
    /\ UNCHANGED decided

Next == Progress \/ \E s \in Servers : Restart(s)

Spec == Init /\ [][Next]_<<decided, applied, restarts>>
==============================================================================
