----------------------------- MODULE AtomicCommit -----------------------------
(***************************************************************************)
(* What a multi-row transaction promises its client: the tablets it wrote  *)
(* to agree on one outcome. They all commit at one timestamp, which is at  *)
(* or above the timestamp at which each of them promised to commit, or     *)
(* none commits. The outcome is decided once. To commit needs the promise  *)
(* of every tablet that had taken part when the client asked to commit.    *)
(***************************************************************************)
EXTENDS Naturals

CONSTANTS
    Tablets,      \* the tablets that can take part
    Timestamps    \* the timestamps of their operations

VARIABLES
    outcome,      \* [kind, ts]: what was decided
    fate,         \* fate[p]: [kind, ts], how far tablet p has got
    owed          \* the tablets that had taken part when the end was asked for

Working == [kind |-> "working", ts |-> 0]

Undecided == [kind |-> "undecided", ts |-> 0]

Init ==
    /\ outcome = Undecided
    /\ fate = [p \in Tablets |-> Working]
    /\ owed = {}

\* The client, or the server on its behalf, asks for the end of the transaction.
Ask ==
    /\ outcome = Undecided
    /\ owed' \in SUBSET Tablets
    /\ UNCHANGED <<outcome, fate>>

\* A tablet promises that it will be able to commit.
Promise(p) ==
    /\ fate[p] = Working
    /\ \E t \in Timestamps : fate' = [fate EXCEPT ![p] = [kind |-> "promised", ts |-> t]]
    /\ UNCHANGED <<outcome, owed>>

DecideCommit ==
    /\ outcome = Undecided
    /\ \E t \in Timestamps \cup {0} :
          /\ \A p \in owed : fate[p].kind = "promised" /\ fate[p].ts <= t
          /\ outcome' = [kind |-> "commit", ts |-> t]
    /\ UNCHANGED <<fate, owed>>

\* An abort can be asked for and decided in one step.
DecideAbort ==
    /\ outcome = Undecided
    /\ outcome' = [kind |-> "abort", ts |-> 0]
    /\ owed' \in SUBSET Tablets
    /\ UNCHANGED fate

Commit(p) ==
    /\ outcome.kind = "commit"
    /\ fate[p].kind = "promised" /\ fate[p].ts <= outcome.ts
    /\ fate' = [fate EXCEPT ![p] = [kind |-> "committed", ts |-> outcome.ts]]
    /\ UNCHANGED <<outcome, owed>>

Abort(p) ==
    /\ outcome.kind = "abort"
    /\ fate[p].kind \in {"working", "promised"}
    /\ fate' = [fate EXCEPT ![p] = [kind |-> "aborted", ts |-> 0]]
    /\ UNCHANGED <<outcome, owed>>

Next ==
    \/ Ask \/ DecideCommit \/ DecideAbort
    \/ \E p \in Tablets : Promise(p) \/ Commit(p) \/ Abort(p)

Spec == Init /\ [][Next]_<<outcome, fate, owed>>
===============================================================================
