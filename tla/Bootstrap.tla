------------------------------- MODULE Bootstrap -------------------------------
(***************************************************************************)
(* How a tablet is rebuilt after a crash from its superblock and its       *)
(* write-ahead log (tablet/tablet_bootstrap.cc), as functions on them.     *)
(*                                                                         *)
(* A write that was applied has a COMMIT message in the log which names    *)
(* the memory stores that it went to. It is replayed if one of them was    *)
(* lost in the crash, and skipped if its effect is in files. Writes are    *)
(* replayed in the order of their indexes, up to the first whose COMMIT is *)
(* missing; the rest is left to consensus. What was read is written to a   *)
(* new log, with the stores that the replay used.                          *)
(*                                                                         *)
(* Each write is an INSERT of a row or a later UPDATE of it, and its index *)
(* in the sequence that Raft decides is its name.                          *)
(***************************************************************************)
EXTENDS Integers, FiniteSetsExt, SequencesExt, Bags

CONSTANT Writes     \* the decided writes: a sequence of [row, type]

Ops == DOMAIN Writes

SameRow(i, j) == Writes[i].row = Writes[j].row

IsInsert(i) == Writes[i].type = "INSERT"

\* Whether a store with the effects of S has the row of i.
HasRow(S, i) == \E j \in S : IsInsert(j) /\ SameRow(i, j)

(***************************************************************************)
(* MemStoreTargetPB: a MemRowSet, or a DeltaMemStore of a DiskRowSet. The  *)
(* effects in files are bags of writes: one for the base data and one for  *)
(* each flushed DeltaMemStore, the last of which is last.                  *)
(***************************************************************************)
MrsTarget(id) == [kind |-> "mrs", id |-> id, dms |-> 0]

DmsTarget(id, dms) == [kind |-> "drs", id |-> id, dms |-> dms]

Replicate(i) == [type |-> "REPLICATE", op |-> i]

Commit(i, stores, skip) == [type |-> "COMMIT", op |-> i, stores |-> stores, skip |-> skip]

InFiles(r) == UNION {BagToSet(r.files[k]) : k \in DOMAIN r.files}

(***************************************************************************)
(* FlushedStoresSnapshot, from the superblock sb                           *)
(***************************************************************************)
IsMemStoreActive(sb, t) ==
    IF t.kind = "mrs" THEN t.id > sb.mrs
    ELSE t.id \in DOMAIN sb.rowsets /\ t.dms > sb.rowsets[t.id].last

ActiveStores(sb, c) == {t \in c.stores : IsMemStoreActive(sb, t)}

FilterOperation(sb, c) ==
    CASE c.skip -> "SKIP_PREVIOUSLY_FLUSHED"
      [] ~c.skip /\ Cardinality(ActiveStores(sb, c)) = 0 -> "SKIP_PREVIOUSLY_FLUSHED"
      [] ~c.skip /\ Cardinality(ActiveStores(sb, c)) = 1 -> "NEEDS_REPLAY"
      [] OTHER -> "CORRUPTION"

(***************************************************************************)
(* ReplayState, with the tablet that is rebuilt and the new log            *)
(***************************************************************************)
NewReplayState(sb) ==
    [reps |-> {},                                   \* pending_replicates
     commits |-> {},                                \* pending_commits
     mrs |-> {},                                    \* the MemRowSet
     dms |-> [d \in DOMAIN sb.rowsets |-> {}],      \* the DeltaMemStores
     played |-> {}, log |-> <<>>, ok |-> TRUE]

Corrupt(st) == [st EXCEPT !.ok = FALSE]

\* The rowset to which a write is replayed, "none" if it fails: its COMMIT names
\* the rowsets to look in.
ReplayTarget(sb, st, c) ==
    LET drss == {t.id : t \in {u \in c.stores : u.kind = "drs"}}
        holders == {d \in drss \cap DOMAIN sb.rowsets : HasRow(InFiles(sb.rowsets[d]), c.op)}
        inMrs == HasRow(st.mrs, c.op)
    IN  CASE IsInsert(c.op) -> IF inMrs THEN [kind |-> "none"] ELSE MrsTarget(sb.mrs + 1)
          [] ~IsInsert(c.op) /\ holders # {} ->
                LET d == CHOOSE d \in holders : TRUE IN DmsTarget(d, sb.rowsets[d].last + 1)
          [] OTHER -> IF inMrs THEN MrsTarget(sb.mrs + 1) ELSE [kind |-> "none"]

\* PlayWriteRequest of a replicate with its COMMIT c.
PlayWriteRequest(sb, st, c) ==
    LET t == ReplayTarget(sb, st, c)
        logged(e) == [st EXCEPT !.log = Append(@, e), !.reps = @ \ {c.op},
                                !.commits = @ \ {c}, !.played = @ \cup {c.op}]
    IN  CASE FilterOperation(sb, c) = "SKIP_PREVIOUSLY_FLUSHED" ->
                logged(Commit(c.op, c.stores, TRUE))
          [] FilterOperation(sb, c) = "NEEDS_REPLAY" /\ t.kind = "mrs" ->
                [logged(Commit(c.op, {t}, FALSE)) EXCEPT !.mrs = @ \cup {c.op}]
          [] FilterOperation(sb, c) = "NEEDS_REPLAY" /\ t.kind = "drs" ->
                [logged(Commit(c.op, {t}, FALSE)) EXCEPT !.dms[t.id] = @ \cup {c.op}]
          [] OTHER -> Corrupt(st)

HandleReplicateMessage(st, e) ==
    [st EXCEPT !.log = Append(@, e), !.reps = @ \cup {e.op}]

\* A COMMIT of the first pending replicate is applied, and with it those that
\* wait and follow it without a gap.
HandleCommitMessage(sb, st, c) ==
    LET waiting == {w.op : w \in st.commits}
        run == {i \in waiting : \A j \in (c.op + 1) .. i : j \in waiting}
        next == SetToSortSeq({c} \cup {w \in st.commits : w.op \in run /\ w.op > c.op},
                             LAMBDA a, b : a.op < b.op)
    IN  CASE st.reps = {} \/ c.op < Min(st.reps \cup {c.op + 1}) ->
                IF ActiveStores(sb, c) = {} THEN st ELSE Corrupt(st)
          [] c.op \in st.reps /\ c.op = Min(st.reps) ->
                FoldLeft(LAMBDA s, d : IF s.ok THEN PlayWriteRequest(sb, s, d) ELSE s, st, next)
          [] OTHER -> IF c.op \in st.reps THEN [st EXCEPT !.commits = @ \cup {c}] ELSE Corrupt(st)

HandleEntry(sb, st, e) ==
    CASE ~st.ok -> st
      [] st.ok /\ e.type = "REPLICATE" -> HandleReplicateMessage(st, e)
      [] st.ok /\ e.type = "COMMIT" -> HandleCommitMessage(sb, st, e)

\* PlaySegments. The COMMITs that still wait belong to writes that will be applied
\* again: each must refer to a store that was lost.
PlaySegments(sb, entries) ==
    LET st == FoldLeft(LAMBDA s, e : HandleEntry(sb, s, e), NewReplayState(sb), entries)
    IN  IF \A c \in st.commits : ActiveStores(sb, c) # {} THEN st ELSE Corrupt(st)
===============================================================================
