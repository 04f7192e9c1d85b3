----------------------------- MODULE TabletStorage -----------------------------
(***************************************************************************)
(* The storage of one tablet replica: the MemRowSet, the DiskRowSets with  *)
(* their DeltaMemStores, flushes and merge compactions, the superblock,    *)
(* the write-ahead log with its garbage collection, and a restart after a  *)
(* crash (Bootstrap).                                                      *)
(*                                                                         *)
(* Threads of the apply pool apply the writes while maintenance threads    *)
(* run one flush or compaction (merge), one flush of a DeltaMemStore       *)
(* (dms_flush) and the log GC. A flush or compaction copies its input as   *)
(* of a snapshot, then swaps in a DuplicatingRowSet, which sends updates   *)
(* to the input and to the output, carries over the updates that came in   *)
(* between, and at last replaces the superblock and the input.             *)
(*                                                                         *)
(* The process, not the machine, crashes: an entry that the log thread     *)
(* wrote survives, an entry still in its queue is lost.                    *)
(***************************************************************************)
EXTENDS Integers, FiniteSetsExt, SequencesExt, Bags

CONSTANTS
    Programs,       \* the sequences of writes that Raft may decide
    MaxPending,     \* bound: writes in flight
    MaxMerges,      \* bound: flushes and compactions
    MaxCrashes,     \* bound: restarts
    Stalls,         \* the writes whose apply task may be overtaken before it starts
    FinishDuringGC  \* whether an op may finish while the log GC looks for its bound

ASSUME StorageAssumption ==
    /\ \A p \in Programs : \A i \in DOMAIN p :
          p[i].type = IF \E j \in 1 .. (i - 1) : p[j].row = p[i].row THEN "UPDATE" ELSE "INSERT"
    /\ MaxPending \in Nat /\ MaxMerges \in Nat /\ MaxCrashes \in Nat
    /\ Stalls \subseteq Nat /\ FinishDuringGC \in BOOLEAN

VARIABLES
    writes,     \* the writes, in the order of their indexes
    wal,        \* the log and its queue; entries up to written are in files
    written,
    op,         \* the op of each write and the components it captured
    mrs,        \* MemRowSets by id
    drs,        \* DiskRowSets by id: files and last as in Bootstrap, and the DMS
    components, \* components_: the MemRowSet, the rowset tree, the DuplicatingRowSet
    meta,       \* TabletMetadata: last durable MemRowSet, rowsets, next rowset id
    super,      \* the superblock on disk
    merge,      \* the flush or compaction that runs
    dms_flush,  \* the flush of a DeltaMemStore that runs
    flushing,   \* the holder of the metadata's flush_lock_
    gc,         \* the log GC: the anchor that it read
    merges, crashes,
    failure     \* what went wrong, "none" otherwise

vars == <<writes, wal, written, op, mrs, drs, components, meta, super, merge, dms_flush,
          flushing, gc, merges, crashes, failure>>

INSTANCE Bootstrap WITH Writes <- writes

MrsIds == 1 .. (MaxMerges + 1)

DrsIds == 1 .. MaxMerges

NoComponents == [mrs |-> 1, tree |-> {}, input |-> {}, output |-> 0]

IdleOp == [st |-> "none", comps |-> NoComponents, stores |-> {}]

NoDrs == [files |-> <<>>, last |-> 0, dms |-> EmptyBag]

IdleMerge == [pc |-> "idle", input |-> {}, output |-> 0, snap |-> {}, late |-> {}, wait |-> 0]

IdleDmsFlush == [pc |-> "idle", id |-> 0, ops |-> {}]

EmptySuperBlock == [mrs |-> 0, rowsets |-> <<>>]

NotFlushing == [by |-> "none", pb |-> EmptySuperBlock, wait |-> 0]

Init ==
    /\ writes \in Programs
    /\ wal = <<>> /\ written = 0
    /\ op = [i \in Ops |-> IdleOp]
    /\ mrs = [k \in MrsIds |-> {}]
    /\ drs = [d \in DrsIds |-> NoDrs]
    /\ components = NoComponents
    /\ meta = [mrs |-> 0, rowsets |-> {}, next |-> 1]
    /\ super = EmptySuperBlock
    /\ merge = IdleMerge /\ dms_flush = IdleDmsFlush /\ flushing = NotFlushing
    /\ gc = 0
    /\ merges = 0 /\ crashes = 0
    /\ failure = "none"

(***************************************************************************)
(* Row sets                                                                *)
(***************************************************************************)
MemRowSet(k) == [kind |-> "mrs", id |-> k]

DiskRowSet(d) == [kind |-> "drs", id |-> d]

\* The stores of a rowset, and the writes whose effects it has.
Stores(r) ==
    IF r.kind = "mrs" THEN <<SetToBag(mrs[r.id])>> ELSE Append(drs[r.id].files, drs[r.id].dms)

Effects(r) == IF r.kind = "mrs" THEN mrs[r.id]
              ELSE InFiles(drs[r.id]) \cup BagToSet(drs[r.id].dms)

Applied(S) == {i \in S : op[i].st = "done"}

Applying == {i \in Ops : op[i].st \in {"applying", "mirroring", "applied"}}

\* MvccManager::WaitForApplyingOpsToApply: the highest op that applies, and the
\* condition that ends the wait for it.
HighestApplying == IF Applying = {} THEN 0 ELSE Max(Applying)

NoneApplying(wait) == \A i \in Applying : i > wait

\* DeltaTracker::Update by each write of S.
DmsUpdated(d, S) == [drs EXCEPT ![d].dms = @ (+) SetToBag(S)]

DmsOf(d) == DmsTarget(d, drs[d].last + 1)

\* DeltaTracker::FlushDMS: the DeltaMemStore becomes a delta file.
DmsFlushed(d) ==
    IF drs[d].dms = EmptyBag THEN drs
    ELSE [drs EXCEPT ![d] = [files |-> Append(@.files, @.dms), last |-> @.last + 1,
                             dms |-> EmptyBag]]

(***************************************************************************)
(* Writes                                                                  *)
(***************************************************************************)
Running == failure = "none"

\* The ops of the OpTracker
Pending == {i \in Ops : op[i].st \notin {"none", "done"}}

\* The REPLICATE of the next write is handed to the log.
Receive(i) ==
    /\ Running
    /\ op[i].st = "none" /\ \A j \in 1 .. (i - 1) : op[j].st # "none"
    /\ Cardinality(Pending) < MaxPending
    /\ wal' = Append(wal, Replicate(i))
    /\ op' = [op EXCEPT ![i].st = "pending"]
    /\ UNCHANGED <<writes, written, mrs, drs, components, meta, super, merge, dms_flush,
                   flushing, gc, merges, crashes, failure>>

\* Tablet::StartApplying, once Raft has committed the write. The locks of its
\* rows are held by an earlier write until that is done.
StartApplying(i) ==
    /\ Running
    /\ op[i].st = "pending"
    /\ \A j \in 1 .. (i - 1) : SameRow(i, j) => op[j].st = "done"
    /\ \A j \in (1 .. (i - 1)) \ Stalls : op[j].st # "pending"
    /\ op' = [op EXCEPT ![i].st = "applying", ![i].comps = components]
    /\ UNCHANGED <<writes, wal, written, mrs, drs, components, meta, super, merge, dms_flush,
                   flushing, gc, merges, crashes, failure>>

\* The rowset of the tree, or the input of its DuplicatingRowSet, with the row.
Holders(i, c) == {r \in c.tree \cup c.input : HasRow(Effects(r), i)}

\* Tablet::InsertOrUpsertUnlocked
InsertRow(i) ==
    LET c == op[i].comps IN
    /\ Running
    /\ op[i].st = "applying" /\ IsInsert(i)
    /\ IF Holders(i, c) # {} \/ HasRow(mrs[c.mrs], i)
       THEN /\ failure' = "key already present"
            /\ UNCHANGED <<op, mrs>>
       ELSE /\ mrs' = [mrs EXCEPT ![c.mrs] = @ \cup {i}]
            /\ op' = [op EXCEPT ![i].st = "applied", ![i].stores = {MrsTarget(c.mrs)}]
            /\ UNCHANGED failure
    /\ UNCHANGED <<writes, wal, written, drs, components, meta, super, merge, dms_flush,
                   flushing, gc, merges, crashes>>

\* Tablet::MutateRowUnlocked. A DuplicatingRowSet updates its input first.
MutateRow(i) ==
    LET c == op[i].comps
        found == IF Holders(i, c) # {} THEN Holders(i, c)
                 ELSE IF HasRow(mrs[c.mrs], i) THEN {MemRowSet(c.mrs)} ELSE {}
        r == CHOOSE r \in found : TRUE
    IN
    /\ Running
    /\ op[i].st = "applying" /\ ~IsInsert(i)
    /\ \/ /\ found = {}
          /\ failure' = "key not found"
          /\ UNCHANGED <<op, mrs, drs>>
       \/ /\ found # {}
          /\ mrs' = IF r.kind = "mrs" THEN [mrs EXCEPT ![r.id] = @ \cup {i}] ELSE mrs
          /\ drs' = IF r.kind = "drs" THEN DmsUpdated(r.id, {i}) ELSE drs
          /\ op' = [op EXCEPT ![i].st = IF r \in c.input THEN "mirroring" ELSE "applied",
                              ![i].stores = {IF r.kind = "mrs" THEN MrsTarget(r.id)
                                             ELSE DmsOf(r.id)}]
          /\ UNCHANGED failure
    /\ UNCHANGED <<writes, wal, written, components, meta, super, merge, dms_flush,
                   flushing, gc, merges, crashes>>

\* The rest of DuplicatingRowSet::MutateRow.
MirrorRow(i) ==
    LET d == op[i].comps.output IN
    /\ Running
    /\ op[i].st = "mirroring"
    /\ IF HasRow(Effects(DiskRowSet(d)), i)
       THEN /\ drs' = DmsUpdated(d, {i})
            /\ op' = [op EXCEPT ![i].st = "applied", ![i].stores = @ \cup {DmsOf(d)}]
            /\ UNCHANGED failure
       ELSE /\ failure' = "not mirrored"
            /\ UNCHANGED <<op, drs>>
    /\ UNCHANGED <<writes, wal, written, mrs, components, meta, super, merge, dms_flush,
                   flushing, gc, merges, crashes>>

\* The rest of OpDriver::ApplyTask: the COMMIT is handed to the log, then MVCC and
\* the row locks are released.
FinishApplying(i) ==
    /\ Running
    /\ gc = 0 \/ FinishDuringGC
    /\ op[i].st = "applied"
    /\ wal' = Append(wal, Commit(i, op[i].stores, FALSE))
    /\ op' = [op EXCEPT ![i] = [IdleOp EXCEPT !.st = "done"]]
    /\ UNCHANGED <<writes, written, mrs, drs, components, meta, super, merge, dms_flush,
                   flushing, gc, merges, crashes, failure>>

(***************************************************************************)
(* Flushes and compactions                                                 *)
(***************************************************************************)
\* The first part of Tablet::FlushUnlocked: ReplaceMemRowSetsUnlocked swaps in a
\* new MemRowSet, and the flush waits for the writes that apply to the old one.
ReplaceMemRowSets ==
    /\ Running
    /\ merge.pc = "idle" /\ merges < MaxMerges
    /\ mrs[components.mrs] # {}
    /\ components' = [components EXCEPT !.mrs = @ + 1,
                                       !.tree = @ \cup {MemRowSet(components.mrs)}]
    /\ merge' = [IdleMerge EXCEPT !.pc = "selected", !.input = {MemRowSet(components.mrs)},
                                  !.wait = HighestApplying]
    /\ merges' = merges + 1
    /\ UNCHANGED <<writes, wal, written, op, mrs, drs, meta, super, dms_flush, flushing, gc,
                   crashes, failure>>

\* Tablet::PickRowSetsToCompact
PickRowSetsToCompact ==
    /\ Running
    /\ merge.pc = "idle" /\ merges < MaxMerges
    /\ \E S \in SUBSET components.tree :
          /\ Cardinality(S) = 2
          /\ merge' = [IdleMerge EXCEPT !.pc = "selected", !.input = S]
    /\ merges' = merges + 1
    /\ UNCHANGED <<writes, wal, written, op, mrs, drs, components, meta, super, dms_flush,
                   flushing, gc, crashes, failure>>

EffectsOf(S) == UNION {Effects(r) : r \in S}

\* The stores of a set of rowsets as one.
Merged(S) ==
    FoldSet(LAMBDA r, b : FoldLeft(LAMBDA c, d : c (+) d, b, Stores(r)), EmptyBag, S)

\* Phase 1 of Tablet::DoMergeCompactionOrFlush: a snapshot is taken and the input
\* written as of it to a new DiskRowSet.
WriteSnapshot ==
    LET snap == Applied(Ops) IN
    /\ Running
    /\ merge.pc = "selected" /\ NoneApplying(merge.wait)
    /\ drs' = [drs EXCEPT ![meta.next] =
                  [NoDrs EXCEPT !.files = <<[i \in EffectsOf(merge.input) \cap snap |->
                                              Merged(merge.input)[i]]>>]]
    /\ meta' = [meta EXCEPT !.next = @ + 1]
    /\ merge' = [merge EXCEPT !.pc = "written", !.output = meta.next, !.snap = snap]
    /\ UNCHANGED <<writes, wal, written, op, mrs, components, super, dms_flush, flushing, gc,
                   merges, crashes, failure>>

NonDuplicatedOpsApplied == Applied(Ops)

\* The ops whose updates may not be in the output: they captured the components
\* before the swap.
NonDuplicatedOps == Applied(Ops) \cup Applying

SwapInDuplicatingRowSet ==
    /\ Running
    /\ merge.pc = "written"
    /\ components' = [components EXCEPT !.tree = @ \ merge.input, !.input = merge.input,
                                       !.output = merge.output]
    /\ merge' = [merge EXCEPT !.pc = "duplicating", !.late = NonDuplicatedOps,
                              !.wait = HighestApplying]
    /\ UNCHANGED <<writes, wal, written, op, mrs, drs, meta, super, dms_flush, flushing, gc,
                   merges, crashes, failure>>

\* The updates of the input that the snapshot lacks and that were not duplicated.
MissedDeltas ==
    EffectsOf(merge.input) \cap (merge.late \ merge.snap)

\* Phase 2: ReupdateMissedDeltas, up to the flush of the output's DeltaMemStore.
ReupdateMissedDeltas ==
    /\ Running
    /\ merge.pc = "duplicating" /\ NoneApplying(merge.wait)
    /\ drs' = DmsUpdated(merge.output, MissedDeltas)
    /\ merge' = [merge EXCEPT !.pc = IF MissedDeltas = {} THEN "reupdated" ELSE "flushing"]
    /\ UNCHANGED <<writes, wal, written, op, mrs, components, meta, super, dms_flush, flushing,
                   gc, merges, crashes, failure>>

FlushMissedDeltas ==
    /\ Running
    /\ merge.pc = "flushing"
    /\ drs' = DmsFlushed(merge.output)
    /\ merge' = [merge EXCEPT !.pc = "reupdated"]
    /\ UNCHANGED <<writes, wal, written, op, mrs, components, meta, super, dms_flush, flushing,
                   gc, merges, crashes, failure>>

Ids(S, kind) == {r.id : r \in {s \in S : s.kind = kind}}

\* TabletMetadata::UpdateUnlocked
UpdateMetadata ==
    /\ Running
    /\ merge.pc = "reupdated"
    /\ meta' = [meta EXCEPT !.rowsets = (@ \ Ids(merge.input, "drs")) \cup {merge.output},
                            !.mrs = Max(Ids(merge.input, "mrs") \cup {@})]
    /\ merge' = [merge EXCEPT !.pc = "metadata"]
    /\ UNCHANGED <<writes, wal, written, op, mrs, drs, components, super, dms_flush, flushing,
                   gc, merges, crashes, failure>>

\* The output takes the place of the DuplicatingRowSet.
SwapInOutput ==
    /\ Running
    /\ merge.pc = "durable"
    /\ components' = [components EXCEPT !.tree = @ \cup {DiskRowSet(merge.output)},
                                       !.input = {}, !.output = 0]
    /\ merge' = IdleMerge
    /\ UNCHANGED <<writes, wal, written, op, mrs, drs, meta, super, dms_flush, flushing, gc,
                   merges, crashes, failure>>

(***************************************************************************)
(* Flushes of DeltaMemStores, which the maintenance thread picks without a *)
(* lock                                                                    *)
(***************************************************************************)
FindBestDMSOrOutput(d) ==
    /\ Running
    /\ dms_flush.pc = "idle"
    /\ DiskRowSet(d) \in components.tree \/ d = components.output
    /\ drs[d].dms # EmptyBag
    /\ dms_flush' = [dms_flush EXCEPT !.pc = "picked", !.id = d]
    /\ UNCHANGED <<writes, wal, written, op, mrs, drs, components, meta, super, merge,
                   flushing, gc, merges, crashes, failure>>

FindBestDMSToFlush(d) ==
    /\ Running
    /\ dms_flush.pc = "idle"
    /\ DiskRowSet(d) \in components.tree /\ drs[d].dms # EmptyBag
    /\ dms_flush' = [dms_flush EXCEPT !.pc = "picked", !.id = d]
    /\ UNCHANGED <<writes, wal, written, op, mrs, drs, components, meta, super, merge, flushing,
                   gc, merges, crashes, failure>>

\* DeltaTracker::Flush, up to the flush of the metadata.
FlushDeltas ==
    LET d == dms_flush.id IN
    /\ Running
    /\ dms_flush.pc = "picked"
    /\ drs' = DmsFlushed(d)
    /\ dms_flush' = IF drs[d].dms = EmptyBag THEN IdleDmsFlush
                    ELSE [dms_flush EXCEPT !.pc = "metadata", !.ops = BagToSet(drs[d].dms)]
    /\ UNCHANGED <<writes, wal, written, op, mrs, components, meta, super, merge, flushing, gc,
                   merges, crashes, failure>>

(***************************************************************************)
(* TabletMetadata::Flush, under flush_lock_                                *)
(***************************************************************************)
ToSuperBlock ==
    [mrs |-> meta.mrs,
     rowsets |-> [d \in meta.rowsets |-> [files |-> drs[d].files, last |-> drs[d].last]]]

BuildSuperBlock(by) ==
    /\ Running
    /\ flushing.by = "none"
    /\ by = "merge" => merge.pc = "metadata"
    /\ by = "dms" => dms_flush.pc = "metadata"
    /\ flushing' = [by |-> by, pb |-> ToSuperBlock, wait |-> HighestApplying]
    /\ UNCHANGED <<writes, wal, written, op, mrs, drs, components, meta, super, merge, dms_flush,
                   gc, merges, crashes, failure>>

\* WaitForInflightsAndFlushLog, then ReplaceSuperBlockUnlocked.
WaitForInflightsAndFlushLog ==
    /\ NoneApplying(flushing.wait)
    /\ written' = Len(wal)

ReplaceSuperBlock ==
    /\ Running
    /\ flushing.by # "none"
    /\ WaitForInflightsAndFlushLog
    /\ super' = flushing.pb
    /\ flushing' = NotFlushing
    /\ merge' = IF flushing.by = "merge" THEN [merge EXCEPT !.pc = "durable"] ELSE merge
    /\ dms_flush' = IF flushing.by = "dms" THEN IdleDmsFlush ELSE dms_flush
    /\ UNCHANGED <<writes, wal, op, mrs, drs, components, meta, gc, merges, crashes, failure>>

(***************************************************************************)
(* Log GC: TabletReplica::GetRetentionIndexes and Log::GC                  *)
(***************************************************************************)
Received == {i \in Ops : op[i].st # "none"}

AnchoredByTree ==
    LET rs == components.tree \cup {MemRowSet(components.mrs)}
    IN  UNION {mrs[k] : k \in Ids(rs, "mrs")}
        \cup UNION {BagToSet(drs[d].dms) : d \in Ids(rs, "drs")}

\* The log anchors of the memory stores, and those of a DeltaMemStore that is
\* flushed until the metadata is.
Anchored ==
    LET rs == components.tree \cup components.input \cup {MemRowSet(components.mrs)}
              \cup (IF components.output = 0 THEN {} ELSE {DiskRowSet(components.output)})
    IN  UNION {mrs[k] : k \in Ids(rs, "mrs")}
        \cup UNION {BagToSet(drs[d].dms) : d \in Ids(rs, "drs")}
        \cup dms_flush.ops

\* The anchors are read before the OpTracker. A GC that they keep from dropping
\* the first entry changes nothing and is left out.
GetEarliestRegisteredLogIndex ==
    /\ Running
    /\ Received # {} /\ gc = 0
    /\ gc' = Min({Max(Received)} \cup Anchored)
    /\ wal[1].type = "REPLICATE" => wal[1].op < gc'
    /\ UNCHANGED <<writes, wal, written, op, mrs, drs, components, meta, super, merge,
                   dms_flush, flushing, merges, crashes, failure>>

\* Whole segments at the head of the log go if all their REPLICATEs are below the
\* bound. The log thread has written its queue by then.
RunLogGC ==
    /\ Running
    /\ gc # 0
    /\ \E n \in 0 .. (Len(wal) - 1) :
          /\ \A k \in 1 .. n : wal[k].type = "REPLICATE" => wal[k].op < Min({gc} \cup Pending)
          /\ wal' = SubSeq(wal, n + 1, Len(wal))
          /\ written' = Len(wal) - n
    /\ gc' = 0
    /\ UNCHANGED <<writes, op, mrs, drs, components, meta, super, merge, dms_flush,
                   flushing, merges, crashes, failure>>

(***************************************************************************)
(* A crash that loses the log's queue behind entry n, and the bootstrap    *)
(***************************************************************************)
Restart(n) ==
    LET entries == SubSeq(wal, 1, n)
        st == PlaySegments(super, entries)
        first == Min({e.op : e \in {f \in Range(entries) : f.type = "REPLICATE"}}
                     \cup {Len(writes) + 1})
        gone == IF \E e \in Range(entries) : e.type = "REPLICATE" THEN 1 .. (first - 1) ELSE {}
        state(i) == CASE i \in gone \cup st.played -> "done"
                      [] i \in st.reps -> "pending"
                      [] OTHER -> "none"
        ids == DOMAIN super.rowsets
    IN
    /\ wal' = st.log /\ written' = Len(st.log)
    /\ op' = [i \in Ops |-> [IdleOp EXCEPT !.st = state(i)]]
    /\ mrs' = [k \in MrsIds |-> IF k = super.mrs + 1 THEN st.mrs ELSE {}]
    /\ drs' = [d \in DrsIds |->
                  IF d \in ids THEN [files |-> super.rowsets[d].files,
                                     last |-> super.rowsets[d].last,
                                     dms |-> SetToBag(st.dms[d])]
                  ELSE NoDrs]
    /\ components' = [NoComponents EXCEPT !.mrs = super.mrs + 1,
                                         !.tree = {DiskRowSet(d) : d \in ids}]
    /\ meta' = [mrs |-> super.mrs, rowsets |-> ids, next |-> Max(ids \cup {0}) + 1]
    /\ merge' = IdleMerge /\ dms_flush' = IdleDmsFlush /\ flushing' = NotFlushing /\ gc' = 0
    /\ failure' = IF st.ok THEN "none" ELSE "bootstrap: Corruption"

Crash ==
    /\ Running
    /\ crashes < MaxCrashes
    /\ crashes' = crashes + 1
    /\ \E n \in written .. Len(wal) : Restart(n)
    /\ UNCHANGED <<writes, super, merges>>

Next ==
    \/ \E i \in Ops :
          Receive(i) \/ StartApplying(i) \/ InsertRow(i) \/ MutateRow(i) \/ MirrorRow(i)
          \/ FinishApplying(i)
    \/ ReplaceMemRowSets \/ PickRowSetsToCompact \/ WriteSnapshot
    \/ SwapInDuplicatingRowSet \/ ReupdateMissedDeltas \/ FlushMissedDeltas
    \/ UpdateMetadata \/ SwapInOutput
    \/ \E d \in DrsIds : FindBestDMSToFlush(d)
    \/ FlushDeltas
    \/ \E by \in {"merge", "dms"} : BuildSuperBlock(by)
    \/ ReplaceSuperBlock
    \/ GetEarliestRegisteredLogIndex \/ RunLogGC
    \/ Crash

Spec == Init /\ [][Next]_vars

(***************************************************************************)
(* Properties                                                              *)
(***************************************************************************)
\* Safety. What a scan sees (the MemRowSet, the rowset tree, the input of a
\* DuplicatingRowSet) has each finished write exactly once, and no write that has
\* not started to apply: whatever flushes, compactions, log GCs and crashes lie in
\* between, a write is neither lost nor applied twice.
EveryOpOnce ==
    Running =>
        LET seen == components.tree \cup components.input \cup {MemRowSet(components.mrs)}
            once(i) == \E r \in seen :
                          /\ i \notin EffectsOf(seen \ {r})
                          /\ \E k \in DOMAIN Stores(r) :
                                /\ CopiesIn(i, Stores(r)[k]) = 1
                                /\ \A l \in DOMAIN Stores(r) \ {k} : ~BagIn(i, Stores(r)[l])
        IN  \A i \in Ops :
                /\ op[i].st = "done" => once(i)
                /\ op[i].st \in {"none", "pending"} => i \notin EffectsOf(seen)

\* Safety. A write that succeeded before a crash succeeds when it is applied again,
\* an update finds its row in exactly one rowset and its copy in the output
\* (CHECK_EQ in DuplicatingRowSet::MutateRow), and bootstrap never finds the log at
\* odds with the superblock (the Corruption statuses of tablet_bootstrap.cc).
NothingFails == failure = "none"

\* Safety. The redo files of a DiskRowSet are in the order of the updates, so that
\* deltas are applied in order on the read path (the comment on phase 2 in
\* Tablet::DoMergeCompactionOrFlush).
RedosInOrder ==
    \A d \in DrsIds : LET fs == Append(drs[d].files, drs[d].dms) IN
        \A k, l \in DOMAIN fs : k < l =>
            \A i \in BagToSet(fs[k]), j \in BagToSet(fs[l]) : SameRow(i, j) => i < j

\* Safety, as bootstrap counts on it: "If a committed replicate message with index Y
\* is missing a commit message, no later committed replicate message (with index >
\* Y) is visible across reboots in the tablet data" (the comment at the end of
\* TabletBootstrap::PlaySegments).
NoLaterOpVisible ==
    LET log == Range(SubSeq(wal, 1, written))
        flushed == UNION {InFiles(super.rowsets[d]) : d \in DOMAIN super.rowsets}
    IN  \A j \in flushed : \A i \in 1 .. (j - 1) :
            Replicate(i) \in log => \E e \in log : e.type = "COMMIT" /\ e.op = i
===============================================================================
