---------------------------- MODULE TabletReplica ----------------------------
(***************************************************************************)
(* One tablet replica: how the op drivers (tablet/ops/op_driver.cc), the   *)
(* serial prepare queue, the thread that updates consensus, the apply pool *)
(* and the scans use the MVCC manager (Mvcc.tla) and the time manager      *)
(* (TimeManager.tla) they share.                                           *)
(*                                                                         *)
(* The rest of the Raft configuration is the environment: it makes this    *)
(* replica leader or follower, commits or aborts its pending rounds and,   *)
(* while it is a follower, sends ops, no-ops and heartbeats.               *)
(*                                                                         *)
(* One transaction is open. Its BEGIN_COMMIT reserves an MVCC op that is   *)
(* handed to the transaction and finished by FINALIZE_COMMIT or ABORT_TXN. *)
(***************************************************************************)
EXTENDS Integers, Sequences, FiniteSets

CONSTANTS
    kMax,               \* bound: the clock and the timestamps stay below it
    MaxTerm,            \* bound on the term
    MaxConfigChanges,   \* bound on the config changes
    MaxError,           \* how far NowLatest() is ahead of Now()
    Writes,             \* the CLIENT_PROPAGATED writes
    CommitWaits,        \* the COMMIT_WAIT writes
    BeginCommits, FinalizeCommits, AbortTxns,  \* the participant ops
    Scanners,           \* threads that scan at a snapshot
    Flushers            \* threads that wait for applying ops before a flush

Participants == BeginCommits \cup FinalizeCommits \cup AbortTxns
Ops          == Writes \cup CommitWaits \cup Participants
MvccOps      == Writes \cup CommitWaits \cup BeginCommits   \* those that StartOp
NoOne        == "none"

\* An op is of one kind and a thread waits for one thing.
ASSUME ReplicaAssumption ==
    /\ kMax \in Nat /\ kMax > 1
    /\ {MaxTerm, MaxConfigChanges, MaxError} \subseteq Nat
    /\ Writes \cap CommitWaits = {}
    /\ (Writes \cup CommitWaits) \cap Participants = {}
    /\ BeginCommits \cap (FinalizeCommits \cup AbortTxns) = {}
    /\ FinalizeCommits \cap AbortTxns = {}
    /\ NoOne \notin Participants
    /\ Scanners \cap Flushers = {}

VARIABLES
    \* MvccManager
    cur_snap, ops_in_flight, lower_bound, earliest, open, closing, waiters, thread,
    applied, aborted,
    \* TimeManager
    clock, mode, last_serial, last_safe, safe_waiters, reader,
    \* RaftConsensus, as far as the drivers see it
    role, term, ready, pending, committed, config_changes,
    leader_noop,    \* the last term whose NO_OP is in the log
    \* the drivers and the threads that run them
    op, prepare_queue, prepare_thread, consensus_thread, prev_idx,
    txn,            \* the Txn of the participant ops
    view            \* what each scan returned

M  == INSTANCE Mvcc WITH Threads <- Scanners \cup Flushers
TM == INSTANCE TimeManager WITH Threads <- Scanners, HeartbeatSkew <- 0

mvccVars == <<cur_snap, ops_in_flight, lower_bound, earliest, open, closing, waiters,
              thread, applied, aborted>>
timeVars == <<clock, mode, last_serial, last_safe, safe_waiters, reader>>
raftVars == <<role, term, ready, pending, committed, config_changes, leader_noop>>
opVars   == <<op, prepare_queue, prepare_thread, consensus_thread, prev_idx, txn>>
vars     == <<mvccVars, timeVars, raftVars, opVars, view>>

Timestamps == 1 .. (kMax - 1)

GetMessageConsistencyMode(o) ==
    IF o \in CommitWaits THEN "COMMIT_WAIT" ELSE "CLIENT_PROPAGATED"

\* A round of PendingRounds: an op's, or one that only consensus knows.
OpRound(o)       == [kind |-> "OP", op |-> o]
NoOpRound(ts)    == [kind |-> "NO_OP", ts |-> ts]
ConfigRound(ts)  == [kind |-> "CHANGE_CONFIG", ts |-> ts]
RoundTs(r)       == IF r.kind = "OP" THEN op[r.op].ts ELSE r.ts
RoundMode(r)     == IF r.kind = "OP" THEN GetMessageConsistencyMode(r.op)
                    ELSE "CLIENT_PROPAGATED"
NextIndex        == committed + Len(pending) + 1

Idle == [pc |-> "idle"]

Init ==
    /\ M!Init
    /\ TM!Init
    /\ role = "FOLLOWER" /\ term = 0 /\ ready = FALSE
    /\ pending = <<>> /\ committed = 0 /\ config_changes = 0 /\ leader_noop = 0
    /\ op = [o \in Ops |-> [stage |-> "new", ts |-> 0, term |-> 0, idx |-> 0,
                            repl |-> "NOT_REPLICATING", prep |-> "NOT_PREPARED",
                            commit_ts |-> 0]]
    /\ prepare_queue = <<>>
    /\ prepare_thread = Idle
    /\ consensus_thread = Idle
    /\ prev_idx = 0
    /\ txn = [state |-> "OPEN", commit_op |-> 0, commit_ts |-> 0, lock |-> NoOne]
    /\ view = [w \in Scanners |-> <<>>]

-----------------------------------------------------------------------------
(***************************************************************************)
(* OpDriver                                                                *)
(***************************************************************************)
Unlocked(o) == IF txn.lock = o THEN [txn EXCEPT !.lock = NoOne] ELSE txn

\* What the coordinator sends: FINALIZE_COMMIT carries the greatest BEGIN_COMMIT
\* timestamp of the participants, so at least this replica's.
FinalizeTimestamps(o) ==
    IF o \in FinalizeCommits
    THEN {t \in Timestamps : \E b \in BeginCommits : op[b].repl = "REPLICATED" /\ t >= op[b].ts}
    ELSE {0}

\* ExecuteAsync() of a client's op: CheckLeadershipAndBindTerm, then the prepare
\* queue. A refused op leaves no trace.
ExecuteAsync(o) ==
    /\ op[o].stage = "new"
    /\ role = "LEADER" /\ ready
    /\ \E cts \in FinalizeTimestamps(o) :
          op' = [op EXCEPT ![o] = [@ EXCEPT !.stage = "driven", !.term = term,
                                            !.commit_ts = cts]]
    /\ prepare_queue' = Append(prepare_queue, [kind |-> "PREPARE", op |-> o])
    /\ UNCHANGED <<mvccVars, timeVars, raftVars, prepare_thread, consensus_thread,
                   prev_idx, txn, view>>

ValidateOp(o) ==
    CASE o \in BeginCommits    -> txn.state = "OPEN"
      [] o \in FinalizeCommits -> txn.state = "COMMIT_IN_PROGRESS"
      [] o \in AbortTxns       -> txn.state \in {"OPEN", "COMMIT_IN_PROGRESS"}
      [] OTHER                 -> TRUE

AtHead(kind) ==
    /\ prepare_thread.pc = "idle"
    /\ prepare_queue # <<>>
    /\ Head(prepare_queue).kind = kind

\* op_->Prepare() failed, or the op's deadline passed in the queue. Only a
\* client's op has a deadline; a replicated one may not fail.
PrepareFails ==
    /\ AtHead("PREPARE")
    /\ LET o == Head(prepare_queue).op
       IN  /\ op[o].repl = "NOT_REPLICATING"
           /\ op' = [op EXCEPT ![o].stage = "failed"]
    /\ prepare_queue' = Tail(prepare_queue)
    /\ UNCHANGED <<mvccVars, timeVars, raftVars, prepare_thread, consensus_thread,
                   prev_idx, txn, view>>

\* Mutant: the replication state is not looked at again once prepared.
PrepareNext_AssumesReplicating(o) ==
    IF op[o].repl = "NOT_REPLICATING" THEN [pc |-> "assign", op |-> o] ELSE Idle

\* Where Prepare() goes with the replication state it read under lock_.
PrepareNext(o) ==
    CASE op[o].repl = "NOT_REPLICATING" -> [pc |-> "assign", op |-> o]
      [] op[o].repl = "REPLICATING"     -> Idle
      [] OTHER                          -> [pc |-> "apply", op |-> o]

\* PrepareTask(): a participant op waits for the transaction's lock, and a
\* leader's FINALIZE_COMMIT moves the clock to its commit timestamp, which fails
\* on a replica that is no longer leader.
Prepare ==
    /\ AtHead("PREPARE")
    /\ LET o == Head(prepare_queue).op
           bumps == o \in FinalizeCommits /\ op[o].repl = "NOT_REPLICATING"
       IN  /\ o \in Participants => txn.lock = NoOne
           /\ ValidateOp(o)
           /\ IF bumps
              THEN TM!UpdateClockAndLastAssignedTimestamp(op[o].commit_ts)
              ELSE UNCHANGED timeVars
           /\ IF bumps /\ mode = "NON_LEADER"
              THEN /\ op' = [op EXCEPT ![o].stage = "failed"]
                   /\ UNCHANGED <<prepare_thread, txn>>
              ELSE /\ op' = [op EXCEPT ![o].prep = "PREPARED"]
                   /\ prepare_thread' = PrepareNext(o)
                   /\ txn' = IF o \in Participants THEN [txn EXCEPT !.lock = o] ELSE txn
    /\ prepare_queue' = Tail(prepare_queue)
    /\ UNCHANGED <<mvccVars, raftVars, consensus_thread, prev_idx, view>>

\* Mutant: the MVCC op is left in flight.
HandleFailure_LeavesMvccOp(o) == UNCHANGED mvccVars /\ txn' = Unlocked(o)

\* The op's MVCC op is aborted if it has one, and the driver is released.
HandleFailure(o) ==
    /\ IF o \in MvccOps /\ op[o].ts \in M!InFlight /\ op[o].stage # "mvcc_aborted"
       THEN M!AbortOp(op[o].ts)
       ELSE UNCHANGED mvccVars
    /\ txn' = Unlocked(o)

AssignTimestamp ==
    /\ prepare_thread.pc = "assign"
    /\ LET o == prepare_thread.op
       IN  IF mode = "LEADER"
           THEN \E t \in Timestamps :
                   /\ TM!AssignTimestamp(GetMessageConsistencyMode(o), t)
                   /\ op' = [op EXCEPT ![o].ts = t]
                   /\ prepare_thread' = [pc |-> "start", op |-> o]
                   /\ UNCHANGED <<mvccVars, txn>>
           ELSE /\ HandleFailure(o)
                /\ op' = [op EXCEPT ![o].stage = "failed"]
                /\ prepare_thread' = Idle
                /\ UNCHANGED timeVars
    /\ UNCHANGED <<raftVars, prepare_queue, consensus_thread, prev_idx, view>>

\* op_->Start() and the move to REPLICATING.
Start ==
    /\ prepare_thread.pc = "start"
    /\ LET o == prepare_thread.op
       IN  /\ IF o \in MvccOps THEN M!StartOp(op[o].ts) ELSE UNCHANGED mvccVars
           /\ op' = [op EXCEPT ![o].repl = "REPLICATING"]
           /\ prepare_thread' = [pc |-> "replicate", op |-> o]
    /\ UNCHANGED <<timeVars, raftVars, prepare_queue, consensus_thread, prev_idx, txn, view>>

\* RaftConsensus::Replicate() refuses an op that was bound to another term.
CheckBoundTerm(o) == role = "LEADER" /\ op[o].term = term

\* Replicate() takes the locks of RaftConsensus: the consensus thread is idle.
Replicate ==
    /\ prepare_thread.pc = "replicate"
    /\ consensus_thread.pc = "idle"
    /\ prepare_thread' = Idle
    /\ LET o == prepare_thread.op
       IN  IF CheckBoundTerm(o)
           THEN /\ pending' = Append(pending, OpRound(o))
                /\ op' = [op EXCEPT ![o].idx = NextIndex]
                /\ TM!AdvanceSafeTimeWithMessage(GetMessageConsistencyMode(o), op[o].ts)
                /\ UNCHANGED <<mvccVars, txn>>
           ELSE /\ HandleFailure(o)
                /\ op' = [op EXCEPT ![o].stage = "failed", ![o].repl = "REPLICATION_FAILED"]
                /\ UNCHANGED <<timeVars, pending>>
    /\ UNCHANGED <<role, term, ready, committed, config_changes, leader_noop, prepare_queue,
                   consensus_thread, prev_idx, view>>

\* ApplyAsync() advances the lower bound on new ops, except for COMMIT_WAIT.
MvccOfApplyAsync(o) ==
    IF o \in CommitWaits THEN UNCHANGED mvccVars ELSE M!AdjustNewOpLowerBound(op[o].ts)

ApplyAsync(o) ==
    IF op[o].repl = "REPLICATED"
    THEN /\ prev_idx' = op[o].idx
         /\ MvccOfApplyAsync(o)
         /\ op' = [op EXCEPT ![o].stage = "submitted"]
         /\ UNCHANGED txn
    ELSE /\ HandleFailure(o)
         /\ op' = [op EXCEPT ![o].stage = "failed"]
         /\ UNCHANGED prev_idx

PrepareThreadApplies ==
    /\ prepare_thread.pc = "apply"
    /\ ApplyAsync(prepare_thread.op)
    /\ prepare_thread' = Idle
    /\ UNCHANGED <<timeVars, raftVars, prepare_queue, consensus_thread, view>>

\* The task that FinishConsensusOnlyRound() queued for a committed NO_OP.
AdjustLowerBound ==
    /\ AtHead("LOWER_BOUND")
    /\ M!AdjustNewOpLowerBound(Head(prepare_queue).ts)
    /\ prepare_queue' = Tail(prepare_queue)
    /\ UNCHANGED <<timeVars, raftVars, op, prepare_thread, consensus_thread, prev_idx,
                   txn, view>>

-----------------------------------------------------------------------------
(***************************************************************************)
(* ApplyTask(), on the apply pool: the tasks of several ops run at once.   *)
(***************************************************************************)
ApplyWrite(o) ==
    /\ o \in Writes \cup CommitWaits
    /\ op[o].stage = "submitted"
    /\ M!StartApplyingOp(op[o].ts)
    /\ op' = [op EXCEPT ![o].stage = "applying"]
    /\ UNCHANGED <<timeVars, raftVars, prepare_queue, prepare_thread, consensus_thread,
                   prev_idx, txn, view>>

\* CommitWait() blocks until the clock is past the op's timestamp.
FinishWrite(o) ==
    /\ o \in Writes \cup CommitWaits
    /\ op[o].stage = "applying"
    /\ o \in CommitWaits => clock > op[o].ts
    /\ M!FinishApplyingOp(op[o].ts)
    /\ op' = [op EXCEPT ![o].stage = "applied"]
    /\ UNCHANGED <<timeVars, raftVars, prepare_queue, prepare_thread, consensus_thread,
                   prev_idx, txn, view>>

\* The MVCC op stays RESERVED and is handed to the transaction.
ApplyBeginCommit(o) ==
    /\ o \in BeginCommits
    /\ op[o].stage = "submitted"
    /\ txn' = [Unlocked(o) EXCEPT !.state = "COMMIT_IN_PROGRESS", !.commit_op = op[o].ts]
    /\ op' = [op EXCEPT ![o].stage = "applied"]
    /\ UNCHANGED <<mvccVars, timeVars, raftVars, prepare_queue, prepare_thread,
                   consensus_thread, prev_idx, view>>

ApplyFinalizeCommit(o) ==
    /\ o \in FinalizeCommits
    /\ op[o].stage = "submitted"
    /\ M!StartApplyingOp(txn.commit_op)
    /\ op' = [op EXCEPT ![o].stage = "applying"]
    /\ UNCHANGED <<timeVars, raftVars, prepare_queue, prepare_thread, consensus_thread,
                   prev_idx, txn, view>>

FinishFinalizeCommit(o) ==
    /\ o \in FinalizeCommits
    /\ op[o].stage = "applying"
    /\ M!FinishApplyingOp(txn.commit_op)
    /\ txn' = [Unlocked(o) EXCEPT !.state = "COMMITTED", !.commit_ts = op[o].commit_ts]
    /\ op' = [op EXCEPT ![o].stage = "applied"]
    /\ UNCHANGED <<timeVars, raftVars, prepare_queue, prepare_thread, consensus_thread,
                   prev_idx, view>>

ApplyAbortTxn(o) ==
    /\ o \in AbortTxns
    /\ op[o].stage = "submitted"
    /\ IF txn.commit_op # 0 THEN M!AbortOp(txn.commit_op) ELSE UNCHANGED mvccVars
    /\ txn' = [Unlocked(o) EXCEPT !.state = "ABORTED"]
    /\ op' = [op EXCEPT ![o].stage = "applied"]
    /\ UNCHANGED <<timeVars, raftVars, prepare_queue, prepare_thread, consensus_thread,
                   prev_idx, view>>

ApplyStep(o) ==
    \/ ApplyWrite(o)
    \/ FinishWrite(o)
    \/ ApplyBeginCommit(o)
    \/ ApplyFinalizeCommit(o)
    \/ FinishFinalizeCommit(o)
    \/ ApplyAbortTxn(o)

-----------------------------------------------------------------------------
(***************************************************************************)
(* The thread that holds the locks of RaftConsensus. pc is                 *)
(*   "finish"   in ReplicationFinished() of op, with status ok;            *)
(*   "apply"    past it, at its ApplyAsync();                              *)
(*   "aborting" in AbortOpsAfter(), with the rounds still to abort;        *)
(*   "noop", "noop_append"                in BecomeLeaderUnlocked();       *)
(*   "config_refresh", "config_append"    in ReplicateConfigChangeUnlocked.*)
(***************************************************************************)
ConsensusIdle == consensus_thread.pc = "idle"

\* A committed NO_OP queues a move of the MVCC lower bound, behind the ops of the
\* earlier terms that are still to be prepared.
FinishConsensusOnlyRound(r) ==
    prepare_queue' = IF r.kind = "NO_OP"
                     THEN Append(prepare_queue, [kind |-> "LOWER_BOUND", ts |-> r.ts])
                     ELSE prepare_queue

\* Mutant: the lower bound moves at once, on the consensus thread.
CommitRound_MovesLowerBound ==
    /\ ConsensusIdle
    /\ pending # <<>>
    /\ LET r == Head(pending)
       IN  /\ TM!AdvanceSafeTimeWithMessage(RoundMode(r), RoundTs(r))
           /\ IF r.kind = "OP"
              THEN /\ consensus_thread' = [pc |-> "finish", op |-> r.op, ok |-> TRUE,
                                           rest |-> <<>>]
                   /\ UNCHANGED mvccVars
              ELSE /\ M!AdjustNewOpLowerBound(r.ts)
                   /\ UNCHANGED consensus_thread
    /\ pending' = Tail(pending)
    /\ committed' = committed + 1
    /\ UNCHANGED <<role, term, ready, config_changes, leader_noop, op, prepare_queue,
                   prepare_thread, prev_idx, txn, view>>

\* AdvanceCommittedIndex(), one round at a time.
CommitRound ==
    /\ ConsensusIdle
    /\ pending # <<>>
    /\ LET r == Head(pending)
       IN  /\ TM!AdvanceSafeTimeWithMessage(RoundMode(r), RoundTs(r))
           /\ IF r.kind = "OP"
              THEN /\ consensus_thread' = [pc |-> "finish", op |-> r.op, ok |-> TRUE,
                                           rest |-> <<>>]
                   /\ UNCHANGED prepare_queue
              ELSE /\ FinishConsensusOnlyRound(r)
                   /\ UNCHANGED consensus_thread
    /\ pending' = Tail(pending)
    /\ committed' = committed + 1
    /\ UNCHANGED <<mvccVars, role, term, ready, config_changes, leader_noop, op, prepare_thread,
                   prev_idx, txn, view>>

\* Another replica leads, and its NO_OP has not, or has, reached this one.
NewLeader == role = "FOLLOWER" /\ leader_noop < term
Following == role = "FOLLOWER" /\ leader_noop = term /\ term > 0

\* A new leader's log replaces the last pending rounds: AbortOpsAfter().
AbortOpsAfter ==
    /\ ConsensusIdle
    /\ NewLeader
    /\ \E k \in 0 .. (Len(pending) - 1) :
          /\ consensus_thread' = [pc |-> "aborting", rest |-> SubSeq(pending, k + 1, Len(pending))]
          /\ pending' = SubSeq(pending, 1, k)
    /\ UNCHANGED <<mvccVars, timeVars, role, term, ready, committed, config_changes, leader_noop, op,
                   prepare_queue, prepare_thread, prev_idx, txn, view>>

Aborting(rest) == IF rest = <<>> THEN Idle ELSE [pc |-> "aborting", rest |-> rest]

\* AbortPrepare() of a write aborts its MVCC op before the driver's state moves.
AbortRound ==
    /\ consensus_thread.pc = "aborting"
    /\ LET r == Head(consensus_thread.rest)
           rest == Tail(consensus_thread.rest)
       IN  IF r.kind = "OP"
           THEN /\ consensus_thread' = [pc |-> "finish", op |-> r.op, ok |-> FALSE, rest |-> rest]
                /\ IF r.op \in Writes \cup CommitWaits
                   THEN /\ M!AbortOp(op[r.op].ts)
                        /\ op' = [op EXCEPT ![r.op].stage = "mvcc_aborted"]
                   ELSE UNCHANGED <<mvccVars, op>>
           ELSE /\ consensus_thread' = Aborting(rest)
                /\ UNCHANGED <<mvccVars, op>>
    /\ UNCHANGED <<timeVars, raftVars, prepare_queue, prepare_thread, prev_idx, txn, view>>

\* Mutant: the apply does not wait for the prepare.
ReplicationFinished_AlwaysApplies ==
    /\ consensus_thread.pc = "finish"
    /\ LET o == consensus_thread.op
       IN  /\ op' = [op EXCEPT ![o].repl = IF consensus_thread.ok THEN "REPLICATED"
                                           ELSE "REPLICATION_FAILED"]
           /\ consensus_thread' = [consensus_thread EXCEPT !.pc = "apply"]
    /\ UNCHANGED <<mvccVars, timeVars, raftVars, prepare_queue, prepare_thread, prev_idx,
                   txn, view>>

\* The state moves and prepare_state_ is copied under the driver's lock_.
ReplicationFinished ==
    /\ consensus_thread.pc = "finish"
    /\ LET o == consensus_thread.op
       IN  /\ op' = [op EXCEPT ![o].repl = IF consensus_thread.ok THEN "REPLICATED"
                                           ELSE "REPLICATION_FAILED"]
           /\ consensus_thread' = IF op[o].prep = "PREPARED"
                                  THEN [consensus_thread EXCEPT !.pc = "apply"]
                                  ELSE Aborting(consensus_thread.rest)
    /\ UNCHANGED <<mvccVars, timeVars, raftVars, prepare_queue, prepare_thread, prev_idx,
                   txn, view>>

ConsensusThreadApplies ==
    /\ consensus_thread.pc = "apply"
    /\ ApplyAsync(consensus_thread.op)
    /\ consensus_thread' = Aborting(consensus_thread.rest)
    /\ UNCHANGED <<timeVars, raftVars, prepare_queue, prepare_thread, view>>

-----------------------------------------------------------------------------
\* BecomeLeaderUnlocked(): the queue and the time manager go to leader mode, then
\* a NO_OP asserts the leadership; client ops are refused until it is appended.
BecomeLeader ==
    /\ ConsensusIdle
    /\ role = "FOLLOWER"
    /\ term < MaxTerm
    /\ role' = "LEADER"
    /\ term' = term + 1
    /\ TM!SetLeaderMode
    /\ consensus_thread' = [pc |-> "noop"]
    /\ UNCHANGED <<mvccVars, ready, pending, committed, config_changes, leader_noop, op, prepare_queue,
                   prepare_thread, prev_idx, txn, view>>

AssignNoOp ==
    /\ consensus_thread.pc = "noop"
    /\ \E t \in Timestamps :
          /\ TM!AssignTimestamp("CLIENT_PROPAGATED", t)
          /\ consensus_thread' = [pc |-> "noop_append", ts |-> t]
    /\ UNCHANGED <<mvccVars, raftVars, op, prepare_queue, prepare_thread, prev_idx, txn, view>>

AppendNoOp ==
    /\ consensus_thread.pc = "noop_append"
    /\ TM!AdvanceSafeTimeWithMessage("CLIENT_PROPAGATED", consensus_thread.ts)
    /\ pending' = Append(pending, NoOpRound(consensus_thread.ts))
    /\ ready' = TRUE
    /\ leader_noop' = term
    /\ consensus_thread' = Idle
    /\ UNCHANGED <<mvccVars, role, term, committed, config_changes, op, prepare_queue,
                   prepare_thread, prev_idx, txn, view>>

\* Mutant: the replica that stepped down still takes client ops.
BecomeReplica_StaysReady ==
    /\ ConsensusIdle
    /\ term < MaxTerm
    /\ term' = term + 1
    /\ role' = "FOLLOWER"
    /\ IF role = "LEADER" THEN TM!SetNonLeaderMode ELSE UNCHANGED timeVars
    /\ UNCHANGED <<mvccVars, ready, pending, committed, config_changes, leader_noop, opVars, view>>

\* A higher term, seen or asked for (StepDown): HandleTermAdvanceUnlocked().
BecomeReplica ==
    /\ ConsensusIdle
    /\ term < MaxTerm
    /\ term' = term + 1
    /\ role' = "FOLLOWER"
    /\ ready' = FALSE
    /\ IF role = "LEADER" THEN TM!SetNonLeaderMode ELSE UNCHANGED timeVars
    /\ UNCHANGED <<mvccVars, pending, committed, config_changes, leader_noop, opVars, view>>

\* ReplicateConfigChangeUnlocked(): a timestamp is assigned on this thread, not on
\* the prepare thread; AddPendingOperationUnlocked() then refreshes the queue and
\* the peers, which puts the time manager into leader mode again. It needs a
\* committed op of the term and no other change pending.
ReplicateConfigChange ==
    /\ ConsensusIdle
    /\ role = "LEADER" /\ ready
    /\ config_changes < MaxConfigChanges
    /\ \A i \in DOMAIN pending : pending[i].kind = "OP"
    /\ config_changes' = config_changes + 1
    /\ \E t \in Timestamps :
          /\ TM!AssignTimestamp("CLIENT_PROPAGATED", t)
          /\ consensus_thread' = [pc |-> "config_refresh", ts |-> t]
    /\ UNCHANGED <<mvccVars, role, term, ready, pending, committed, leader_noop, op,
                   prepare_queue, prepare_thread, prev_idx, txn, view>>

RefreshConsensusQueueAndPeers ==
    /\ consensus_thread.pc = "config_refresh"
    /\ TM!SetLeaderMode
    /\ consensus_thread' = [consensus_thread EXCEPT !.pc = "config_append"]
    /\ UNCHANGED <<mvccVars, raftVars, op, prepare_queue, prepare_thread, prev_idx, txn, view>>

AppendConfigChange ==
    /\ consensus_thread.pc = "config_append"
    /\ TM!AdvanceSafeTimeWithMessage("CLIENT_PROPAGATED", consensus_thread.ts)
    /\ pending' = Append(pending, ConfigRound(consensus_thread.ts))
    /\ consensus_thread' = Idle
    /\ UNCHANGED <<mvccVars, role, term, ready, committed, config_changes, leader_noop, op, prepare_queue,
                   prepare_thread, prev_idx, txn, view>>

-----------------------------------------------------------------------------
(***************************************************************************)
(* What a leader sends to this replica while it follows.                   *)
(***************************************************************************)
\* The timestamps a leader may give to its next round: above those of the log it
\* shares with this replica, above the safe time this replica was told (the code
\* has no leader leases and names this as its known exception, see
\* MessageReceivedFromLeader), and not one that this replica has used itself.
LeaderTimestamps ==
    {t \in Timestamps :
        /\ t > last_safe
        /\ \A i \in DOMAIN pending : t > RoundTs(pending[i])
        /\ \A o \in Ops : op[o].ts # t}

\* A leader's participant ops follow one another in its log as they were validated.
LeaderMaySend(o) ==
    /\ o \in BeginCommits =>
          /\ txn.state = "OPEN"
          /\ \A p \in Participants : op[p].stage \in {"new", "failed"}
    /\ o \in FinalizeCommits \cup AbortTxns =>
          \A a \in AbortTxns \cup FinalizeCommits : op[a].stage \in {"new", "failed"}

\* StartFollowerOp(): the driver starts the op on this thread, before the safe
\* time can move, and queues its prepare.
StartFollowerOp(o, t) ==
    /\ ConsensusIdle
    /\ Following
    /\ op[o].stage = "new"
    /\ LeaderMaySend(o)
    /\ t \in LeaderTimestamps
    /\ IF o \in MvccOps THEN M!StartOp(t) ELSE UNCHANGED mvccVars
    /\ TM!MessageReceivedFromLeader(GetMessageConsistencyMode(o), t)
    /\ \E cts \in FinalizeTimestamps(o) :
          op' = [op EXCEPT ![o] = [@ EXCEPT !.stage = "driven", !.ts = t, !.term = term,
                                            !.idx = NextIndex, !.repl = "REPLICATING",
                                            !.commit_ts = cts]]
    /\ pending' = Append(pending, OpRound(o))
    /\ prepare_queue' = Append(prepare_queue, [kind |-> "PREPARE", op |-> o])
    /\ UNCHANGED <<role, term, ready, committed, config_changes, leader_noop, prepare_thread,
                   consensus_thread, prev_idx, txn, view>>

\* The first round of a leader is its NO_OP.
ReceiveNoOp(t) ==
    /\ ConsensusIdle
    /\ NewLeader
    /\ t \in LeaderTimestamps
    /\ leader_noop' = term
    /\ TM!MessageReceivedFromLeader("CLIENT_PROPAGATED", t)
    /\ pending' = Append(pending, NoOpRound(t))
    /\ UNCHANGED <<mvccVars, role, term, ready, committed, config_changes, opVars, view>>

\* An empty request carries the leader's safe time.
Heartbeat(t) ==
    /\ ConsensusIdle
    /\ Following
    /\ t <= clock
    /\ TM!AdvanceSafeTime(t)
    /\ UNCHANGED <<mvccVars, raftVars, opVars, view>>

\* Time passes, or another user of the server's clock reads it.
Tick == TM!Tick /\ UNCHANGED <<mvccVars, raftVars, opVars, view>>

\* A leader's queue reads the safe time for its heartbeats.
ReadSafeTime ==
    /\ role = "LEADER"
    /\ TM!GetSafeTime
    /\ UNCHANGED <<mvccVars, raftVars, opVars, view>>

-----------------------------------------------------------------------------
(***************************************************************************)
(* Scans at a snapshot, and flushes. A wait that gives up at its deadline   *)
(* touches nothing but its own entry (TimeManager.tla and Mvcc.tla check    *)
(* it) and is left out.                                                    *)
(***************************************************************************)
\* The rows of a scan at ts: those of the writes and of the transaction that are
\* below it and in the tablet.
Visible(ts) ==
    {o \in Writes \cup CommitWaits : op[o].stage \in {"applying", "applied"} /\ op[o].ts < ts}
    \cup {o \in FinalizeCommits : op[o].stage = "applied" /\ op[o].commit_ts < ts}

ScanWaitUntilSafe(w) ==
    /\ \/ \E ts \in Timestamps : TM!WaitUntilSafe(w, ts) /\ reader'[w].pc # "timedout"
       \/ TM!WaitUntilAfterLocally(w)
       \/ TM!RegisterWaiter(w)
       \/ TM!WaiterWoken(w)
    /\ UNCHANGED <<mvccVars, raftVars, opVars, view>>

ScanWaitForSnapshot(w) ==
    /\ \/ reader[w].pc = "ok" /\ M!CallWaitForSnapshot(w, reader[w].ts)
       \/ M!WaitUntilStep(w)
    /\ UNCHANGED <<timeVars, raftVars, opVars, view>>

ScanRows(w) ==
    /\ thread[w].pc = "ok"
    /\ view[w] = <<>>
    /\ view' = [view EXCEPT ![w] = <<Visible(thread[w].ts)>>]
    /\ UNCHANGED <<mvccVars, timeVars, raftVars, opVars>>

FlushWaits(w) ==
    /\ M!CallWaitForApplyingOps(w) \/ M!WaitUntilStep(w)
    /\ UNCHANGED <<timeVars, raftVars, opVars, view>>

-----------------------------------------------------------------------------
PrepareThreadStep ==
    \/ Prepare
    \/ AssignTimestamp
    \/ Start
    \/ Replicate
    \/ PrepareThreadApplies
    \/ AdjustLowerBound

ConsensusThreadStep ==
    \/ AbortRound
    \/ ReplicationFinished
    \/ ConsensusThreadApplies
    \/ AssignNoOp
    \/ AppendNoOp
    \/ RefreshConsensusQueueAndPeers
    \/ AppendConfigChange

Next ==
    \/ \E o \in Ops : ExecuteAsync(o) \/ ApplyStep(o)
    \/ PrepareFails
    \/ PrepareThreadStep
    \/ CommitRound
    \/ AbortOpsAfter
    \/ ConsensusThreadStep
    \/ BecomeLeader
    \/ BecomeReplica
    \/ ReplicateConfigChange
    \/ \E o \in Ops, t \in Timestamps : StartFollowerOp(o, t)
    \/ \E t \in Timestamps : ReceiveNoOp(t) \/ Heartbeat(t)
    \/ ReadSafeTime
    \/ Tick
    \/ \E w \in Scanners : ScanWaitUntilSafe(w) \/ ScanWaitForSnapshot(w) \/ ScanRows(w)
    \/ \E w \in Flushers : FlushWaits(w)

Spec == Init /\ [][Next]_vars

\* The pools and threads of the server keep running, and a pending round is
\* eventually committed or aborted by a new leader.
Fairness ==
    /\ WF_vars(PrepareThreadStep)
    /\ WF_vars(ConsensusThreadStep)
    /\ WF_vars(CommitRound)
    /\ \A o \in Ops : WF_vars(ApplyStep(o))
    /\ \A w \in Flushers : WF_vars(FlushWaits(w))

FairSpec == Spec /\ Fairness
-----------------------------------------------------------------------------
Stages == {"new", "driven", "mvcc_aborted", "submitted", "applying", "applied", "failed"}

\* The type invariant of the drivers and of the consensus state they see.
TypeOK ==
    /\ op \in [Ops -> [stage : Stages, ts : 0 .. (kMax - 1), term : 0 .. MaxTerm,
                       idx : Nat, commit_ts : 0 .. (kMax - 1),
                       repl : {"NOT_REPLICATING", "REPLICATING", "REPLICATED",
                               "REPLICATION_FAILED"},
                       prep : {"NOT_PREPARED", "PREPARED"}]]
    /\ role \in {"LEADER", "FOLLOWER"}
    /\ ready => role = "LEADER"
    /\ txn.lock \in Participants \cup {NoOne}

\* Safety. The CHECKs of StartOp never fail. The timestamp of a leader's op is
\* above the MVCC lower bound when the prepare thread starts it, though NO_OPs and
\* ops of other terms move the bound meanwhile (KUDU-2233), and so is that of an op
\* that a follower may receive, whatever it applied before.
StartOpChecksHold ==
    /\ prepare_thread.pc = "start" /\ prepare_thread.op \in MvccOps =>
          M!StartOpAllowed(op[prepare_thread.op].ts)
    /\ ConsensusIdle /\ Following =>
          \A t \in LeaderTimestamps : M!StartOpAllowed(t)

\* Safety. The ops are handed to the apply pool in the order of the log
\* (OpOrderVerifier::CheckApply), though either of two threads does it, and no op
\* is handed twice.
AppliesInLogOrder ==
    \A th \in {prepare_thread, consensus_thread} :
        th.pc = "apply" /\ op[th.op].repl = "REPLICATED" =>
            /\ op[th.op].idx > prev_idx
            /\ op[th.op].stage = "driven"
            /\ \/ prepare_thread.pc # "apply" \/ consensus_thread.pc # "apply"
               \/ prepare_thread.op # consensus_thread.op

\* Safety. A driver's stage and its MVCC op agree, so that the CHECKs of
\* StartApplyingOp, FinishApplyingOp and AbortOp hold: in particular the abort by
\* the consensus thread and the failure handling of the prepare thread never
\* abort the same MVCC op twice.
DriverMatchesMvcc ==
    \A o \in Writes \cup CommitWaits :
        /\ op[o].stage = "submitted" => ops_in_flight[op[o].ts] = "RESERVED"
        /\ op[o].stage = "applying" => ops_in_flight[op[o].ts] = "APPLYING"
        /\ op[o].stage \in {"failed", "mvcc_aborted"} /\ op[o].ts # 0 =>
              op[o].ts \notin M!InFlight
        /\ op[o].stage = "applied" => op[o].ts \in applied

\* Safety. Safe time does not pass the timestamp of an op that is assigned, not
\* yet known to MVCC, and may still be replicated (time_manager.h: "safe time is
\* pinned to the last known value").
SafeTimePinned ==
    prepare_thread.pc = "start" /\ prepare_thread.op \in MvccOps /\ CheckBoundTerm(prepare_thread.op) =>
        last_safe < op[prepare_thread.op].ts

\* Safety. A scan at a timestamp, repeated at any later time, returns the same
\* rows (tablet_service.cc: "always return the same data when scanning at the same
\* timestamp (repeatable reads)"). It joins WaitUntilSafe, the MVCC wait, the
\* pinning of safe time and the order of prepares, applies and role changes.
RepeatableRead ==
    \A w \in Scanners : view[w] # <<>> => view[w] = <<Visible(thread[w].ts)>>

\* Liveness. A replicated op is applied: one of the prepare thread and the
\* consensus thread submits it, whichever of prepare and replication ends last.
ReplicatedIsApplied ==
    \A o \in Ops : op[o].repl = "REPLICATED" ~> op[o].stage = "applied"

\* Liveness. A flush that waits for the applying ops goes on (mvcc.cc: "more ops
\* may enter the APPLYING set while we're waiting, but we will eventually succeed").
FlushProceeds ==
    \A w \in Flushers : thread[w].pc = "scanning" ~> thread[w].pc \in {"ok", "aborted"}
=============================================================================
