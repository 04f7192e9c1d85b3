------------------------- MODULE ReplicaReadProofs -------------------------
(***************************************************************************)
(* A scan at a timestamp reads the same rows whenever it is repeated, for  *)
(* every set of ops, scans and bounds.                                     *)
(*                                                                         *)
(* 1. Safe time does not pass an op between the assignment of its          *)
(*    timestamp and its start in MVCC (SafeTimeIsPinned).                  *)
(* 2. So when a scan has waited for its timestamp to be safe and for the   *)
(*    ops below it, nothing at or below it is in flight, or will be, but   *)
(*    what is sure to be aborted (ScanInv).                                *)
(* 3. So its rows do not change (ReadsAreRepeatable).                      *)
(*                                                                         *)
(* Neither holds with COMMIT_WAIT writes, which do not pin safe time, nor  *)
(* with config changes, which take a timestamp on another thread and reset *)
(* the time manager: SerialTimestamps excludes them.                       *)
(***************************************************************************)
EXTENDS ReplicaMvccProofs

SerialTimestamps == CommitWaits = {} /\ MaxConfigChanges = 0

LEMMA SerialIsExact == SerialTimestamps => ExactTimestamps
  BY DEF SerialTimestamps, ExactTimestamps

-----------------------------------------------------------------------------
(***************************************************************************)
(* Which steps concern the leadership                                      *)
(***************************************************************************)
RaftPcs  == {"noop", "noop_append", "config_refresh", "config_append"}
LeadKept ==
    /\ SameTerms /\ role' = role /\ term' = term
    /\ consensus_thread'.pc \in RaftPcs => consensus_thread'.pc = consensus_thread.pc

LEMMA RaftKept ==
    ASSUME [Next]_vars
    PROVE  \/ config_changes' = config_changes /\ ready' = ready
           \/ BecomeReplica \/ AppendNoOp \/ ReplicateConfigChange
<1> USE DEF raftVars
<1>1. ASSUME NEW o \in Ops, ExecuteAsync(o) PROVE config_changes' = config_changes /\ ready' = ready
  BY <1>1 DEF ExecuteAsync
<1>2. ASSUME NEW o \in Ops, ApplyStep(o) PROVE config_changes' = config_changes /\ ready' = ready
  BY <1>2 DEF ApplyStep, ApplyWrite, FinishWrite, ApplyBeginCommit, ApplyFinalizeCommit,
     FinishFinalizeCommit, ApplyAbortTxn
<1>3. CASE PrepareFails \/ Prepare \/ AssignTimestamp \/ Start \/ Replicate
  BY <1>3 DEF PrepareFails, Prepare, AssignTimestamp, Start, Replicate
<1>4. CASE \/ PrepareThreadApplies \/ AdjustLowerBound \/ CommitRound \/ AbortOpsAfter \/ AbortRound
           \/ ReplicationFinished \/ ConsensusThreadApplies
  BY <1>4 DEF PrepareThreadApplies, AdjustLowerBound, CommitRound, AbortOpsAfter, AbortRound,
     ReplicationFinished, ConsensusThreadApplies
<1>5. CASE BecomeLeader \/ AssignNoOp \/ RefreshConsensusQueueAndPeers \/ AppendConfigChange
  BY <1>5 DEF BecomeLeader, AssignNoOp, RefreshConsensusQueueAndPeers, AppendConfigChange
<1>6. ASSUME NEW t \in Timestamps, ReceiveNoOp(t) PROVE config_changes' = config_changes /\ ready' = ready
  BY <1>6 DEF ReceiveNoOp
<1>7. ASSUME NEW o \in Ops, NEW t \in Timestamps, StartFollowerOp(o, t)
      PROVE  config_changes' = config_changes /\ ready' = ready
  BY <1>7 DEF StartFollowerOp
<1>8. CASE QuietStep
  BY <1>8 DEF QuietStep, Heartbeat, ReadSafeTime, Tick, ScanWaitUntilSafe, ScanWaitForSnapshot,
     ScanRows, FlushWaits, vars
<1> QED
  BY <1>1, <1>2, <1>3, <1>4, <1>5, <1>6, <1>7, <1>8, NextCases

LEMMA LeadSteps ==
    ASSUME OrderInv, [Next]_vars
    PROVE  \/ LeadKept
           \/ \E o \in Ops : ExecuteAsync(o)
           \/ \E o \in Ops, t \in Timestamps : StartFollowerOp(o, t)
           \/ BecomeLeader \/ BecomeReplica \/ AssignNoOp \/ ReplicateConfigChange
           \/ RefreshConsensusQueueAndPeers
<1> USE DEF LeadKept, RaftPcs
<1>2. ASSUME NEW o \in Ops, ApplyStep(o) PROVE LeadKept
  BY <1>2, ApplyStepIs DEF PoolStep
<1>3. CASE PrepareFails
  BY <1>3, PrepareFailsIs DEF RefuseStep
<1>4. CASE Prepare
  BY <1>4, PrepareIs DEF RefuseStep, PrepareStep
<1>5. CASE AssignTimestamp
  BY <1>5, AssignIs DEF AssignFailStep, AssignStep
<1>6. CASE Start
  BY <1>6, StartIs DEF StartStep
<1>7. CASE Replicate
  BY <1>7, ReplicateIs DEF ReplicateStep, ReplicateFailStep
<1>8. CASE PrepareThreadApplies
  BY <1>8, PrepareThreadAppliesIs DEF SubmitStep, ApplyFailStep
<1>9. CASE AdjustLowerBound
  BY <1>9, AdjustLowerBoundIs DEF LowerBoundStep, SameTerms
<1>10. CASE CommitRound
  BY <1>10, CommitRoundIs DEF CommitOpStep, CommitOtherStep, SameTerms
<1>11. CASE AbortOpsAfter
  BY <1>11, AbortOpsAfterIs DEF AbortAfterStep, SameTerms
<1>12. CASE AbortRound
  BY <1>12, AbortRoundIs DEF AbortOpStep, AbortOtherStep, SameTerms
<1>13. CASE ReplicationFinished
  BY <1>13, ReplicationFinishedIs DEF FinishStep
<1>14. CASE ConsensusThreadApplies
  BY <1>14, ConsensusThreadAppliesIs DEF FinishSubmitStep, FinishFailStep
<1>15. CASE AppendNoOp \/ AppendConfigChange \/ \E t \in Timestamps : ReceiveNoOp(t)
  BY <1>15, AppendIs DEF AppendOtherStep, SameTerms
<1>16. CASE QuietStep
  BY <1>16, QuietIs DEF raftVars, opVars, SameTerms
<1> QED
  BY <1>2, <1>3, <1>4, <1>5, <1>6, <1>7, <1>8, <1>9, <1>10, <1>11, <1>12, <1>13, <1>14, <1>15,
     <1>16, NextCases

\* No config change is made.
NoConfigChange ==
    config_changes = 0 /\ consensus_thread.pc \notin {"config_refresh", "config_append"}

\* A leader that is not ready has taken no op of its term.
NotReady ==
    /\ consensus_thread.pc \in {"noop", "noop_append"} => ~ready
    /\ role = "LEADER" /\ ~ready => \A o \in Ops : op[o].term < term

LEMMA LeadStep ==
    ASSUME MaxConfigChanges = 0, OrderInv, NoConfigChange, NotReady, [Next]_vars
    PROVE  NoConfigChange' /\ NotReady'
<1>0. /\ \A o \in Ops : op[o].term <= term /\ op[o].term \in Nat
      /\ term \in Nat /\ ready \in BOOLEAN /\ (ready => role = "LEADER")
  BY TypeParts, FieldTypesHold DEF OrderInv, TermInv, TermsKnown, FieldTypes, RaftTypes
<1>1. ~ReplicateConfigChange /\ ~RefreshConsensusQueueAndPeers /\ ~AppendConfigChange
  BY DEF ReplicateConfigChange, RefreshConsensusQueueAndPeers, AppendConfigChange, NoConfigChange
<1>2. CASE BecomeReplica
  BY <1>2 DEF BecomeReplica, opVars, ConsensusIdle, NoConfigChange, NotReady
<1>3. CASE AppendNoOp
  <2>1. consensus_thread'.pc = "idle" /\ ready' = TRUE /\ config_changes' = config_changes
    BY <1>3 DEF AppendNoOp, Idle
  <2> QED
    BY <2>1 DEF NoConfigChange, NotReady
<1>4. CASE config_changes' = config_changes /\ ready' = ready
  <2>1. CASE LeadKept
    BY <1>4, <2>1 DEF LeadKept, RaftPcs, SameTerms, NoConfigChange, NotReady
  <2>2. ASSUME NEW o \in Ops, ExecuteAsync(o) PROVE NoConfigChange' /\ NotReady'
    BY <1>4, <2>2 DEF ExecuteAsync, NoConfigChange, NotReady
  <2>3. ASSUME NEW o \in Ops, NEW t \in Timestamps, StartFollowerOp(o, t)
        PROVE  NoConfigChange' /\ NotReady'
    BY <1>4, <2>3, FollowIs DEF FollowStep, NoConfigChange, NotReady
  <2>4. CASE BecomeLeader
    <3>1. /\ consensus_thread'.pc = "noop" /\ term' = term + 1 /\ op' = op /\ role = "FOLLOWER"
      BY <2>4 DEF BecomeLeader
    <3>2. \A o \in Ops : op'[o].term < term'
      BY <1>0, <3>1
    <3> QED
      BY <1>0, <1>4, <3>1, <3>2 DEF NoConfigChange, NotReady
  <2>5. CASE AssignNoOp
    <3>1. consensus_thread'.pc = "noop_append" /\ consensus_thread.pc = "noop" /\ op' = op
      BY <2>5 DEF AssignNoOp
    <3>2. term' = term /\ role' = role
      BY <2>5 DEF AssignNoOp, raftVars
    <3> QED
      BY <1>4, <3>1, <3>2 DEF NoConfigChange, NotReady
  <2> QED
    BY <1>1, <1>2, <2>1, <2>2, <2>3, <2>4, <2>5, LeadSteps
<1> QED
  BY <1>1, <1>2, <1>3, <1>4, RaftKept

-----------------------------------------------------------------------------
(***************************************************************************)
(* Safe time is pinned                                                     *)
(***************************************************************************)
\* An op that is bound to the term was bound before: no term comes back.
LEMMA BoundBefore ==
    ASSUME OrderInv, [Next]_vars, NEW o \in Ops, op[o].stage # "new", CheckBoundTerm(o)'
    PROVE  CheckBoundTerm(o) /\ role' = role /\ term' = term
<1> USE DEF CheckBoundTerm
<1>0. op[o].term <= term /\ op[o].term \in Nat /\ term \in Nat
  BY TypeParts, FieldTypesHold DEF OrderInv, TermInv, TermsKnown, FieldTypes, RaftTypes
<1>1. CASE LeadKept
  BY <1>1 DEF LeadKept, SameTerms
<1>2. ASSUME NEW x \in Ops, ExecuteAsync(x) PROVE CheckBoundTerm(o) /\ role' = role /\ term' = term
  BY <1>2, ExecuteIs DEF ExecuteStep, TermTo
<1>3. \A x \in Ops, t \in Timestamps : ~StartFollowerOp(x, t)
  BY FollowIs DEF FollowStep
<1>4. ~BecomeLeader
  BY <1>0 DEF BecomeLeader
<1>5. ~BecomeReplica
  BY DEF BecomeReplica
<1>6. CASE AssignNoOp \/ RefreshConsensusQueueAndPeers \/ ReplicateConfigChange
  BY <1>6 DEF AssignNoOp, RefreshConsensusQueueAndPeers, ReplicateConfigChange, raftVars
<1> QED
  BY <1>1, <1>2, <1>3, <1>4, <1>5, <1>6, LeadSteps

\* The op that is between its timestamp and its start, and may still be replicated.
Outstanding == prepare_thread.pc = "start" /\ CheckBoundTerm(prepare_thread.op)

\* It is the last op that was given a timestamp; safe time and the rounds whose
\* commit moves it are below.
Pinned ==
    Outstanding =>
        /\ last_serial = op[prepare_thread.op].ts
        /\ last_safe < op[prepare_thread.op].ts
        /\ \A i \in DOMAIN pending : RoundTs(pending[i]) < op[prepare_thread.op].ts

PinInv == NoConfigChange /\ NotReady /\ Pinned

\* With an op outstanding nothing but the commit of a round moves safe time.
LEMMA PinCalls ==
    ASSUME mode = "LEADER", last_serial \in Nat, last_safe \in Nat, last_safe < last_serial
    PROVE  /\ UNCHANGED timeVars \/ TM!Tick \/ TM!GetSafeTime =>
                 last_serial' = last_serial /\ last_safe' = last_safe
           /\ \A w, t : TM!WaitUntilSafe(w, t) => last_serial' = last_serial /\ last_safe' = last_safe
           /\ \A w : TM!WaitUntilAfterLocally(w) \/ TM!RegisterWaiter(w) \/ TM!WaiterWoken(w) =>
                 last_serial' = last_serial /\ last_safe' = last_safe
           /\ \A t \in Nat : t < last_serial /\ TM!AdvanceSafeTimeWithMessage("CLIENT_PROPAGATED", t) =>
                 last_serial' = last_serial /\ last_safe' < last_serial
           /\ \A t : ~TM!AdvanceSafeTime(t)
<1>0. \A now : TM!GetSafeTimeUnlocked(mode, last_serial, last_safe, now).safe = last_safe
  BY DEF TM!GetSafeTimeUnlocked
<1>1. UNCHANGED timeVars \/ TM!Tick \/ TM!GetSafeTime =>
         last_serial' = last_serial /\ last_safe' = last_safe
  BY <1>0 DEF timeVars, TM!Tick, TM!GetSafeTime
<1>2. \A w, t : TM!WaitUntilSafe(w, t) => last_serial' = last_serial /\ last_safe' = last_safe
  BY <1>0 DEF TM!WaitUntilSafe
<1>3. \A w : TM!WaitUntilAfterLocally(w) \/ TM!RegisterWaiter(w) \/ TM!WaiterWoken(w) =>
         last_serial' = last_serial /\ last_safe' = last_safe
  BY <1>0 DEF TM!WaitUntilAfterLocally, TM!RegisterWaiter, TM!WaiterWoken
<1>4. ASSUME NEW t \in Nat, t < last_serial, TM!AdvanceSafeTimeWithMessage("CLIENT_PROPAGATED", t)
      PROVE  last_serial' = last_serial /\ last_safe' < last_serial
  <2>1. \A now : TM!GetSafeTimeUnlocked(mode, last_serial, t, now).safe = t
    BY <1>4 DEF TM!GetSafeTimeUnlocked
  <2>2. last_safe' \in {last_safe, t}
    BY <1>4, <2>1 DEF TM!AdvanceSafeTimeWithMessage, TM!AdvanceSafeTimeAndWakeUpWaiters
  <2> QED
    BY <1>4, <2>2 DEF TM!AdvanceSafeTimeWithMessage
<1>5. \A t : ~TM!AdvanceSafeTime(t)
  BY DEF TM!AdvanceSafeTime
<1> QED
  BY <1>1, <1>2, <1>3, <1>4, <1>5

PinKept ==
    /\ SameTs /\ last_serial' = last_serial /\ last_safe' < last_serial
    /\ \A i \in DOMAIN pending' : \E j \in DOMAIN pending : pending[j] = pending'[i]

LEMMA QuietPin ==
    ASSUME OrderInv, QuietStep, mode = "LEADER", last_serial \in Nat, last_safe \in Nat,
           last_safe < last_serial
    PROVE  PinKept
<1>1. SameTs /\ pending' = pending
  BY QuietIs DEF raftVars, opVars, SameTs
<1>2. last_serial' = last_serial /\ last_safe' = last_safe
  <2>1. CASE UNCHANGED vars
    BY <2>1, PinCalls DEF vars
  <2>2. \A t \in Timestamps : ~Heartbeat(t)
    BY PinCalls DEF Heartbeat
  <2>3. CASE ReadSafeTime \/ Tick
    BY <2>3, PinCalls DEF ReadSafeTime, Tick
  <2>4. ASSUME NEW w \in Scanners, ScanWaitUntilSafe(w)
        PROVE  last_serial' = last_serial /\ last_safe' = last_safe
    BY <2>4, PinCalls DEF ScanWaitUntilSafe
  <2>5. ASSUME NEW w \in Scanners, ScanWaitForSnapshot(w) \/ ScanRows(w)
        PROVE  last_serial' = last_serial /\ last_safe' = last_safe
    BY <2>5, PinCalls DEF ScanWaitForSnapshot, ScanRows
  <2>6. ASSUME NEW w \in Flushers, FlushWaits(w)
        PROVE  last_serial' = last_serial /\ last_safe' = last_safe
    BY <2>6, PinCalls DEF FlushWaits
  <2> QED
    BY <2>1, <2>2, <2>3, <2>4, <2>5, <2>6 DEF QuietStep
<1> QED
  BY <1>1, <1>2 DEF PinKept

LEMMA PinnedSteps ==
    ASSUME SerialTimestamps, UseInv, PinInv, [Next]_vars, Outstanding,
           prepare_thread' = prepare_thread, role' = role
    PROVE  PinKept
<1> USE DEF PinKept
<1>0. /\ mode = "LEADER" /\ last_serial \in Nat /\ last_safe \in Nat /\ last_safe < last_serial
      /\ OrderInv /\ ParticipantInv /\ ClockInv /\ role = "LEADER"
      /\ prepare_thread.pc = "start" /\ prepare_thread.op \in Ops
      /\ op[prepare_thread.op].term = term
  BY TimeTypes, TypeParts, ThreadFields
     DEF UseInv, ClockInv, PinInv, Pinned, Outstanding, CheckBoundTerm
<1>1. ASSUME UNCHANGED timeVars PROVE last_serial' = last_serial /\ last_safe' < last_serial
  BY <1>0, <1>1 DEF timeVars
<1>2. ASSUME NEW o \in Ops, ExecuteAsync(o) PROVE PinKept
  BY <1>1, <1>2, <1>0, ExecuteIs DEF ExecuteStep, ExecuteAsync
<1>3. ASSUME NEW o \in Ops, ApplyStep(o) PROVE PinKept
  <2>1. UNCHANGED timeVars
    BY <1>3 DEF ApplyStep, ApplyWrite, FinishWrite, ApplyBeginCommit, ApplyFinalizeCommit,
       FinishFinalizeCommit, ApplyAbortTxn
  <2> QED
    BY <1>0, <1>1, <1>3, <2>1, ApplyStepIs DEF PoolStep
<1>4. ~PrepareFails /\ ~Prepare /\ ~AdjustLowerBound
  BY <1>0 DEF PrepareFails, Prepare, AdjustLowerBound, AtHead
<1>5. ~AssignTimestamp /\ ~Replicate /\ ~PrepareThreadApplies
  BY <1>0 DEF AssignTimestamp, Replicate, PrepareThreadApplies
<1>6. ~Start
  BY <1>0, StartIs DEF StartStep
<1>7. CASE CommitRound
  <2>1. 1 \in DOMAIN pending /\ pending[1] \in Round /\ PendingShifts
    BY <1>0, <1>7, CommitRoundIs DEF PendingShifts
  <2>2. RoundTs(pending[1]) \in Nat /\ RoundTs(pending[1]) < last_serial
    BY <1>0, <2>1, RoundStamps DEF PinInv, Pinned, Timestamps
  <2>3. RoundMode(pending[1]) = "CLIENT_PROPAGATED"
    BY DEF RoundMode, GetMessageConsistencyMode, SerialTimestamps
  <2>4. last_serial' = last_serial /\ last_safe' < last_serial
    BY <1>0, <1>7, <2>2, <2>3, CommitRoundIs, PinCalls
  <2>5. op' = op
    BY <1>7 DEF CommitRound
  <2> QED
    BY <2>1, <2>4, <2>5 DEF PendingShifts, SameTs
<1>8. ~AbortOpsAfter
  BY <1>0 DEF AbortOpsAfter, NewLeader
<1>9. CASE AbortRound
  <2>1. UNCHANGED timeVars
    BY <1>9 DEF AbortRound
  <2> QED
    BY <1>0, <1>1, <1>9, <2>1, AbortRoundIs DEF AbortOpStep, AbortOtherStep, SameTs
<1>10. CASE ReplicationFinished
  <2>1. UNCHANGED timeVars
    BY <1>10 DEF ReplicationFinished
  <2> QED
    BY <1>0, <1>1, <1>10, <2>1, ReplicationFinishedIs DEF FinishStep
<1>11. CASE ConsensusThreadApplies
  <2>1. UNCHANGED timeVars
    BY <1>11 DEF ConsensusThreadApplies
  <2> QED
    BY <1>0, <1>1, <1>11, <2>1, ConsensusThreadAppliesIs DEF FinishSubmitStep, FinishFailStep
<1>12. ~BecomeLeader /\ ~BecomeReplica
  BY <1>0 DEF BecomeLeader, BecomeReplica
<1>13. ~AssignNoOp /\ ~AppendNoOp
  <2>1. consensus_thread.pc \notin {"noop", "noop_append"}
    BY <1>0, TypeParts, FieldTypesHold DEF PinInv, NotReady, FieldTypes
  <2> QED
    BY <2>1 DEF AssignNoOp, AppendNoOp
<1>14. ~ReplicateConfigChange /\ ~RefreshConsensusQueueAndPeers /\ ~AppendConfigChange
  BY DEF ReplicateConfigChange, RefreshConsensusQueueAndPeers, AppendConfigChange, PinInv,
     NoConfigChange, SerialTimestamps
<1>15. /\ \A t \in Timestamps : ~ReceiveNoOp(t)
       /\ \A o \in Ops, t \in Timestamps : ~StartFollowerOp(o, t)
  BY <1>0 DEF ReceiveNoOp, StartFollowerOp, NewLeader, Following
<1>16. CASE QuietStep
  BY <1>0, <1>16, QuietPin
<1> QED
  BY <1>2, <1>3, <1>4, <1>5, <1>6, <1>7, <1>8, <1>9, <1>10, <1>11, <1>12, <1>13, <1>14, <1>15,
     <1>16, NextCases

LEMMA PinStep ==
    ASSUME SerialTimestamps, ReplicaInv, PinInv, [Next]_vars
    PROVE  PinInv'
<1>0. /\ UseInv /\ OrderInv /\ ParticipantInv /\ ClockInv
      /\ clock \in Nat /\ last_safe \in Nat /\ last_safe <= clock
  BY TimeTypes, ExactFacts DEF ReplicaInv, ExactInv, UseInv, ManagersInv, TP!SafeInv
<1>1. NoConfigChange' /\ NotReady'
  BY <1>0, LeadStep DEF PinInv, SerialTimestamps
<1>2. ASSUME Outstanding'
      PROVE  Pinned'
  <2>1. CASE AssignTimestamp /\ mode = "LEADER"
    <3>1. PICK o \in Ops : prepare_thread.op = o
      BY <1>0, <2>1, AssignIs
    <3>2. PICK t \in Timestamps : TM!AssignTimestamp(GetMessageConsistencyMode(o), t) /\ TsTo(o, t)
      BY <1>0, <2>1, <3>1, AssignIs
    <3>3. AssignStep(o)
      BY <1>0, <2>1, <3>1, AssignIs
    <3>4. GetMessageConsistencyMode(o) = "CLIENT_PROPAGATED"
      BY DEF GetMessageConsistencyMode, SerialTimestamps
    <3>5. t = clock + 1 /\ last_serial' = t /\ last_safe' = last_safe
      BY <3>2, <3>4 DEF TM!AssignTimestamp
    <3>6. prepare_thread'.op = o /\ op'[o].ts = t
      BY <3>2, <3>3 DEF AssignStep, TsTo
    <3>7. op[o].repl = "NOT_REPLICATING"
      BY <1>0, <2>1, <3>1 DEF AssignTimestamp, OrderInv, PrepareInv, HoldsLocal
    <3>8. ASSUME NEW i \in DOMAIN pending' PROVE RoundTs(pending[i])' < t
      <4>1. i \in DOMAIN pending /\ pending' = pending
        BY <3>3 DEF AssignStep
      <4>2. RoundTs(pending[i]) <= clock /\ RoundTs(pending[i]) \in Nat
        BY <1>0, <4>1, RoundStamps DEF RoundMode, GetMessageConsistencyMode, SerialTimestamps,
           Timestamps
      <4>3. CASE pending[i].kind = "OP"
        <5>1. pending[i].op \in Ops /\ op[pending[i].op].repl = "REPLICATING"
          BY <1>0, <4>1, <4>3, TypeParts, SeqFacts, RoundFields
             DEF RaftTypes, OrderInv, PendingInv, PendingAreSent
        <5>2. op'[pending[i].op].ts = op[pending[i].op].ts
          BY <3>2, <3>7, <5>1 DEF TsTo
        <5> QED
          BY <1>0, <3>5, <4>1, <4>2, <4>3, <5>2 DEF RoundTs
      <4>4. CASE pending[i].kind # "OP"
        BY <1>0, <3>5, <4>1, <4>2, <4>4 DEF RoundTs
      <4> QED
        BY <4>3, <4>4
    <3> QED
      BY <1>0, <3>5, <3>6, <3>8 DEF Pinned
  <2>2. CASE prepare_thread' = prepare_thread
    <3>1. PICK o \in Ops : prepare_thread.op = o
      BY <1>0, <1>2, <2>2, TypeParts, ThreadFields DEF Outstanding
    <3>2. prepare_thread.pc = "start" /\ prepare_thread'.op = o
      BY <1>2, <2>2, <3>1 DEF Outstanding
    <3>3. op[o].stage # "new"
      BY <1>0, <3>1, <3>2 DEF OrderInv, PrepareInv, HoldsLocal
    <3>4. CheckBoundTerm(o)'
      BY <1>2, <3>2 DEF Outstanding, CheckBoundTerm
    <3>5. CheckBoundTerm(o) /\ role' = role
      BY <1>0, <3>3, <3>4, BoundBefore
    <3>6. Outstanding
      BY <3>1, <3>2, <3>5 DEF Outstanding
    <3>7. PinKept
      BY <1>0, <2>2, <3>5, <3>6, PinnedSteps
    <3>8. op'[o].ts = op[o].ts
      BY <3>7 DEF PinKept, SameTs
    <3>9. ASSUME NEW i \in DOMAIN pending' PROVE RoundTs(pending[i])' < op[o].ts
      <4>1. PICK j \in DOMAIN pending : pending[j] = pending'[i]
        BY <3>7 DEF PinKept
      <4>2. pending[j] \in Round
        BY <1>0, TypeParts, SeqFacts DEF RaftTypes
      <4>3. RoundTs(pending[j]) < op[o].ts
        BY <3>1, <3>6 DEF PinInv, Pinned
      <4>4. RoundTs(pending[i])' = RoundTs(pending[j])
        BY <3>7, <4>1, <4>2, RoundFields DEF RoundTs, PinKept, SameTs
      <4> QED
        BY <4>3, <4>4
    <3> QED
      BY <3>1, <3>2, <3>6, <3>7, <3>8, <3>9 DEF Pinned, PinKept, PinInv
  <2> QED
    BY <1>0, <1>2, <2>1, <2>2, StartingSteps DEF Outstanding
<1> QED
  BY <1>1, <1>2 DEF PinInv, Pinned

LEMMA PinInit == Init => PinInv
  BY DEF Init, Idle, PinInv, NoConfigChange, NotReady, Pinned, Outstanding

LEMMA PinHolds ==
    ASSUME SerialTimestamps
    PROVE  Spec => [](ReplicaInv /\ PinInv)
<1>1. ReplicaInv /\ PinInv /\ [Next]_vars => ReplicaInv' /\ PinInv'
  BY SerialIsExact, ReplicaStep, PinStep
<1> QED
  BY <1>1, ReplicaInit, PinInit, PTL DEF Spec

\* Safe time does not pass the timestamp of an op that is assigned, not yet known to
\* MVCC, and may still be replicated (time_manager.h: "safe time is pinned to the last
\* known value"): not when a round of before it is committed, not when a scan or a
\* heartbeat asks for it, and not when the leadership changes and comes back.
THEOREM SafeTimeIsPinned ==
    ASSUME SerialTimestamps
    PROVE  Spec => []SafeTimePinned
<1>1. PinInv => SafeTimePinned
  BY DEF PinInv, Pinned, Outstanding, SafeTimePinned
<1> QED
  BY <1>1, PinHolds, PTL

-----------------------------------------------------------------------------
(***************************************************************************)
(* What a scan has waited for                                              *)
(***************************************************************************)
Flying(t) == ops_in_flight[t] # "NONE"

\* An op that is started and was bound to a term that is over: Replicate() will refuse
\* it, and its MVCC op will be aborted.
Doomed(t) ==
    /\ prepare_thread.pc = "replicate" /\ op[prepare_thread.op].ts = t
    /\ ~CheckBoundTerm(prepare_thread.op)

\* A scan whose wait in MVCC is over, or will be at once.
Settled(w) == thread[w].pc = "ok" \/ thread[w].latch = 0

ScansSnapshot(w) == thread[w].wait_for = "ALL_APPLIED" /\ thread[w].pc # "scanning"
ScansSafe(w)     == thread[w].pc # "idle" => thread[w].ts <= last_safe
ScansSettled(w)  ==
    Settled(w) => \A t \in Timestamps : Flying(t) => t > thread[w].ts \/ Doomed(t)
ScansOk(w)       == view[w] # <<>> => thread[w].pc = "ok"

ScanInv ==
    \A w \in Scanners : ScansSnapshot(w) /\ ScansSafe(w) /\ ScansSettled(w) /\ ScansOk(w)

\* A call of MVCC that starts no op, and wakes a scan only when nothing at or below its
\* timestamp is left.
Wakes ==
    \A w \in Scanners :
        /\ thread'[w].pc = thread[w].pc /\ thread'[w].ts = thread[w].ts
        /\ thread'[w].wait_for = thread[w].wait_for
        /\ \/ thread'[w].latch = thread[w].latch
           \/ thread[w].wait_for = "ALL_APPLIED" =>
                 M!AreAllOpsApplied(thread[w].ts, cur_snap', earliest')
OpCall == Wakes /\ \A t \in Timestamps : Flying(t)' => Flying(t)

LEMMA WakesBy ==
    ASSUME MP!TypeOK, NEW snap, NEW first, NEW ops, M!WakeDoneWaiters(snap, first, ops),
           cur_snap' = snap, earliest' = first
    PROVE  Wakes
<1> SUFFICES ASSUME NEW w \in Scanners
             PROVE  /\ thread'[w].pc = thread[w].pc /\ thread'[w].ts = thread[w].ts
                    /\ thread'[w].wait_for = thread[w].wait_for
                    /\ \/ thread'[w].latch = thread[w].latch
                       \/ thread[w].wait_for = "ALL_APPLIED" =>
                             M!AreAllOpsApplied(thread[w].ts, cur_snap', earliest')
  BY DEF Wakes
<1>1. thread[w] \in MP!ThreadType
  BY DEF MP!TypeOK
<1>2. \/ thread'[w] = thread[w]
      \/ /\ thread'[w] = [thread[w] EXCEPT !.latch = 0]
         /\ M!IsDoneWaiting(w, snap, first, ops)
  BY DEF M!WakeDoneWaiters
<1>3. thread'[w].pc = thread[w].pc /\ thread'[w].ts = thread[w].ts
      /\ thread'[w].wait_for = thread[w].wait_for
  BY <1>1, <1>2 DEF MP!ThreadType
<1> QED
  BY <1>2, <1>3 DEF M!IsDoneWaiting

LEMMA WakesNone ==
    /\ thread' = thread => Wakes
    /\ \A w \in Flushers : (\A x \in Scanners : x # w => thread'[x] = thread[x]) => Wakes
  BY ReplicaAssumption DEF Wakes

LEMMA OpCalls ==
    ASSUME MP!TypeOK
    PROVE  /\ \A t : \/ M!StartApplyingOp(t) \/ M!AbortOp(t) \/ M!FinishApplyingOp(t)
                     \/ M!AdjustNewOpLowerBound(t)
                     => OpCall
           /\ UNCHANGED mvccVars => OpCall
           /\ \A t : M!StartOp(t) =>
                 Wakes /\ \A u \in Timestamps : Flying(u)' => Flying(u) \/ u = t
<1>0. ops_in_flight \in [Timestamps -> {"NONE", "RESERVED", "APPLYING"}]
  BY DEF MP!TypeOK, MP!Timestamps, Timestamps
<1> USE DEF OpCall, Flying, M!threadVars
<1>1. ASSUME NEW t, M!StartApplyingOp(t) \/ M!AbortOp(t) PROVE OpCall
  BY <1>0, <1>1, WakesNone DEF M!StartApplyingOp, M!AbortOp
<1>2. ASSUME NEW t, M!FinishApplyingOp(t) PROVE OpCall
  <2>1. \A u \in Timestamps : Flying(u)' => Flying(u)
    BY <1>0, <1>2 DEF M!FinishApplyingOp
  <2>2. CASE thread' = thread
    BY <2>1, <2>2, WakesNone
  <2>3. CASE \E ops : M!WakeDoneWaiters(cur_snap', earliest', ops)
    BY <2>1, <2>3, WakesBy
  <2>4. thread' = thread \/ \E ops : M!WakeDoneWaiters(cur_snap', earliest', ops)
    BY <1>2 DEF M!FinishApplyingOp
  <2> QED
    BY <2>2, <2>3, <2>4
<1>3. ASSUME NEW t, M!AdjustNewOpLowerBound(t) PROVE OpCall
  <2>1. \A u \in Timestamps : Flying(u)' => Flying(u)
    BY <1>3 DEF M!AdjustNewOpLowerBound
  <2>4. thread' = thread \/ \E ops : M!WakeDoneWaiters(cur_snap', earliest', ops)
    BY <1>3 DEF M!AdjustNewOpLowerBound
  <2> QED
    BY <2>1, <2>4, WakesNone, WakesBy
<1>4. UNCHANGED mvccVars => OpCall
  BY WakesNone DEF mvccVars
<1>5. ASSUME NEW t, M!StartOp(t)
      PROVE  Wakes /\ \A u \in Timestamps : Flying(u)' => Flying(u) \/ u = t
  BY <1>0, <1>5, WakesNone DEF M!StartOp
<1> QED
  BY <1>1, <1>2, <1>3, <1>4, <1>5

LEMMA FailureCalls == ASSUME MP!TypeOK, NEW o, HandleFailure(o) PROVE OpCall
  BY OpCalls DEF HandleFailure

LEMMA ApplyCalls == ASSUME MP!TypeOK, NEW o, ApplyAsync(o) PROVE OpCall
  BY OpCalls, FailureCalls DEF ApplyAsync, MvccOfApplyAsync

LEMMA FlushCalls == ASSUME MP!TypeOK, NEW w \in Flushers, FlushWaits(w) PROVE OpCall
<1>1. thread \in [Scanners \cup Flushers -> MP!ThreadType]
  BY DEF MP!TypeOK
<1>2. \A x \in Scanners : x # w => thread'[x] = thread[x]
  BY <1>1 DEF FlushWaits, M!CallWaitForApplyingOps, M!WaitUntilStep, M!ScanApplyingOps,
     M!WaitUntilCheckOpen, M!WaitUntilRegister, M!WaitUntilWoken, M!WaitUntilCleanup, M!Goto
<1>3. FlightsKept
  BY FlightCalls DEF FlushWaits
<1> QED
  BY <1>2, <1>3, WakesNone DEF OpCall, FlightsKept, Flying

\* Every step but the start of an op and the wait of a scan.
LEMMA OpCallSteps ==
    ASSUME OrderInv, MP!TypeOK, [Next]_vars
    PROVE  \/ OpCall \/ Start
           \/ \E o \in Ops, t \in Timestamps : StartFollowerOp(o, t)
           \/ \E w \in Scanners : ScanWaitForSnapshot(w)
<1>1. ASSUME NEW o \in Ops, ExecuteAsync(o) PROVE OpCall
  BY <1>1, OpCalls DEF ExecuteAsync
<1>2. ASSUME NEW o \in Ops, ApplyStep(o) PROVE OpCall
  BY <1>2, OpCalls DEF ApplyStep, ApplyWrite, FinishWrite, ApplyBeginCommit, ApplyFinalizeCommit,
     FinishFinalizeCommit, ApplyAbortTxn
<1>3. CASE PrepareFails \/ Prepare \/ CommitRound \/ AbortOpsAfter \/ ReplicationFinished
  BY <1>3, OpCalls DEF PrepareFails, Prepare, CommitRound, AbortOpsAfter, ReplicationFinished
<1>4. CASE AssignTimestamp
  BY <1>4, OpCalls, FailureCalls DEF AssignTimestamp
<1>5. CASE Replicate
  BY <1>5, OpCalls, FailureCalls DEF Replicate
<1>6. CASE PrepareThreadApplies \/ ConsensusThreadApplies
  BY <1>6, ApplyCalls DEF PrepareThreadApplies, ConsensusThreadApplies
<1>7. CASE AdjustLowerBound
  BY <1>7, OpCalls DEF AdjustLowerBound
<1>8. CASE AbortRound
  BY <1>8, AbortRoundIs, OpCalls
<1>9. CASE \/ BecomeLeader \/ AssignNoOp \/ BecomeReplica \/ ReplicateConfigChange
           \/ RefreshConsensusQueueAndPeers
  BY <1>9, RaftIs, OpCalls
<1>10. CASE AppendNoOp \/ AppendConfigChange \/ \E t \in Timestamps : ReceiveNoOp(t)
  BY <1>10, AppendIs, OpCalls
<1>11. CASE \/ UNCHANGED vars \/ ReadSafeTime \/ Tick
            \/ \E t \in Timestamps : Heartbeat(t)
            \/ \E w \in Scanners : ScanWaitUntilSafe(w) \/ ScanRows(w)
  BY <1>11, OpCalls DEF vars, Heartbeat, ReadSafeTime, Tick, ScanWaitUntilSafe, ScanRows
<1>12. CASE \E w \in Flushers : FlushWaits(w)
  BY <1>12, FlushCalls
<1> QED
  BY <1>1, <1>2, <1>3, <1>4, <1>5, <1>6, <1>7, <1>8, <1>9, <1>10, <1>11, <1>12, NextCases DEF QuietStep

\* Only a scan sets what scans returned.
LEMMA ViewKept == ASSUME [Next]_vars PROVE view' = view \/ \E w \in Scanners : ScanRows(w)
<1>1. ASSUME NEW o \in Ops, ExecuteAsync(o) PROVE view' = view
  BY <1>1 DEF ExecuteAsync
<1>2. ASSUME NEW o \in Ops, ApplyStep(o) PROVE view' = view
  BY <1>2 DEF ApplyStep, ApplyWrite, FinishWrite, ApplyBeginCommit, ApplyFinalizeCommit,
     FinishFinalizeCommit, ApplyAbortTxn
<1>3. CASE PrepareFails \/ Prepare \/ AssignTimestamp \/ Start \/ Replicate
  BY <1>3 DEF PrepareFails, Prepare, AssignTimestamp, Start, Replicate
<1>4. CASE \/ PrepareThreadApplies \/ AdjustLowerBound \/ CommitRound \/ AbortOpsAfter \/ AbortRound
           \/ ReplicationFinished \/ ConsensusThreadApplies
  BY <1>4 DEF PrepareThreadApplies, AdjustLowerBound, CommitRound, AbortOpsAfter, AbortRound,
     ReplicationFinished, ConsensusThreadApplies
<1>5. CASE \/ BecomeLeader \/ AssignNoOp \/ BecomeReplica \/ ReplicateConfigChange
           \/ RefreshConsensusQueueAndPeers \/ AppendNoOp \/ AppendConfigChange
  BY <1>5 DEF BecomeLeader, AssignNoOp, BecomeReplica, ReplicateConfigChange,
     RefreshConsensusQueueAndPeers, AppendNoOp, AppendConfigChange
<1>6. ASSUME NEW t \in Timestamps, ReceiveNoOp(t) PROVE view' = view
  BY <1>6 DEF ReceiveNoOp
<1>7. ASSUME NEW o \in Ops, NEW t \in Timestamps, StartFollowerOp(o, t) PROVE view' = view
  BY <1>7 DEF StartFollowerOp
<1>8. CASE QuietStep
  BY <1>8 DEF QuietStep, Heartbeat, ReadSafeTime, Tick, ScanWaitUntilSafe, ScanWaitForSnapshot,
     FlushWaits, vars
<1> QED
  BY <1>1, <1>2, <1>3, <1>4, <1>5, <1>6, <1>7, <1>8, NextCases

\* While an op is between its start and Replicate() nothing else touches its driver.
LEMMA UnsentSteps ==
    ASSUME OrderInv, [Next]_vars, prepare_thread.pc = "replicate"
    PROVE  \/ Replicate
           \/ prepare_thread' = prepare_thread /\ op'[prepare_thread.op].ts = op[prepare_thread.op].ts
<1>0. prepare_thread.op \in Ops /\ op[prepare_thread.op].stage # "new"
  BY TypeParts, ThreadFields DEF OrderInv, PrepareInv, HoldsUnsent
<1>1. ~PrepareFails /\ ~Prepare /\ ~AdjustLowerBound
  BY DEF PrepareFails, Prepare, AdjustLowerBound, AtHead
<1>2. ~AssignTimestamp /\ ~Start /\ ~PrepareThreadApplies
  BY DEF AssignTimestamp, Start, PrepareThreadApplies
<1>3. ASSUME NEW o \in Ops, ExecuteAsync(o)
      PROVE  prepare_thread' = prepare_thread /\ op'[prepare_thread.op].ts = op[prepare_thread.op].ts
  BY <1>0, <1>3, ExecuteIs DEF ExecuteStep, SameTs
<1>4. ASSUME NEW o \in Ops, ApplyStep(o)
      PROVE  prepare_thread' = prepare_thread /\ op'[prepare_thread.op].ts = op[prepare_thread.op].ts
  BY <1>0, <1>4, ApplyStepIs DEF PoolStep, SameTs
<1>5. CASE CommitRound \/ AbortOpsAfter
  BY <1>5 DEF CommitRound, AbortOpsAfter
<1>6. CASE AbortRound
  BY <1>0, <1>6, AbortRoundIs DEF AbortOpStep, AbortOtherStep, SameTs
<1>7. CASE ReplicationFinished
  BY <1>0, <1>7, ReplicationFinishedIs DEF FinishStep, SameTs
<1>8. CASE ConsensusThreadApplies
  BY <1>0, <1>8, ConsensusThreadAppliesIs DEF FinishSubmitStep, FinishFailStep, SameTs
<1>9. CASE \/ BecomeLeader \/ AssignNoOp \/ BecomeReplica \/ ReplicateConfigChange
           \/ RefreshConsensusQueueAndPeers \/ QuietStep
  BY <1>9, RaftIs, QuietIs DEF RaftStep
<1>10. CASE AppendNoOp \/ AppendConfigChange \/ \E t \in Timestamps : ReceiveNoOp(t)
  BY <1>10, AppendIs DEF AppendOtherStep
<1>11. ASSUME NEW o \in Ops, NEW t \in Timestamps, StartFollowerOp(o, t)
       PROVE  prepare_thread' = prepare_thread /\ op'[prepare_thread.op].ts = op[prepare_thread.op].ts
  BY <1>0, <1>11, FollowIs DEF FollowStep
<1> QED
  BY <1>1, <1>2, <1>3, <1>4, <1>5, <1>6, <1>7, <1>8, <1>9, <1>10, <1>11, NextCases

\* An op that will be refused stays so until its MVCC op is aborted.
LEMMA DoomedKept ==
    ASSUME SerialTimestamps, ReplicaInv, [Next]_vars, NEW t \in Timestamps, Doomed(t), Flying(t)'
    PROVE  Doomed(t)'
<1>0. /\ OrderInv /\ ExactInv /\ ReplicaInv'
  BY ExactFacts, SerialIsExact, ReplicaStep DEF ReplicaInv
<1>1. PICK o \in Ops : prepare_thread.op = o
  BY <1>0, TypeParts, ThreadFields DEF Doomed
<1>2. /\ prepare_thread.pc = "replicate" /\ op[o].ts = t /\ ~CheckBoundTerm(o)
      /\ op[o].stage = "driven"
  BY <1>0, <1>1 DEF Doomed, OrderInv, PrepareInv, HoldsUnsent
<1>3. CASE prepare_thread' = prepare_thread /\ op'[prepare_thread.op].ts = op[prepare_thread.op].ts
  <2>1. ~CheckBoundTerm(o)'
    BY <1>0, <1>2, BoundBefore
  <2> QED
    BY <1>1, <1>2, <1>3, <2>1 DEF Doomed, CheckBoundTerm
<1>4. CASE Replicate
  <2>1. ReplicateFailStep(o)
    BY <1>0, <1>1, <1>2, <1>4, ReplicateIs
  <2>2. op'[o].stage = "failed" /\ op'[o].ts = t /\ t # 0
    BY <1>2, <2>1 DEF ReplicateFailStep, StageTo, SameTs, Timestamps
  <2>3. FlightInv' /\ Distinct'
    BY <1>0 DEF ReplicaInv, ExactInv
  <2>4. PICK x \in MvccOps : op'[x].ts = t
    BY <2>3 DEF FlightInv, DriversKnown, KnownToMvcc, M!InFlight, M!Timestamps, Flying, Timestamps
  <2>5. x = o
    BY <2>2, <2>3, <2>4, OpKinds DEF Distinct
  <2>6. OpStateOf(o)' = "NONE"
    BY <2>2 DEF OpStateOf, Reserved, Owned, Done
  <2>7. ops_in_flight'[t] = "NONE"
    BY <2>2, <2>3, <2>4, <2>5, <2>6 DEF FlightInv, StatesMatch
  <2> QED
    BY <2>7 DEF Flying
<1> QED
  BY <1>0, <1>2, <1>3, <1>4, UnsentSteps

\* What an op in flight means to a scan whose wait is over: nothing at or below its
\* timestamp.
LEMMA SettledBy ==
    ASSUME MP!SnapInv', NEW ts \in Nat, M!AreAllOpsApplied(ts, cur_snap', earliest'),
           NEW t \in Timestamps, Flying(t)'
    PROVE  t > ts
<1>1. MP!TypeOK' /\ MP!EarliestInv' /\ MP!CleanTimeInv'
  BY DEF MP!SnapInv, MP!WatermarkInv
<1>2. earliest' \in Nat /\ cur_snap'.all_applied_before \in Nat /\ t \in Nat
  BY <1>1, ReplicaAssumption DEF MP!TypeOK, MP!SnapshotType, Timestamps
<1>3. earliest' <= t
  BY <1>1 DEF MP!EarliestInv, MP!InFlight, MP!Timestamps, Timestamps, Flying
<1>4. cur_snap'.all_applied_before <= earliest'
  BY <1>1 DEF MP!CleanTimeInv
<1> QED
  BY <1>2, <1>3, <1>4 DEF M!AreAllOpsApplied

LEMMA ScanTypes ==
    ASSUME UseInv, NEW w \in Scanners
    PROVE  /\ thread[w] \in MP!ThreadType /\ thread[w].ts \in Nat
           /\ thread \in [Scanners \cup Flushers -> MP!ThreadType]
           /\ thread[w].pc \in {"idle", "entering", "checked"} => thread[w].latch = 1
           /\ MP!TypeOK /\ OrderInv
<1>1. MP!TypeOK /\ MP!WaitInv /\ OrderInv
  BY DEF UseInv, ManagersInv, MP!SnapInv
<1>2. thread \in [Scanners \cup Flushers -> MP!ThreadType]
  BY <1>1 DEF MP!TypeOK
<1>3. thread[w] \in MP!ThreadType /\ thread[w].ts \in Nat
  BY <1>2 DEF MP!ThreadType
<1>4. thread[w].pc \in {"idle", "entering", "checked"} => thread[w].latch = 1
  BY <1>1 DEF MP!WaitInv, MP!ThreadInv, MP!ThreadOK
<1> QED
  BY <1>1, <1>2, <1>3, <1>4

\* What MVCC does for one scan when an op moves.
LEMMA WokenKeeps ==
    ASSUME SerialTimestamps, ReplicaInv, ScanInv, [Next]_vars, NEW w \in Scanners, Wakes,
           \A t \in Timestamps : Flying(t)' => Flying(t) \/ t > last_safe \/ Doomed(t)'
    PROVE  ScansSnapshot(w)' /\ ScansSafe(w)' /\ ScansSettled(w)'
<1>0. /\ UseInv /\ MP!SnapInv' /\ last_safe \in Nat /\ last_safe' \in Nat /\ last_safe' >= last_safe
      /\ thread[w].ts \in Nat
      /\ thread[w].pc \in {"idle", "entering", "checked"} => thread[w].latch = 1
  BY ManagersStep, TimeTypes, ScanTypes DEF ReplicaInv, ExactInv, ManagersInv
<1>1. /\ thread'[w].pc = thread[w].pc /\ thread'[w].ts = thread[w].ts
      /\ thread'[w].wait_for = "ALL_APPLIED" /\ thread[w].wait_for = "ALL_APPLIED"
      /\ ScansSnapshot(w) /\ ScansSafe(w) /\ ScansSettled(w)
  BY DEF Wakes, ScanInv, ScansSnapshot
<1>2. ScansSnapshot(w)' /\ ScansSafe(w)'
  BY <1>0, <1>1 DEF ScansSnapshot, ScansSafe
<1>3. ASSUME Settled(w)', NEW t \in Timestamps, Flying(t)'
      PROVE  t > thread[w].ts \/ Doomed(t)'
  <2>1. CASE M!AreAllOpsApplied(thread[w].ts, cur_snap', earliest')
    BY <1>0, <1>3, <2>1, SettledBy
  <2>2. CASE thread'[w].latch = thread[w].latch
    <3>1. Settled(w) /\ thread[w].pc # "idle"
      BY <1>0, <1>1, <1>3, <2>2 DEF Settled
    <3>2. thread[w].ts <= last_safe
      BY <1>1, <3>1 DEF ScansSafe
    <3>3. CASE Flying(t)
      <4>1. t > thread[w].ts \/ Doomed(t)
        BY <1>1, <3>1, <3>3 DEF ScansSettled
      <4> QED
        BY <1>3, <4>1, DoomedKept
    <3>4. CASE t > last_safe
      BY <1>0, <3>2, <3>4 DEF Timestamps
    <3> QED
      BY <1>3, <3>3, <3>4
  <2> QED
    BY <1>1, <2>1, <2>2 DEF Wakes
<1> QED
  BY <1>1, <1>2, <1>3 DEF ScansSettled

\* The scan's own steps.
LEMMA WaitKeeps ==
    ASSUME SerialTimestamps, ReplicaInv, ScanInv, [Next]_vars, NEW x \in Scanners,
           ScanWaitForSnapshot(x), NEW w \in Scanners
    PROVE  ScansSnapshot(w)' /\ ScansSafe(w)' /\ ScansSettled(w)' /\ ScansOk(w)'
<1>0. /\ UseInv /\ MP!SnapInv' /\ last_safe \in Nat /\ last_safe' = last_safe
      /\ view' = view /\ prepare_thread' = prepare_thread /\ op' = op /\ role' = role /\ term' = term
  BY ManagersStep, TimeTypes
     DEF ReplicaInv, ExactInv, ManagersInv, ScanWaitForSnapshot, timeVars, opVars, raftVars
<1>1. /\ thread[w].ts \in Nat /\ thread[w] \in MP!ThreadType
      /\ thread \in [Scanners \cup Flushers -> MP!ThreadType]
      /\ thread[w].pc \in {"idle", "entering", "checked"} => thread[w].latch = 1
      /\ MP!TypeOK
  BY <1>0, ScanTypes
<1>2. ScansSnapshot(w) /\ ScansSafe(w) /\ ScansSettled(w) /\ ScansOk(w)
  BY DEF ScanInv
<1>3. ops_in_flight' = ops_in_flight /\ cur_snap' = cur_snap /\ earliest' = earliest
  BY DEF ScanWaitForSnapshot, M!CallWaitForSnapshot, M!WaitUntilStep, M!ScanApplyingOps,
     M!WaitUntilCheckOpen, M!WaitUntilRegister, M!WaitUntilWoken, M!WaitUntilCleanup, M!opVars
<1>4. \A t : Doomed(t)' <=> Doomed(t)
  BY <1>0 DEF Doomed, CheckBoundTerm
<1>5. ASSUME thread'[w] = thread[w]
      PROVE  ScansSnapshot(w)' /\ ScansSafe(w)' /\ ScansSettled(w)' /\ ScansOk(w)'
  BY <1>0, <1>2, <1>3, <1>4, <1>5
     DEF ScansSnapshot, ScansSafe, ScansSettled, ScansOk, Settled, Flying
<1>6. CASE x # w
  <2>1. thread'[w] = thread[w]
    BY <1>1, <1>6 DEF ScanWaitForSnapshot, M!CallWaitForSnapshot, M!WaitUntilStep, M!ScanApplyingOps,
       M!WaitUntilCheckOpen, M!WaitUntilRegister, M!WaitUntilWoken, M!WaitUntilCleanup, M!Goto
  <2> QED
    BY <1>5, <2>1
<1>7. CASE x = w /\ reader[w].pc = "ok" /\ M!CallWaitForSnapshot(w, reader[w].ts)
  <2>1. /\ thread[w].pc = "idle" /\ thread'[w].pc = "entering" /\ thread'[w].ts = reader[w].ts
        /\ thread'[w].wait_for = "ALL_APPLIED" /\ thread'[w].latch = thread[w].latch
    BY <1>1, <1>7 DEF M!CallWaitForSnapshot, MP!ThreadType
  <2>2. reader[w].ts <= last_safe
    BY <1>0, <1>7 DEF UseInv, ManagersInv, TP!SafeInv, TP!WaitedIsSafe
  <2>3. ~Settled(w)' /\ view[w] = <<>>
    BY <1>1, <1>2, <2>1 DEF Settled, ScansOk
  <2> QED
    BY <1>0, <2>1, <2>2, <2>3 DEF ScansSnapshot, ScansSafe, ScansSettled, ScansOk
<1>8. CASE x = w /\ M!WaitUntilStep(w)
  <2>1. ~M!ScanApplyingOps(w)
    BY <1>2 DEF M!ScanApplyingOps, ScansSnapshot
  <2>2. /\ thread[w].pc \in {"entering", "checked", "waiting", "expired"}
        /\ \E pc \in {"checked", "aborted", "ok", "waiting", "timedout"} :
              /\ thread' = [thread EXCEPT ![w].pc = pc]
              /\ pc = "ok" => \/ M!IsDoneWaiting(w, cur_snap, earliest, M!InFlight)
                              \/ thread[w].latch = 0
    BY <1>8, <2>1 DEF M!WaitUntilStep, M!WaitUntilCheckOpen, M!WaitUntilRegister, M!WaitUntilWoken,
       M!WaitUntilCleanup, M!Goto
  <2>3. PICK pc \in {"checked", "aborted", "ok", "waiting", "timedout"} :
              /\ thread' = [thread EXCEPT ![w].pc = pc]
              /\ pc = "ok" => \/ M!IsDoneWaiting(w, cur_snap, earliest, M!InFlight)
                              \/ thread[w].latch = 0
    BY <2>2
  <2>4. /\ thread'[w].pc = pc /\ thread'[w].ts = thread[w].ts /\ thread'[w].latch = thread[w].latch
        /\ thread'[w].wait_for = thread[w].wait_for
    BY <1>1, <2>3 DEF MP!ThreadType
  <2>5. view[w] = <<>>
    BY <1>2, <2>2 DEF ScansOk
  <2>6. ScansSnapshot(w)' /\ ScansSafe(w)' /\ ScansOk(w)'
    BY <1>0, <1>2, <2>2, <2>4, <2>5 DEF ScansSnapshot, ScansSafe, ScansOk
  <2>7. ASSUME Settled(w)', NEW t \in Timestamps, Flying(t)'
        PROVE  t > thread'[w].ts \/ Doomed(t)'
    <3>1. CASE thread[w].latch = 0
      BY <1>2, <1>3, <1>4, <2>4, <2>7, <3>1 DEF ScansSettled, Settled, Flying
    <3>2. CASE M!AreAllOpsApplied(thread[w].ts, cur_snap', earliest')
      BY <1>0, <1>1, <2>4, <2>7, <3>2, SettledBy
    <3> QED
      BY <1>2, <1>3, <2>3, <2>4, <2>7, <3>1, <3>2
         DEF Settled, ScansSnapshot, M!IsDoneWaiting
  <2> QED
    BY <2>6, <2>7 DEF ScansSettled
<1> QED
  BY <1>6, <1>7, <1>8 DEF ScanWaitForSnapshot

LEMMA ScanStep ==
    ASSUME SerialTimestamps, ReplicaInv, PinInv, ScanInv, [Next]_vars
    PROVE  ScanInv'
<1>0. /\ UseInv /\ OrderInv /\ MP!TypeOK
      /\ last_safe \in Nat
  BY ManagersStep, TimeTypes
     DEF ReplicaInv, ExactInv, UseInv, ManagersInv, MP!SnapInv
<1>1. ASSUME NEW w \in Scanners, Wakes PROVE ScansOk(w)'
  <2>1. thread'[w].pc = thread[w].pc /\ ScansOk(w)
    BY <1>1 DEF Wakes, ScanInv
  <2>2. CASE view' = view
    BY <2>1, <2>2 DEF ScansOk
  <2>3. ASSUME NEW x \in Scanners, ScanRows(x) PROVE ScansOk(w)'
    BY <2>1, <2>3 DEF ScansOk, ScanRows
  <2> QED
    BY <2>2, <2>3, ViewKept
<1>2. ASSUME Wakes, \A t \in Timestamps : Flying(t)' => Flying(t) \/ t > last_safe \/ Doomed(t)'
      PROVE  ScanInv'
  BY <1>1, <1>2, WokenKeeps DEF ScanInv
<1>3. CASE OpCall
  BY <1>2, <1>3 DEF OpCall
<1>4. CASE Start
  <2>1. PICK o \in Ops : prepare_thread.op = o /\ StartStep(o)
    BY <1>0, <1>4, StartIs
  <2>2. CASE o \notin MvccOps
    BY <1>0, <1>3, <1>4, <2>1, <2>2, OpCalls DEF Start
  <2>3. CASE o \in MvccOps
    <3>1. Wakes /\ \A u \in Timestamps : Flying(u)' => Flying(u) \/ u = op[o].ts
      BY <1>0, <1>4, <2>1, <2>3, OpCalls DEF Start
    <3>2. CASE CheckBoundTerm(o)
      <4>1. op[o].ts > last_safe
        BY <1>0, <2>1, <3>2, BoundTypes DEF PinInv, Pinned, Outstanding, StartStep
      <4> QED
        BY <1>2, <3>1, <4>1
    <3>3. CASE ~CheckBoundTerm(o)
      <4>1. ASSUME NEW u \in Timestamps, u = op[o].ts PROVE Doomed(u)'
        <5>1. prepare_thread'.pc = "replicate" /\ prepare_thread'.op = o /\ op'[o].ts = op[o].ts
          BY <2>1 DEF StartStep, SameTs
        <5>2. ~CheckBoundTerm(o)'
          BY <2>1, <3>3 DEF CheckBoundTerm, StartStep, SameTerms
        <5> QED
          BY <4>1, <5>1, <5>2 DEF Doomed, CheckBoundTerm
      <4>2. \A u \in Timestamps : Flying(u)' => Flying(u) \/ Doomed(u)'
        BY <3>1, <4>1
      <4> QED
        BY <1>2, <3>1, <4>2
    <3> QED
      BY <3>2, <3>3
  <2> QED
    BY <2>2, <2>3
<1>5. ASSUME NEW o \in Ops, NEW t \in Timestamps, StartFollowerOp(o, t) PROVE ScanInv'
  <2>1. t > last_safe
    BY <1>5 DEF StartFollowerOp, LeaderTimestamps
  <2>2. CASE o \notin MvccOps
    BY <1>0, <1>3, <1>5, <2>2, OpCalls DEF StartFollowerOp
  <2>3. CASE o \in MvccOps
    <3>1. Wakes /\ \A u \in Timestamps : Flying(u)' => Flying(u) \/ u = t
      BY <1>0, <1>5, <2>3, OpCalls DEF StartFollowerOp
    <3> QED
      BY <1>2, <2>1, <3>1
  <2> QED
    BY <2>2, <2>3
<1>6. CASE \E w \in Scanners : ScanWaitForSnapshot(w)
  BY <1>6, WaitKeeps DEF ScanInv
<1> QED
  BY <1>0, <1>3, <1>4, <1>5, <1>6, OpCallSteps

-----------------------------------------------------------------------------
(***************************************************************************)
(* The rows of a scan                                                      *)
(***************************************************************************)
\* What decides whether the rows of an op are in the tablet.
RowsIn(o) ==
    \/ o \in RowOps /\ op[o].stage \in {"applying", "applied"}
    \/ o \in FinalizeCommits /\ op[o].stage = "applied"
RowsKept ==
    \A o \in Ops : /\ RowsIn(o)' <=> RowsIn(o)
                   /\ RowsIn(o) => op'[o].ts = op[o].ts /\ op'[o].commit_ts = op[o].commit_ts

LEMMA VisibleKept == ASSUME RowsKept, NEW ts PROVE Visible(ts)' = Visible(ts)
<1>1. RowOps \subseteq Ops /\ FinalizeCommits \subseteq Ops
  BY DEF RowOps, Ops, Participants
<1>2. \A o \in RowOps : /\ op'[o].stage \in {"applying", "applied"} <=> op[o].stage \in {"applying", "applied"}
                        /\ op[o].stage \in {"applying", "applied"} => op'[o].ts = op[o].ts
  BY <1>1, OpKinds DEF RowsKept, RowsIn
<1>3. \A o \in FinalizeCommits : /\ op'[o].stage = "applied" <=> op[o].stage = "applied"
                                 /\ op[o].stage = "applied" => op'[o].commit_ts = op[o].commit_ts
  BY <1>1, OpKinds DEF RowsKept, RowsIn
<1> QED
  BY <1>2, <1>3 DEF Visible, RowOps

\* Only the apply of a write and the end of a FINALIZE_COMMIT put rows into the tablet,
\* and nothing takes them out.
LEMMA RowSteps ==
    ASSUME OrderInv, [Next]_vars
    PROVE  \/ RowsKept
           \/ \E o \in Ops : ApplyWrite(o)
           \/ \E f \in Ops : FinishFinalizeCommit(f)
<1>0. FieldsInv /\ op \in [Ops -> Driver]
  BY TypeParts DEF OrderInv, DriverTypes
<1> USE DEF RowsKept, RowsIn
<1>1. ASSUME NEW o \in Ops, ExecuteAsync(o) PROVE RowsKept
  BY <1>1, ExecuteIs DEF ExecuteStep, StageTo, SameTs, CommitTsTo
<1>2. ASSUME NEW o \in Ops, FinishWrite(o) PROVE RowsKept
  <2>1. SameTs /\ SameCommitTs
    BY <1>2, ApplyStepIs DEF PoolStep, ApplyStep
  <2>2. StageTo(o, "applied") /\ op[o].stage = "applying" /\ o \in RowOps
    BY <1>0, <1>2 DEF FinishWrite, StageTo, Driver, RowOps
  <2> QED
    BY <2>1, <2>2, OpKinds DEF StageTo, SameTs, SameCommitTs
<1>3. ASSUME NEW o \in Ops, ApplyBeginCommit(o) \/ ApplyAbortTxn(o) PROVE RowsKept
  <2>1. SameTs /\ SameCommitTs /\ \A x \in Ops : x # o => op'[x].stage = op[x].stage
    BY <1>3, ApplyStepIs DEF PoolStep, ApplyStep
  <2>2. o \in BeginCommits \cup AbortTxns
    BY <1>3 DEF ApplyBeginCommit, ApplyAbortTxn
  <2> QED
    BY <2>1, <2>2, OpKinds DEF SameTs, SameCommitTs
<1>4. ASSUME NEW o \in Ops, ApplyFinalizeCommit(o) PROVE RowsKept
  <2>1. SameTs /\ SameCommitTs
    BY <1>4, ApplyStepIs DEF PoolStep, ApplyStep
  <2>2. StageTo(o, "applying") /\ op[o].stage = "submitted" /\ o \in FinalizeCommits
    BY <1>0, <1>4 DEF ApplyFinalizeCommit, StageTo, Driver
  <2> QED
    BY <2>1, <2>2, OpKinds DEF StageTo, SameTs, SameCommitTs
<1>5. CASE PrepareFails
  <2>1. op[QueuedOp(1)].stage \notin {"applying", "applied"}
    BY <1>0, <1>5, PrepareFailsIs DEF RefuseStep, FieldsInv, FieldsOf
  <2> QED
    BY <1>5, <2>1, PrepareFailsIs DEF RefuseStep, StageTo, SameTs, SameCommitTs
<1>6. CASE Prepare
  <2>1. op[QueuedOp(1)].repl = "NOT_REPLICATING" => op[QueuedOp(1)].stage \notin {"applying", "applied"}
    BY <1>0, <1>6, PrepareIs DEF FieldsInv, FieldsOf
  <2> QED
    BY <1>6, <2>1, PrepareIs DEF RefuseStep, PrepareStep, StageTo, SameStages, SameTs, SameCommitTs
<1>7. CASE AssignTimestamp
  <2>1. op[prepare_thread.op].stage \notin {"applying", "applied"}
    BY <1>7 DEF AssignTimestamp, OrderInv, PrepareInv, HoldsLocal
  <2> QED
    BY <1>7, <2>1, AssignIs DEF AssignStep, AssignFailStep, StageTo, SameStages, SameTs, SameCommitTs
<1>8. CASE Start
  BY <1>8, StartIs DEF StartStep, SameStages, SameTs, SameCommitTs
<1>9. CASE Replicate
  <2>1. op[prepare_thread.op].stage \notin {"applying", "applied"}
    BY <1>9 DEF Replicate, OrderInv, PrepareInv, HoldsUnsent
  <2> QED
    BY <1>9, <2>1, ReplicateIs
       DEF ReplicateStep, ReplicateFailStep, StageTo, SameStages, SameTs, SameCommitTs
<1>10. CASE PrepareThreadApplies
  <2>1. op[prepare_thread.op].stage \notin {"applying", "applied"}
    BY <1>10 DEF PrepareThreadApplies, OrderInv, PrepareInv, HoldsDecided, Underway
  <2> QED
    BY <1>10, <2>1, PrepareThreadAppliesIs DEF SubmitStep, ApplyFailStep, StageTo, SameTs, SameCommitTs
<1>11. CASE ConsensusThreadApplies
  <2>1. op[consensus_thread.op].stage \notin {"applying", "applied"}
    BY <1>11, TypeParts, ThreadFields
       DEF ConsensusThreadApplies, OrderInv, ConsensusInv, FinishesInOrder
  <2> QED
    BY <1>11, <2>1, ConsensusThreadAppliesIs
       DEF FinishSubmitStep, FinishFailStep, StageTo, SameTs, SameCommitTs
<1>12. CASE AbortRound
  <2>1. CASE Rest[1].kind = "OP"
    <3>1. PICK o \in Ops : Rest[1].op = o /\ AbortOpStep(o) /\ SameCommitTs
      BY <1>12, <2>1, AbortRoundIs
    <3>2. op[o].stage = "driven"
      BY <1>12, <2>1, <3>1, AbortRoundIs DEF OrderInv, RestInv, RestAreSent
    <3>3. op'[o].stage \notin {"applying", "applied"}
      BY <3>1, <3>2 DEF AbortOpStep
    <3> QED
      BY <3>1, <3>2, <3>3 DEF AbortOpStep, SameTs, SameCommitTs
  <2>2. CASE Rest[1].kind # "OP"
    BY <1>12, <2>2, AbortRoundIs DEF AbortOtherStep
  <2> QED
    BY <2>1, <2>2
<1>13. CASE ReplicationFinished
  BY <1>13, ReplicationFinishedIs DEF FinishStep, SameStages, SameTs, SameCommitTs
<1>14. CASE AdjustLowerBound \/ CommitRound \/ AbortOpsAfter
  BY <1>14 DEF AdjustLowerBound, CommitRound, AbortOpsAfter
<1>15. CASE \/ BecomeLeader \/ AssignNoOp \/ BecomeReplica \/ ReplicateConfigChange
            \/ RefreshConsensusQueueAndPeers \/ QuietStep
  BY <1>15, RaftIs, QuietIs DEF RaftStep
<1>16. CASE AppendNoOp \/ AppendConfigChange \/ \E t \in Timestamps : ReceiveNoOp(t)
  BY <1>16, AppendIs DEF AppendOtherStep
<1>17. ASSUME NEW o \in Ops, NEW t \in Timestamps, StartFollowerOp(o, t) PROVE RowsKept
  BY <1>17, FollowIs DEF FollowStep, StageTo, CommitTsTo
<1> QED
  BY <1>1, <1>2, <1>3, <1>4, <1>5, <1>6, <1>7, <1>8, <1>9, <1>10, <1>11, <1>12, <1>13, <1>14,
     <1>15, <1>16, <1>17, NextCases DEF ApplyStep

\* The driver of an op that is in flight and will be aborted has applied nothing.
LEMMA DoomedDriver ==
    ASSUME ExactInv, NEW o \in Ops, op[o].ts # 0, Doomed(op[o].ts)
    PROVE  op[o].stage = "driven"
<1>1. prepare_thread.op \in Ops /\ op[prepare_thread.op].stage = "driven"
  BY ExactFacts, TypeParts, ThreadFields DEF Doomed, OrderInv, PrepareInv, HoldsUnsent
<1>2. prepare_thread.op = o
  BY <1>1 DEF ExactInv, Distinct, Doomed
<1> QED
  BY <1>1, <1>2

\* The rows of a scan that has waited do not change.
LEMMA RowsStay ==
    ASSUME ReplicaInv, ScanInv, [Next]_vars, NEW w \in Scanners, Settled(w), NEW ts, ts = thread[w].ts
    PROVE  Visible(ts)' = Visible(ts)
<1>0. /\ UseInv /\ ExactInv /\ OrderInv /\ ParticipantInv /\ MP!TypeOK /\ ts \in Nat
      /\ op \in [Ops -> Driver]
  BY ScanTypes, TypeParts DEF ReplicaInv, ExactInv, UseInv, DriverTypes
<1>1. \A t \in Timestamps : Flying(t) => t > ts \/ Doomed(t)
  BY DEF ScanInv, ScansSettled
<1>2. CASE RowsKept
  BY <1>2, VisibleKept
<1>3. ASSUME NEW o \in Ops, ApplyWrite(o) PROVE Visible(ts)' = Visible(ts)
  <2>1. /\ o \in RowOps /\ op[o].stage = "submitted" /\ ops_in_flight[op[o].ts] = "RESERVED"
        /\ op' = [op EXCEPT ![o].stage = "applying"]
    BY <1>3 DEF ApplyWrite, M!StartApplyingOp, RowOps
  <2>2. op[o].ts \in Timestamps /\ op[o].ts # 0
    BY <1>0, <2>1, StampedTs, OpKinds DEF OrderInv, FieldsInv, FieldsOf, Timestamps
  <2>3. op[o].ts > ts
    BY <1>0, <1>1, <2>1, <2>2, DoomedDriver DEF Flying
  <2>4. /\ \A x \in Ops : op'[x].ts = op[x].ts /\ op'[x].commit_ts = op[x].commit_ts
        /\ \A x \in Ops : x # o => op'[x].stage = op[x].stage
    BY <1>0, <2>1 DEF Driver
  <2>5. o \notin Visible(ts) /\ o \notin Visible(ts)'
    BY <1>0, <2>1, <2>2, <2>3, <2>4, OpKinds DEF Visible, RowOps, Timestamps
  <2>6. \A x \in Ops : x # o => (x \in Visible(ts)' <=> x \in Visible(ts))
    BY <2>4 DEF Visible
  <2>7. Visible(ts) \subseteq Ops /\ Visible(ts)' \subseteq Ops
    BY OpKinds DEF Visible, RowOps
  <2> QED
    BY <2>5, <2>6, <2>7
<1>4. ASSUME NEW f \in Ops, FinishFinalizeCommit(f) PROVE Visible(ts)' = Visible(ts)
  <2>1. /\ f \in FinalizeCommits /\ op[f].stage = "applying"
        /\ ops_in_flight[txn.commit_op] = "APPLYING"
        /\ op' = [op EXCEPT ![f].stage = "applied"]
    BY <1>4 DEF FinishFinalizeCommit, M!FinishApplyingOp
  <2>2. PICK b \in BeginCommits : op[b].repl = "REPLICATED" /\ op[f].commit_ts >= op[b].ts
    BY <1>0, <2>1 DEF ParticipantInv, FinalizeInv
  <2>3. txn.commit_op # 0
    BY <1>0, <2>1, <2>2, CommitOpTs, OpKinds DEF Timestamps
  <2>4. PICK c \in BeginCommits : Done(c) /\ op[c].ts = txn.commit_op /\ op[c].repl = "REPLICATED"
    BY <1>0, <2>3, OwnerIs
  <2>5. b = c
    BY <1>0, <2>2, <2>4 DEF ParticipantInv, OneBegin, Going
  <2>6. op[c].ts \in Timestamps /\ op[c].ts # 0 /\ c \in Ops /\ op[c].stage = "applied"
    BY <1>0, <2>4, StampedTs, OpKinds DEF Timestamps, Done
  <2>7. op[c].ts > ts
    BY <1>0, <1>1, <2>1, <2>4, <2>6, DoomedDriver DEF Flying
  <2>8. op[f].commit_ts \in Nat
    BY <1>0 DEF Driver
  <2>9. op[f].commit_ts > ts
    BY <1>0, <2>2, <2>5, <2>6, <2>7, <2>8 DEF Timestamps
  <2>10. /\ \A x \in Ops : op'[x].ts = op[x].ts /\ op'[x].commit_ts = op[x].commit_ts
         /\ \A x \in Ops : x # f => op'[x].stage = op[x].stage
    BY <1>0, <2>1 DEF Driver
  <2>11. f \notin Visible(ts) /\ f \notin Visible(ts)'
    BY <1>0, <2>1, <2>8, <2>9, <2>10, OpKinds DEF Visible, RowOps
  <2>12. \A x \in Ops : x # f => (x \in Visible(ts)' <=> x \in Visible(ts))
    BY <2>10 DEF Visible
  <2>13. Visible(ts) \subseteq Ops /\ Visible(ts)' \subseteq Ops
    BY OpKinds DEF Visible, RowOps
  <2> QED
    BY <2>11, <2>12, <2>13
<1> QED
  BY <1>0, <1>2, <1>3, <1>4, RowSteps

-----------------------------------------------------------------------------
(***************************************************************************)
(* Repeatable reads                                                        *)
(***************************************************************************)
ReadInv == DOMAIN view = Scanners /\ RepeatableRead

LEMMA ScanInit == Init => ScanInv /\ ReadInv
<1> SUFFICES ASSUME Init, NEW w \in Scanners
             PROVE  /\ ScansSnapshot(w) /\ ScansSafe(w) /\ ScansSettled(w) /\ ScansOk(w)
                    /\ view[w] = <<>>
  BY DEF Init, ScanInv, ReadInv, RepeatableRead
<1>1. /\ thread[w].pc = "idle" /\ thread[w].wait_for = "ALL_APPLIED" /\ thread[w].latch = 1
      /\ view[w] = <<>>
  BY DEF Init, M!Init
<1> QED
  BY <1>1 DEF ScansSnapshot, ScansSafe, ScansSettled, ScansOk, Settled

\* A scan that has returned its rows stays at its timestamp.
LEMMA ScannedStays ==
    ASSUME UseInv, [Next]_vars, NEW w \in Scanners, thread[w].pc = "ok"
    PROVE  thread'[w].ts = thread[w].ts
<1>0. /\ OrderInv /\ MP!TypeOK /\ thread \in [Scanners \cup Flushers -> MP!ThreadType]
  BY ScanTypes
<1>1. CASE Wakes
  BY <1>1 DEF Wakes
<1>2. CASE Start
  BY <1>0, <1>1, <1>2, OpCalls DEF Start, OpCall
<1>3. CASE \E o \in Ops, t \in Timestamps : StartFollowerOp(o, t)
  BY <1>0, <1>1, <1>3, OpCalls DEF StartFollowerOp, OpCall
<1>4. ASSUME NEW x \in Scanners, ScanWaitForSnapshot(x) PROVE thread'[w].ts = thread[w].ts
  <2>1. x # w => thread'[w] = thread[w]
    BY <1>0, <1>4 DEF ScanWaitForSnapshot, M!CallWaitForSnapshot, M!WaitUntilStep,
       M!ScanApplyingOps, M!WaitUntilCheckOpen, M!WaitUntilRegister, M!WaitUntilWoken,
       M!WaitUntilCleanup, M!Goto
  <2>2. x # w
    BY <1>4 DEF ScanWaitForSnapshot, M!CallWaitForSnapshot, M!WaitUntilStep,
       M!ScanApplyingOps, M!WaitUntilCheckOpen, M!WaitUntilRegister, M!WaitUntilWoken,
       M!WaitUntilCleanup, M!Goto
  <2> QED
    BY <2>1, <2>2
<1> QED
  BY <1>0, <1>1, <1>2, <1>3, <1>4, OpCallSteps DEF OpCall

LEMMA ReadStep ==
    ASSUME ReplicaInv, ScanInv, ReadInv, [Next]_vars
    PROVE  ReadInv'
<1>0. UseInv /\ DOMAIN view = Scanners /\ RepeatableRead
  BY DEF ReplicaInv, ExactInv, ReadInv
<1>a. DOMAIN view' = Scanners
  BY <1>0, ViewKept DEF ScanRows
<1> SUFFICES ASSUME NEW w \in Scanners, view'[w] # <<>>
             PROVE  view'[w] = <<Visible(thread[w].ts)>>'
  BY <1>a DEF ReadInv, RepeatableRead
<1>1. CASE view' = view
  <2>1. /\ view[w] = <<Visible(thread[w].ts)>> /\ thread[w].pc = "ok" /\ Settled(w)
    BY <1>0, <1>1 DEF RepeatableRead, ScanInv, ScansOk, Settled
  <2>2. thread'[w].ts = thread[w].ts
    BY <1>0, <2>1, ScannedStays
  <2>3. DEFINE ts == thread[w].ts
  <2>4. PICK r : r = ts
    OBVIOUS
  <2>5. Visible(r)' = Visible(r)
    BY <2>1, <2>4, RowsStay
  <2>6. r = ts'
    BY <2>2, <2>4
  <2> QED
    BY <1>1, <2>1, <2>4, <2>5, <2>6 DEF Visible
<1>2. ASSUME NEW x \in Scanners, ScanRows(x) PROVE view'[w] = <<Visible(thread[w].ts)>>'
  <2>1. thread' = thread /\ op' = op
    BY <1>2 DEF ScanRows, mvccVars, opVars
  <2>2. <<Visible(thread[w].ts)>>' = <<Visible(thread[w].ts)>>
    BY <2>1 DEF Visible
  <2>3. CASE x = w
    BY <1>0, <1>2, <2>2, <2>3 DEF ScanRows
  <2>4. CASE x # w
    <3>1. view'[w] = view[w]
      BY <1>0, <1>2, <2>4 DEF ScanRows
    <3> QED
      BY <1>0, <2>2, <3>1 DEF RepeatableRead
  <2> QED
    BY <2>3, <2>4
<1> QED
  BY <1>1, <1>2, ViewKept

LEMMA ReadHolds ==
    ASSUME SerialTimestamps
    PROVE  Spec => [](ReplicaInv /\ PinInv /\ ScanInv /\ ReadInv)
<1>1. ReplicaInv /\ PinInv /\ ScanInv /\ ReadInv /\ [Next]_vars
      => ReplicaInv' /\ PinInv' /\ ScanInv' /\ ReadInv'
  BY SerialIsExact, ReplicaStep, PinStep, ScanStep, ReadStep
<1> QED
  BY <1>1, ReplicaInit, PinInit, ScanInit, PTL DEF Spec

\* A scan at a timestamp, repeated at any later time, returns the rows it returned before
\* (tablet_service.cc: "always return the same data when scanning at the same timestamp
\* (repeatable reads)"): once WaitUntilSafe() and the wait in MVCC are over, no write and
\* no commit of a transaction adds a row at or below the scan's timestamp, whatever the
\* replica's role, the ops its leadership leaves behind, and the order of their applies.
THEOREM ReadsAreRepeatable ==
    ASSUME SerialTimestamps
    PROVE  Spec => []RepeatableRead
<1>1. ReadInv => RepeatableRead
  BY DEF ReadInv
<1> QED
  BY <1>1, ReadHolds, PTL

=============================================================================
