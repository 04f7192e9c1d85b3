------------------------- MODULE ReplicaMvccProofs -------------------------
(***************************************************************************)
(* How the drivers of a replica use its MVCC and time managers, for every  *)
(* set of ops and every bound.                                             *)
(*                                                                         *)
(* 1. A replica never calls the managers but as their own specifications   *)
(*    allow, so that all that MvccProofs and TimeManagerProofs prove holds *)
(*    of the managers inside it (ReplicaUsesManagers).                     *)
(* 2. A driver and its MVCC op agree (DriversMatchMvcc): no timestamp is   *)
(*    given twice, and what is in flight is owned by one driver or by the  *)
(*    transaction.                                                         *)
(* 3. StartOp is only called above the lower bound (StartOpAlwaysAllowed). *)
(***************************************************************************)
EXTENDS ReplicaOrderProofs

MP == INSTANCE MvccProofs WITH Threads <- Scanners \cup Flushers
TP == INSTANCE TimeManagerProofs WITH Threads <- Scanners, HeartbeatSkew <- 0

-----------------------------------------------------------------------------
(***************************************************************************)
(* The transaction                                                         *)
(***************************************************************************)
\* An op has a timestamp from the moment it is assigned one.
Stamped ==
    \A o \in Ops : IF op[o].repl = "NOT_REPLICATING"
                   THEN op[o].ts # 0 <=> OnPrepare({"start"}, o)
                   ELSE op[o].ts # 0

\* A participant op between its prepare and its end, and one that may be replicated.
Locking(p) == Prepared(p) /\ op[p].stage \notin {"failed", "applied"}
Going(b)   == op[b].repl \in {"REPLICATING", "REPLICATED"}
Done(b)    == op[b].stage = "applied"

\* The lock of the transaction is held by the one op that was prepared last, and the
\* state still is what its validation saw.
LockInv ==
    /\ \A p \in Participants : Locking(p) <=> txn.lock = p
    /\ txn.lock \in Participants => ValidateOp(txn.lock)

\* The MVCC op that the transaction owns is that of the BEGIN_COMMIT.
TxnInv ==
    /\ txn.state = "OPEN" => txn.commit_op = 0
    /\ txn.state = "COMMIT_IN_PROGRESS" => txn.commit_op # 0
    /\ txn.commit_op # 0 => \E b \in BeginCommits : Done(b) /\ op[b].ts = txn.commit_op
    /\ \A b \in BeginCommits : Done(b) => txn.state # "OPEN" /\ op[b].ts = txn.commit_op

\* At most one BEGIN_COMMIT is in the log, and one that is still to be prepared
\* comes before any other that is.
OneBegin == \A a, b \in BeginCommits : Going(a) /\ Going(b) => a = b
BeginFirst ==
    \A i \in DOMAIN prepare_queue :
        PreparesAt(i) /\ QueuedOp(i) \in BeginCommits /\ Going(QueuedOp(i)) =>
            /\ \A b \in BeginCommits : ~Locking(b) /\ ~Done(b)
            /\ \A j \in DOMAIN prepare_queue :
                  PreparesAt(j) /\ QueuedOp(j) \in BeginCommits => i <= j

\* FINALIZE_COMMIT is sent with a timestamp from a replicated BEGIN_COMMIT on.
FinalizeInv ==
    \A f \in FinalizeCommits : op[f].stage # "new" =>
        /\ op[f].commit_ts # 0
        /\ \E b \in BeginCommits : op[b].repl = "REPLICATED" /\ op[f].commit_ts >= op[b].ts

ParticipantInv == Stamped /\ LockInv /\ TxnInv /\ OneBegin /\ BeginFirst /\ FinalizeInv

\* A step that adds nothing to what these are about; d tasks leave the queue.
LocksKept == UNCHANGED txn /\ \A p \in Participants : Locking(p)' <=> Locking(p)
LockReleased(o) ==
    /\ Locking(o) /\ ~Locking(o)'
    /\ \A p \in Participants : p # o => (Locking(p)' <=> Locking(p))
    /\ o \in Participants => txn'.lock = NoOne
    /\ o \notin Participants => txn'.lock = txn.lock
    /\ txn'.state = txn.state
QueueKept(d) ==
    \A i \in DOMAIN prepare_queue' : PreparesAt(i)' =>
        /\ i \in Nat /\ i + d \in DOMAIN prepare_queue
        /\ PreparesAt(i + d) /\ QueuedOp(i)' = QueuedOp(i + d)
BeginsKept ==
    \A b \in BeginCommits :
        /\ Locking(b)' => Locking(b)
        /\ Done(b)' <=> Done(b)
        /\ Done(b) => op'[b].ts = op[b].ts
        /\ Going(b)' => Going(b)
        /\ op[b].repl = "REPLICATED" => op'[b].repl = "REPLICATED" /\ op'[b].ts = op[b].ts
FinalizesKept ==
    \A f \in FinalizeCommits : op'[f].stage # "new" =>
        op[f].stage # "new" /\ op'[f].commit_ts = op[f].commit_ts
TxnKept == txn'.state = txn.state /\ txn'.commit_op = txn.commit_op

LEMMA OpKinds ==
    /\ RowOps \subseteq Ops /\ Participants \subseteq Ops
    /\ BeginCommits \subseteq Participants /\ FinalizeCommits \subseteq Participants
    /\ AbortTxns \subseteq Participants
    /\ Ops = RowOps \cup Participants
    /\ RowOps \cap Participants = {} /\ BeginCommits \cap FinalizeCommits = {}
    /\ BeginCommits \cap AbortTxns = {} /\ FinalizeCommits \cap AbortTxns = {}
    /\ NoOne \notin Participants
    /\ MvccOps = RowOps \cup BeginCommits
  BY ReplicaAssumption DEF RowOps, Ops, Participants, MvccOps

LEMMA LocksKeptKeeps == ASSUME LockInv, LocksKept PROVE LockInv'
  BY DEF LockInv, LocksKept, ValidateOp

LEMMA LockReleasedKeeps ==
    ASSUME LockInv, NEW o \in Ops, LockReleased(o)
    PROVE  LockInv'
<1>1. CASE o \in Participants
  BY <1>1, OpKinds DEF LockInv, LockReleased
<1>2. CASE o \notin Participants
  BY <1>2 DEF LockInv, LockReleased, ValidateOp
<1> QED
  BY <1>1, <1>2

LEMMA KeptKeeps ==
    ASSUME ParticipantInv, NEW d \in {0, 1}, QueueKept(d), BeginsKept, FinalizesKept, TxnKept
    PROVE  TxnInv' /\ OneBegin' /\ BeginFirst' /\ FinalizeInv'
<1>1. TxnInv'
  BY DEF ParticipantInv, TxnInv, BeginsKept, TxnKept
<1>2. OneBegin'
  BY DEF ParticipantInv, OneBegin, BeginsKept
<1>3. BeginFirst'
  BY DEF ParticipantInv, BeginFirst, BeginsKept, QueueKept
<1>4. FinalizeInv'
  BY DEF ParticipantInv, FinalizeInv, BeginsKept, FinalizesKept
<1> QED
  BY <1>1, <1>2, <1>3, <1>4

-----------------------------------------------------------------------------
(***************************************************************************)
(* The steps that leave the transaction alone, or give up its lock         *)
(***************************************************************************)
LEMMA RefuseKeepsTxn ==
    ASSUME OrderInv, ParticipantInv, NEW o \in Ops, RefuseStep(o),
           SameCommitTs, UNCHANGED txn
    PROVE  ParticipantInv'
<1>1. FieldTypes
  BY FieldTypesHold DEF OrderInv
<1>2. Underway(o) /\ ~Prepared(o)
  BY <1>1 DEF OrderInv, QueueInv, QueuedUnprepared, RefuseStep, QueueShifts
<1>3. Stamped'
  BY <1>1, <1>2 DEF ParticipantInv, Stamped, OnPrepare, RefuseStep, StageTo, SameRepl,
         SamePrep, SameTs, SameCommitTs, QueueShifts
<1>4. QueueKept(1)
  BY <1>1 DEF QueueKept, FieldTypes, RefuseStep, QueueShifts
<1>5. BeginsKept
  BY <1>1, <1>2, OpKinds DEF BeginsKept, Locking, Done, Going, Prepared, FieldTypes,
         RefuseStep, StageTo, SameRepl, SamePrep, SameTs, SameCommitTs, QueueShifts,
         Underway
<1>6. FinalizesKept
  BY <1>1, <1>2, OpKinds DEF FinalizesKept, RefuseStep, StageTo, SameRepl, SamePrep, SameTs,
         SameCommitTs, QueueShifts, Underway
<1>7. TxnKept
  BY DEF TxnKept
<1>8. LocksKept
  BY <1>1, <1>2, OpKinds DEF LocksKept, Locking, Prepared, FieldTypes, RefuseStep, StageTo,
         SameRepl, SamePrep, SameTs, SameCommitTs, QueueShifts
<1>9. LockInv'
  BY <1>8, LocksKeptKeeps DEF ParticipantInv
<1> QED
  BY <1>3, <1>4, <1>5, <1>6, <1>7, <1>9, KeptKeeps DEF ParticipantInv

LEMMA AssignKeepsTxn ==
    ASSUME OrderInv, ParticipantInv, NEW o \in Ops, NEW t \in Timestamps, AssignStep(o),
           TsTo(o, t), SameCommitTs, UNCHANGED txn
    PROVE  ParticipantInv'
<1>1. FieldTypes
  BY FieldTypesHold DEF OrderInv
<1>2. op[o].repl = "NOT_REPLICATING" /\ op[o].stage = "driven"
  BY DEF OrderInv, PrepareInv, HoldsLocal, AssignStep
<1>3. Stamped'
  BY <1>1, <1>2 DEF ParticipantInv, Stamped, OnPrepare, AssignStep, SameStages, SameRepl,
         SamePrep, TsTo, SameCommitTs, Timestamps
<1>4. QueueKept(0)
  BY <1>1 DEF QueueKept, FieldTypes, AssignStep, PreparesAt, QueuedOp
<1>5. BeginsKept
  BY <1>1, <1>2, OpKinds DEF BeginsKept, Locking, Done, Going, Prepared, FieldTypes,
         AssignStep, SameStages, SameRepl, SamePrep, TsTo, SameCommitTs, Timestamps
<1>6. FinalizesKept
  BY <1>1, <1>2, OpKinds DEF FinalizesKept, AssignStep, SameStages, SameRepl, SamePrep,
         TsTo, SameCommitTs, Timestamps
<1>7. TxnKept
  BY DEF TxnKept
<1>8. LocksKept
  BY <1>1, <1>2, OpKinds DEF LocksKept, Locking, Prepared, FieldTypes, AssignStep,
         SameStages, SameRepl, SamePrep, TsTo, SameCommitTs, Timestamps
<1>9. LockInv'
  BY <1>8, LocksKeptKeeps DEF ParticipantInv
<1> QED
  BY <1>3, <1>4, <1>5, <1>6, <1>7, <1>9, KeptKeeps DEF ParticipantInv

LEMMA ReplicateKeepsTxn ==
    ASSUME OrderInv, ParticipantInv, NEW o \in Ops, ReplicateStep(o),
           SameCommitTs, UNCHANGED txn
    PROVE  ParticipantInv'
<1>1. FieldTypes
  BY FieldTypesHold DEF OrderInv
<1>2. Stamped'
  BY <1>1 DEF ParticipantInv, Stamped, OnPrepare, ReplicateStep, SameStages, SameRepl,
         SamePrep, SameTs, SameCommitTs, Idle
<1>3. QueueKept(0)
  BY <1>1 DEF QueueKept, FieldTypes, ReplicateStep, PreparesAt, QueuedOp
<1>4. BeginsKept
  BY <1>1, OpKinds DEF BeginsKept, Locking, Done, Going, Prepared, FieldTypes,
         ReplicateStep, SameStages, SameRepl, SamePrep, SameTs, SameCommitTs, Idle
<1>5. FinalizesKept
  BY <1>1, OpKinds DEF FinalizesKept, ReplicateStep, SameStages, SameRepl, SamePrep, SameTs,
         SameCommitTs, Idle
<1>6. TxnKept
  BY DEF TxnKept
<1>7. LocksKept
  BY <1>1, OpKinds DEF LocksKept, Locking, Prepared, FieldTypes, ReplicateStep, SameStages,
         SameRepl, SamePrep, SameTs, SameCommitTs, Idle
<1>8. LockInv'
  BY <1>7, LocksKeptKeeps DEF ParticipantInv
<1> QED
  BY <1>2, <1>3, <1>4, <1>5, <1>6, <1>8, KeptKeeps DEF ParticipantInv

LEMMA SubmitKeepsTxn ==
    ASSUME OrderInv, ParticipantInv, NEW o \in Ops, SubmitStep(o),
           SameCommitTs, UNCHANGED txn
    PROVE  ParticipantInv'
<1>1. FieldTypes
  BY FieldTypesHold DEF OrderInv
<1>2. op[o].stage = "driven"
  BY DEF OrderInv, PrepareInv, HoldsDecided, SubmitStep, Underway, FieldsInv, FieldsOf
<1>3. Stamped'
  BY <1>1, <1>2 DEF ParticipantInv, Stamped, OnPrepare, SubmitStep, StageTo, SameRepl,
         SamePrep, SameTs, SameCommitTs, Idle
<1>4. QueueKept(0)
  BY <1>1 DEF QueueKept, FieldTypes, SubmitStep, PreparesAt, QueuedOp
<1>5. BeginsKept
  BY <1>1, <1>2, OpKinds DEF BeginsKept, Locking, Done, Going, Prepared, FieldTypes,
         SubmitStep, StageTo, SameRepl, SamePrep, SameTs, SameCommitTs, Idle
<1>6. FinalizesKept
  BY <1>1, <1>2, OpKinds DEF FinalizesKept, SubmitStep, StageTo, SameRepl, SamePrep, SameTs,
         SameCommitTs, Idle
<1>7. TxnKept
  BY DEF TxnKept
<1>8. LocksKept
  BY <1>1, <1>2, OpKinds DEF LocksKept, Locking, Prepared, FieldTypes, SubmitStep, StageTo,
         SameRepl, SamePrep, SameTs, SameCommitTs, Idle
<1>9. LockInv'
  BY <1>8, LocksKeptKeeps DEF ParticipantInv
<1> QED
  BY <1>3, <1>4, <1>5, <1>6, <1>7, <1>9, KeptKeeps DEF ParticipantInv

LEMMA FinishSubmitKeepsTxn ==
    ASSUME OrderInv, ParticipantInv, NEW o \in Ops, FinishSubmitStep(o),
           SameCommitTs, UNCHANGED txn
    PROVE  ParticipantInv'
<1>1. FieldTypes
  BY FieldTypesHold DEF OrderInv
<1>2. op[o].stage = "driven"
  BY DEF OrderInv, ConsensusInv, AppliesDecided, FinishesInOrder, FinishSubmitStep
<1>3. Stamped'
  BY <1>1, <1>2 DEF ParticipantInv, Stamped, OnPrepare, FinishSubmitStep, StageTo, SameRepl,
         SamePrep, SameTs, SameCommitTs
<1>4. QueueKept(0)
  BY <1>1 DEF QueueKept, FieldTypes, FinishSubmitStep, PreparesAt, QueuedOp
<1>5. BeginsKept
  BY <1>1, <1>2, OpKinds DEF BeginsKept, Locking, Done, Going, Prepared, FieldTypes,
         FinishSubmitStep, StageTo, SameRepl, SamePrep, SameTs, SameCommitTs
<1>6. FinalizesKept
  BY <1>1, <1>2, OpKinds DEF FinalizesKept, FinishSubmitStep, StageTo, SameRepl, SamePrep,
         SameTs, SameCommitTs
<1>7. TxnKept
  BY DEF TxnKept
<1>8. LocksKept
  BY <1>1, <1>2, OpKinds DEF LocksKept, Locking, Prepared, FieldTypes, FinishSubmitStep,
         StageTo, SameRepl, SamePrep, SameTs, SameCommitTs
<1>9. LockInv'
  BY <1>8, LocksKeptKeeps DEF ParticipantInv
<1> QED
  BY <1>3, <1>4, <1>5, <1>6, <1>7, <1>9, KeptKeeps DEF ParticipantInv

LEMMA LowerBoundKeepsTxn ==
    ASSUME OrderInv, ParticipantInv, LowerBoundStep,
           UNCHANGED txn
    PROVE  ParticipantInv'
<1>1. FieldTypes
  BY FieldTypesHold DEF OrderInv
<1>2. Stamped'
  BY <1>1 DEF ParticipantInv, Stamped, OnPrepare, LowerBoundStep, QueueShifts
<1>3. QueueKept(1)
  BY <1>1 DEF QueueKept, FieldTypes, LowerBoundStep, QueueShifts
<1>4. BeginsKept
  BY <1>1, OpKinds DEF BeginsKept, Locking, Done, Going, Prepared, FieldTypes,
         LowerBoundStep, QueueShifts
<1>5. FinalizesKept
  BY <1>1, OpKinds DEF FinalizesKept, LowerBoundStep, QueueShifts
<1>6. TxnKept
  BY DEF TxnKept
<1>7. LocksKept
  BY <1>1, OpKinds DEF LocksKept, Locking, Prepared, FieldTypes, LowerBoundStep, QueueShifts
<1>8. LockInv'
  BY <1>7, LocksKeptKeeps DEF ParticipantInv
<1> QED
  BY <1>2, <1>3, <1>4, <1>5, <1>6, <1>8, KeptKeeps DEF ParticipantInv

LEMMA RowPoolKeepsTxn ==
    ASSUME OrderInv, ParticipantInv, NEW o \in RowOps, PoolStep(o),
           SameCommitTs, UNCHANGED txn
    PROVE  ParticipantInv'
<1>1. FieldTypes
  BY FieldTypesHold DEF OrderInv
<1>2. op[o].repl = "REPLICATED"
  BY OpKinds DEF OrderInv, FieldsInv, FieldsOf, PoolStep
<1>3. Stamped'
  BY <1>1, <1>2 DEF ParticipantInv, Stamped, OnPrepare, PoolStep, SameRepl, SamePrep,
         SameTs, SameCommitTs
<1>4. QueueKept(0)
  BY <1>1 DEF QueueKept, FieldTypes, PoolStep, PreparesAt, QueuedOp
<1>5. BeginsKept
  BY <1>1, <1>2, OpKinds DEF BeginsKept, Locking, Done, Going, Prepared, FieldTypes,
         PoolStep, SameRepl, SamePrep, SameTs, SameCommitTs
<1>6. FinalizesKept
  BY <1>1, <1>2, OpKinds DEF FinalizesKept, PoolStep, SameRepl, SamePrep, SameTs,
         SameCommitTs
<1>7. TxnKept
  BY DEF TxnKept
<1>8. LocksKept
  BY <1>1, <1>2, OpKinds DEF LocksKept, Locking, Prepared, FieldTypes, PoolStep, SameRepl,
         SamePrep, SameTs, SameCommitTs
<1>9. LockInv'
  BY <1>8, LocksKeptKeeps DEF ParticipantInv
<1> QED
  BY <1>3, <1>4, <1>5, <1>6, <1>7, <1>9, KeptKeeps DEF ParticipantInv

LEMMA ApplyFinalizeKeepsTxn ==
    ASSUME OrderInv, ParticipantInv, NEW o \in FinalizeCommits, PoolStep(o),
           op'[o].stage = "applying", SameCommitTs, UNCHANGED txn
    PROVE  ParticipantInv'
<1>1. FieldTypes
  BY FieldTypesHold DEF OrderInv
<1>2. op[o].repl = "REPLICATED"
  BY OpKinds DEF OrderInv, FieldsInv, FieldsOf, PoolStep
<1>3. Stamped'
  BY <1>1, <1>2 DEF ParticipantInv, Stamped, OnPrepare, PoolStep, SameRepl, SamePrep,
         SameTs, SameCommitTs
<1>4. QueueKept(0)
  BY <1>1 DEF QueueKept, FieldTypes, PoolStep, PreparesAt, QueuedOp
<1>5. BeginsKept
  BY <1>1, <1>2, OpKinds DEF BeginsKept, Locking, Done, Going, Prepared, FieldTypes,
         PoolStep, SameRepl, SamePrep, SameTs, SameCommitTs
<1>6. FinalizesKept
  BY <1>1, <1>2, OpKinds DEF FinalizesKept, PoolStep, SameRepl, SamePrep, SameTs,
         SameCommitTs
<1>7. TxnKept
  BY DEF TxnKept
<1>8. LocksKept
  BY <1>1, <1>2, OpKinds DEF LocksKept, Locking, Prepared, FieldTypes, PoolStep, SameRepl,
         SamePrep, SameTs, SameCommitTs
<1>9. LockInv'
  BY <1>8, LocksKeptKeeps DEF ParticipantInv
<1> QED
  BY <1>3, <1>4, <1>5, <1>6, <1>7, <1>9, KeptKeeps DEF ParticipantInv

LEMMA CommitOpKeepsTxn ==
    ASSUME OrderInv, ParticipantInv, NEW o \in Ops, CommitOpStep(o),
           UNCHANGED txn
    PROVE  ParticipantInv'
<1>1. FieldTypes
  BY FieldTypesHold DEF OrderInv
<1>2. Stamped'
  BY <1>1 DEF ParticipantInv, Stamped, OnPrepare, CommitOpStep
<1>3. QueueKept(0)
  BY <1>1 DEF QueueKept, FieldTypes, CommitOpStep, PreparesAt, QueuedOp
<1>4. BeginsKept
  BY <1>1, OpKinds DEF BeginsKept, Locking, Done, Going, Prepared, FieldTypes, CommitOpStep
<1>5. FinalizesKept
  BY <1>1, OpKinds DEF FinalizesKept, CommitOpStep
<1>6. TxnKept
  BY DEF TxnKept
<1>7. LocksKept
  BY <1>1, OpKinds DEF LocksKept, Locking, Prepared, FieldTypes, CommitOpStep
<1>8. LockInv'
  BY <1>7, LocksKeptKeeps DEF ParticipantInv
<1> QED
  BY <1>2, <1>3, <1>4, <1>5, <1>6, <1>8, KeptKeeps DEF ParticipantInv

LEMMA CommitOtherKeepsTxn ==
    ASSUME OrderInv, ParticipantInv, CommitOtherStep,
           UNCHANGED txn
    PROVE  ParticipantInv'
<1>1. FieldTypes
  BY FieldTypesHold DEF OrderInv
<1>2. Stamped'
  BY <1>1 DEF ParticipantInv, Stamped, OnPrepare, CommitOtherStep
<1>3. QueueKept(0)
  BY <1>1 DEF QueueKept, FieldTypes, CommitOtherStep
<1>4. BeginsKept
  BY <1>1, OpKinds DEF BeginsKept, Locking, Done, Going, Prepared, FieldTypes,
         CommitOtherStep
<1>5. FinalizesKept
  BY <1>1, OpKinds DEF FinalizesKept, CommitOtherStep
<1>6. TxnKept
  BY DEF TxnKept
<1>7. LocksKept
  BY <1>1, OpKinds DEF LocksKept, Locking, Prepared, FieldTypes, CommitOtherStep
<1>8. LockInv'
  BY <1>7, LocksKeptKeeps DEF ParticipantInv
<1> QED
  BY <1>2, <1>3, <1>4, <1>5, <1>6, <1>8, KeptKeeps DEF ParticipantInv

LEMMA AbortAfterKeepsTxn ==
    ASSUME OrderInv, ParticipantInv, NEW k \in Nat, AbortAfterStep(k),
           UNCHANGED txn
    PROVE  ParticipantInv'
<1>1. FieldTypes
  BY FieldTypesHold DEF OrderInv
<1>2. Stamped'
  BY <1>1 DEF ParticipantInv, Stamped, OnPrepare, AbortAfterStep
<1>3. QueueKept(0)
  BY <1>1 DEF QueueKept, FieldTypes, AbortAfterStep, PreparesAt, QueuedOp
<1>4. BeginsKept
  BY <1>1, OpKinds DEF BeginsKept, Locking, Done, Going, Prepared, FieldTypes,
         AbortAfterStep
<1>5. FinalizesKept
  BY <1>1, OpKinds DEF FinalizesKept, AbortAfterStep
<1>6. TxnKept
  BY DEF TxnKept
<1>7. LocksKept
  BY <1>1, OpKinds DEF LocksKept, Locking, Prepared, FieldTypes, AbortAfterStep
<1>8. LockInv'
  BY <1>7, LocksKeptKeeps DEF ParticipantInv
<1> QED
  BY <1>2, <1>3, <1>4, <1>5, <1>6, <1>8, KeptKeeps DEF ParticipantInv

LEMMA AbortOpKeepsTxn ==
    ASSUME OrderInv, ParticipantInv, NEW o \in Ops, AbortOpStep(o),
           SameCommitTs, UNCHANGED txn
    PROVE  ParticipantInv'
<1>1. FieldTypes
  BY FieldTypesHold DEF OrderInv
<1>2. op[o].stage = "driven" /\ op[o].repl = "REPLICATING"
  BY DEF OrderInv, RestInv, RestAreSent, AbortOpStep, RestShifts
<1>3. Stamped'
  BY <1>1, <1>2 DEF ParticipantInv, Stamped, OnPrepare, AbortOpStep, SameRepl, SamePrep,
         SameTs, SameCommitTs
<1>4. QueueKept(0)
  BY <1>1 DEF QueueKept, FieldTypes, AbortOpStep, PreparesAt, QueuedOp
<1>5. BeginsKept
  BY <1>1, <1>2, OpKinds DEF BeginsKept, Locking, Done, Going, Prepared, FieldTypes,
         AbortOpStep, SameRepl, SamePrep, SameTs, SameCommitTs
<1>6. FinalizesKept
  BY <1>1, <1>2, OpKinds DEF FinalizesKept, AbortOpStep, SameRepl, SamePrep, SameTs,
         SameCommitTs
<1>7. TxnKept
  BY DEF TxnKept
<1>8. LocksKept
  BY <1>1, <1>2, OpKinds DEF LocksKept, Locking, Prepared, FieldTypes, AbortOpStep,
         SameRepl, SamePrep, SameTs, SameCommitTs
<1>9. LockInv'
  BY <1>8, LocksKeptKeeps DEF ParticipantInv
<1> QED
  BY <1>3, <1>4, <1>5, <1>6, <1>7, <1>9, KeptKeeps DEF ParticipantInv

LEMMA AbortOtherKeepsTxn ==
    ASSUME OrderInv, ParticipantInv, AbortOtherStep,
           UNCHANGED txn
    PROVE  ParticipantInv'
<1>1. FieldTypes
  BY FieldTypesHold DEF OrderInv
<1>2. Stamped'
  BY <1>1 DEF ParticipantInv, Stamped, OnPrepare, AbortOtherStep
<1>3. QueueKept(0)
  BY <1>1 DEF QueueKept, FieldTypes, AbortOtherStep, PreparesAt, QueuedOp
<1>4. BeginsKept
  BY <1>1, OpKinds DEF BeginsKept, Locking, Done, Going, Prepared, FieldTypes,
         AbortOtherStep
<1>5. FinalizesKept
  BY <1>1, OpKinds DEF FinalizesKept, AbortOtherStep
<1>6. TxnKept
  BY DEF TxnKept
<1>7. LocksKept
  BY <1>1, OpKinds DEF LocksKept, Locking, Prepared, FieldTypes, AbortOtherStep
<1>8. LockInv'
  BY <1>7, LocksKeptKeeps DEF ParticipantInv
<1> QED
  BY <1>2, <1>3, <1>4, <1>5, <1>6, <1>8, KeptKeeps DEF ParticipantInv

LEMMA FinishKeepsTxn ==
    ASSUME OrderInv, ParticipantInv, NEW o \in Ops, FinishStep(o),
           SameCommitTs, UNCHANGED txn
    PROVE  ParticipantInv'
<1>1. FieldTypes
  BY FieldTypesHold DEF OrderInv
<1>2. op[o].repl = "REPLICATING"
  BY DEF OrderInv, ConsensusInv, FinishesSent, FinishStep
<1>3. Stamped'
  BY <1>1, <1>2 DEF ParticipantInv, Stamped, OnPrepare, FinishStep, ReplTo, SameStages,
         SamePrep, SameTs, SameCommitTs
<1>4. QueueKept(0)
  BY <1>1 DEF QueueKept, FieldTypes, FinishStep, PreparesAt, QueuedOp
<1>5. BeginsKept
  BY <1>1, <1>2, OpKinds DEF BeginsKept, Locking, Done, Going, Prepared, FieldTypes,
         FinishStep, ReplTo, SameStages, SamePrep, SameTs, SameCommitTs
<1>6. FinalizesKept
  BY <1>1, <1>2, OpKinds DEF FinalizesKept, FinishStep, ReplTo, SameStages, SamePrep,
         SameTs, SameCommitTs
<1>7. TxnKept
  BY DEF TxnKept
<1>8. LocksKept
  BY <1>1, <1>2, OpKinds DEF LocksKept, Locking, Prepared, FieldTypes, FinishStep, ReplTo,
         SameStages, SamePrep, SameTs, SameCommitTs
<1>9. LockInv'
  BY <1>8, LocksKeptKeeps DEF ParticipantInv
<1> QED
  BY <1>3, <1>4, <1>5, <1>6, <1>7, <1>9, KeptKeeps DEF ParticipantInv

LEMMA RaftKeepsTxn ==
    ASSUME OrderInv, ParticipantInv, RaftStep,
           UNCHANGED txn
    PROVE  ParticipantInv'
<1>1. FieldTypes
  BY FieldTypesHold DEF OrderInv
<1>2. Stamped'
  BY <1>1 DEF ParticipantInv, Stamped, OnPrepare, RaftStep
<1>3. QueueKept(0)
  BY <1>1 DEF QueueKept, FieldTypes, RaftStep, PreparesAt, QueuedOp
<1>4. BeginsKept
  BY <1>1, OpKinds DEF BeginsKept, Locking, Done, Going, Prepared, FieldTypes, RaftStep
<1>5. FinalizesKept
  BY <1>1, OpKinds DEF FinalizesKept, RaftStep
<1>6. TxnKept
  BY DEF TxnKept
<1>7. LocksKept
  BY <1>1, OpKinds DEF LocksKept, Locking, Prepared, FieldTypes, RaftStep
<1>8. LockInv'
  BY <1>7, LocksKeptKeeps DEF ParticipantInv
<1> QED
  BY <1>2, <1>3, <1>4, <1>5, <1>6, <1>8, KeptKeeps DEF ParticipantInv

LEMMA AppendOtherKeepsTxn ==
    ASSUME OrderInv, ParticipantInv, NEW r, AppendOtherStep(r),
           UNCHANGED txn
    PROVE  ParticipantInv'
<1>1. FieldTypes
  BY FieldTypesHold DEF OrderInv
<1>2. Stamped'
  BY <1>1 DEF ParticipantInv, Stamped, OnPrepare, AppendOtherStep
<1>3. QueueKept(0)
  BY <1>1 DEF QueueKept, FieldTypes, AppendOtherStep, PreparesAt, QueuedOp
<1>4. BeginsKept
  BY <1>1, OpKinds DEF BeginsKept, Locking, Done, Going, Prepared, FieldTypes,
         AppendOtherStep
<1>5. FinalizesKept
  BY <1>1, OpKinds DEF FinalizesKept, AppendOtherStep
<1>6. TxnKept
  BY DEF TxnKept
<1>7. LocksKept
  BY <1>1, OpKinds DEF LocksKept, Locking, Prepared, FieldTypes, AppendOtherStep
<1>8. LockInv'
  BY <1>7, LocksKeptKeeps DEF ParticipantInv
<1> QED
  BY <1>2, <1>3, <1>4, <1>5, <1>6, <1>8, KeptKeeps DEF ParticipantInv

LEMMA AssignFailKeepsTxn ==
    ASSUME OrderInv, ParticipantInv, NEW o \in Ops, AssignFailStep(o),
           SameCommitTs, txn' = Unlocked(o)
    PROVE  ParticipantInv'
<1>1. FieldTypes
  BY FieldTypesHold DEF OrderInv
<1>2. op[o].stage = "driven" /\ Prepared(o)
  BY DEF OrderInv, PrepareInv, HoldsLocal, HoldsPrepared, AssignFailStep
<1>3. Stamped'
  BY <1>1, <1>2 DEF ParticipantInv, Stamped, OnPrepare, AssignFailStep, StageTo, SameRepl,
         SamePrep, SameTs, SameCommitTs, Idle
<1>4. QueueKept(0)
  BY <1>1 DEF QueueKept, FieldTypes, AssignFailStep, PreparesAt, QueuedOp
<1>5. BeginsKept
  BY <1>1, <1>2, OpKinds DEF BeginsKept, Locking, Done, Going, Prepared, FieldTypes,
         AssignFailStep, StageTo, SameRepl, SamePrep, SameTs, SameCommitTs, Idle
<1>6. FinalizesKept
  BY <1>1, <1>2, OpKinds DEF FinalizesKept, AssignFailStep, StageTo, SameRepl, SamePrep,
         SameTs, SameCommitTs, Idle
<1>7. TxnKept
  BY TypeParts DEF TxnKept, Unlocked, TxnType
<1>8. LockReleased(o)
  BY <1>1, <1>2, OpKinds, TypeParts DEF LockReleased, ParticipantInv, LockInv, Locking,
         Prepared, Unlocked, TxnType, AssignFailStep, StageTo, SameRepl, SamePrep, SameTs,
         SameCommitTs, Idle
<1>9. LockInv'
  BY <1>8, LockReleasedKeeps DEF ParticipantInv
<1> QED
  BY <1>3, <1>4, <1>5, <1>6, <1>7, <1>9, KeptKeeps DEF ParticipantInv

LEMMA ReplicateFailKeepsTxn ==
    ASSUME OrderInv, ParticipantInv, NEW o \in Ops, ReplicateFailStep(o),
           SameCommitTs, txn' = Unlocked(o)
    PROVE  ParticipantInv'
<1>1. FieldTypes
  BY FieldTypesHold DEF OrderInv
<1>2. op[o].stage = "driven" /\ Prepared(o) /\ op[o].repl = "REPLICATING"
  BY DEF OrderInv, PrepareInv, HoldsUnsent, HoldsPrepared, ReplicateFailStep
<1>3. Stamped'
  BY <1>1, <1>2 DEF ParticipantInv, Stamped, OnPrepare, ReplicateFailStep, StageTo, ReplTo,
         SamePrep, SameTs, SameCommitTs, Idle
<1>4. QueueKept(0)
  BY <1>1 DEF QueueKept, FieldTypes, ReplicateFailStep, PreparesAt, QueuedOp
<1>5. BeginsKept
  BY <1>1, <1>2, OpKinds DEF BeginsKept, Locking, Done, Going, Prepared, FieldTypes,
         ReplicateFailStep, StageTo, ReplTo, SamePrep, SameTs, SameCommitTs, Idle
<1>6. FinalizesKept
  BY <1>1, <1>2, OpKinds DEF FinalizesKept, ReplicateFailStep, StageTo, ReplTo, SamePrep,
         SameTs, SameCommitTs, Idle
<1>7. TxnKept
  BY TypeParts DEF TxnKept, Unlocked, TxnType
<1>8. LockReleased(o)
  BY <1>1, <1>2, OpKinds, TypeParts DEF LockReleased, ParticipantInv, LockInv, Locking,
         Prepared, Unlocked, TxnType, ReplicateFailStep, StageTo, ReplTo, SamePrep, SameTs,
         SameCommitTs, Idle
<1>9. LockInv'
  BY <1>8, LockReleasedKeeps DEF ParticipantInv
<1> QED
  BY <1>3, <1>4, <1>5, <1>6, <1>7, <1>9, KeptKeeps DEF ParticipantInv

LEMMA ApplyFailKeepsTxn ==
    ASSUME OrderInv, ParticipantInv, NEW o \in Ops, ApplyFailStep(o),
           SameCommitTs, txn' = Unlocked(o)
    PROVE  ParticipantInv'
<1>1. FieldTypes
  BY FieldTypesHold DEF OrderInv
<1>2. Underway(o) /\ Prepared(o)
  BY DEF OrderInv, PrepareInv, HoldsDecided, HoldsPrepared, ApplyFailStep
<1>3. Stamped'
  BY <1>1, <1>2 DEF ParticipantInv, Stamped, OnPrepare, ApplyFailStep, StageTo, SameRepl,
         SamePrep, SameTs, SameCommitTs, Idle
<1>4. QueueKept(0)
  BY <1>1 DEF QueueKept, FieldTypes, ApplyFailStep, PreparesAt, QueuedOp
<1>5. BeginsKept
  BY <1>1, <1>2, OpKinds DEF BeginsKept, Locking, Done, Going, Prepared, FieldTypes,
         ApplyFailStep, StageTo, SameRepl, SamePrep, SameTs, SameCommitTs, Idle, Underway
<1>6. FinalizesKept
  BY <1>1, <1>2, OpKinds DEF FinalizesKept, ApplyFailStep, StageTo, SameRepl, SamePrep,
         SameTs, SameCommitTs, Idle, Underway
<1>7. TxnKept
  BY TypeParts DEF TxnKept, Unlocked, TxnType
<1>8. LockReleased(o)
  BY <1>1, <1>2, OpKinds, TypeParts DEF LockReleased, ParticipantInv, LockInv, Locking,
         Prepared, Unlocked, TxnType, ApplyFailStep, StageTo, SameRepl, SamePrep, SameTs,
         SameCommitTs, Idle, Underway
<1>9. LockInv'
  BY <1>8, LockReleasedKeeps DEF ParticipantInv
<1> QED
  BY <1>3, <1>4, <1>5, <1>6, <1>7, <1>9, KeptKeeps DEF ParticipantInv

LEMMA FinishFailKeepsTxn ==
    ASSUME OrderInv, ParticipantInv, NEW o \in Ops, FinishFailStep(o),
           SameCommitTs, txn' = Unlocked(o)
    PROVE  ParticipantInv'
<1>1. FieldTypes
  BY FieldTypesHold DEF OrderInv
<1>2. op[o].stage \in {"driven", "mvcc_aborted"} /\ Prepared(o)
  BY DEF OrderInv, ConsensusInv, AppliesDecided, FinishesInOrder, FinishFailStep
<1>3. Stamped'
  BY <1>1, <1>2 DEF ParticipantInv, Stamped, OnPrepare, FinishFailStep, StageTo, SameRepl,
         SamePrep, SameTs, SameCommitTs
<1>4. QueueKept(0)
  BY <1>1 DEF QueueKept, FieldTypes, FinishFailStep, PreparesAt, QueuedOp
<1>5. BeginsKept
  BY <1>1, <1>2, OpKinds DEF BeginsKept, Locking, Done, Going, Prepared, FieldTypes,
         FinishFailStep, StageTo, SameRepl, SamePrep, SameTs, SameCommitTs
<1>6. FinalizesKept
  BY <1>1, <1>2, OpKinds DEF FinalizesKept, FinishFailStep, StageTo, SameRepl, SamePrep,
         SameTs, SameCommitTs
<1>7. TxnKept
  BY TypeParts DEF TxnKept, Unlocked, TxnType
<1>8. LockReleased(o)
  BY <1>1, <1>2, OpKinds, TypeParts DEF LockReleased, ParticipantInv, LockInv, Locking,
         Prepared, Unlocked, TxnType, FinishFailStep, StageTo, SameRepl, SamePrep, SameTs,
         SameCommitTs
<1>9. LockInv'
  BY <1>8, LockReleasedKeeps DEF ParticipantInv
<1> QED
  BY <1>3, <1>4, <1>5, <1>6, <1>7, <1>9, KeptKeeps DEF ParticipantInv

-----------------------------------------------------------------------------
(***************************************************************************)
(* The steps of a participant op                                           *)
(***************************************************************************)
LEMMA ExecuteKeepsTxn ==
    ASSUME OrderInv, ParticipantInv, NEW o \in Ops, ExecuteStep(o),
           \E cts \in FinalizeTimestamps(o) : CommitTsTo(o, cts), UNCHANGED txn
    PROVE  ParticipantInv'
<1>1. FieldTypes
  BY FieldTypesHold DEF OrderInv
<1>2. /\ op[o].repl = "NOT_REPLICATING" /\ op[o].prep = "NOT_PREPARED"
  BY DEF OrderInv, FieldsInv, FieldsOf, ExecuteStep
<1>3. Stamped'
  BY DEF ParticipantInv, Stamped, OnPrepare, ExecuteStep, SameRepl, SameTs
<1>4. LocksKept
  BY <1>2, OpKinds DEF LocksKept, Locking, Prepared, ExecuteStep, StageTo, SamePrep
<1>5. LockInv'
  BY <1>4, LocksKeptKeeps DEF ParticipantInv
<1>6. BeginsKept
  BY <1>2, OpKinds DEF BeginsKept, Locking, Done, Going, Prepared, ExecuteStep, StageTo, SameRepl,
     SamePrep, SameTs
<1>7. TxnInv' /\ OneBegin'
  BY <1>6 DEF ParticipantInv, TxnInv, OneBegin, BeginsKept
<1>8. BeginFirst'
  BY <1>1, <1>2, <1>6 DEF ParticipantInv, BeginFirst, BeginsKept, Going, FieldTypes, ExecuteStep,
     PrepareJoins, QueueGrows, SameRepl
<1>9. FinalizeInv'
  <2> SUFFICES ASSUME NEW f \in FinalizeCommits, op'[f].stage # "new"
               PROVE  /\ op'[f].commit_ts # 0
                      /\ \E b \in BeginCommits :
                            op'[b].repl = "REPLICATED" /\ op'[f].commit_ts >= op'[b].ts
    BY DEF FinalizeInv
  <2>1. PICK cts \in FinalizeTimestamps(o) : CommitTsTo(o, cts)
    OBVIOUS
  <2>2. CASE f = o
    <3>1. /\ op'[f].commit_ts \in Timestamps
          /\ \E b \in BeginCommits : op[b].repl = "REPLICATED" /\ op'[f].commit_ts >= op[b].ts
      BY <2>1, <2>2 DEF FinalizeTimestamps, CommitTsTo
    <3> QED
      BY <3>1, <1>6 DEF BeginsKept, Timestamps
  <2>3. CASE f # o
    <3>1. op[f].stage # "new" /\ op'[f].commit_ts = op[f].commit_ts
      BY <2>1, <2>3, OpKinds DEF ExecuteStep, StageTo, CommitTsTo
    <3> QED
      BY <3>1, <1>6 DEF ParticipantInv, FinalizeInv, BeginsKept
  <2> QED
    BY <2>2, <2>3
<1> QED
  BY <1>3, <1>5, <1>7, <1>8, <1>9 DEF ParticipantInv

\* PrepareTask() takes the lock of the transaction after it is validated.
LEMMA PrepareKeepsTxn ==
    ASSUME OrderInv, ParticipantInv, NEW o \in Ops, PrepareStep(o),
           o \in Participants => txn.lock = NoOne, ValidateOp(o),
           txn' = IF o \in Participants THEN [txn EXCEPT !.lock = o] ELSE txn
    PROVE  ParticipantInv'
<1>1. FieldTypes
  BY FieldTypesHold DEF OrderInv
<1>2. Underway(o) /\ ~Prepared(o)
  BY <1>1 DEF OrderInv, QueueInv, QueuedUnprepared, PrepareStep, QueueShifts
<1>3. Stamped'
  BY DEF ParticipantInv, Stamped, OnPrepare, PrepareStep, SameRepl, SameTs, Idle
<1>4. /\ Locking(o)' /\ \A p \in Participants : p # o => (Locking(p)' <=> Locking(p))
  BY <1>2, OpKinds DEF Locking, Prepared, Underway, PrepareStep, SameStages, PrepTo
<1>5. LockInv'
  <2>1. CASE o \in Participants
    <3>1. txn'.lock = o /\ txn'.state = txn.state
      BY <2>1, TypeParts DEF TxnType
    <3>2. \A p \in Participants : ~Locking(p)
      BY <2>1, OpKinds DEF ParticipantInv, LockInv
    <3>3. ValidateOp(o)'
      BY <3>1 DEF ValidateOp
    <3> QED
      BY <3>1, <3>2, <3>3, <1>4, <2>1 DEF LockInv, ValidateOp
  <2>2. CASE o \notin Participants
    BY <2>2, <1>4 DEF ParticipantInv, LockInv, ValidateOp
  <2> QED
    BY <2>1, <2>2
<1>6. QueueKept(1)
  BY <1>1 DEF QueueKept, FieldTypes, PrepareStep, QueueShifts
<1>7. FinalizesKept /\ TxnKept
  BY OpKinds, TypeParts DEF FinalizesKept, TxnKept, PrepareStep, SameStages, SameCommitTs, TxnType
<1>8. CASE o \notin BeginCommits
  <2>1. BeginsKept
    BY <1>4, <1>8, OpKinds DEF BeginsKept, Done, Going, PrepareStep, SameStages, SameRepl, SameTs
  <2> QED
    BY <1>3, <1>5, <1>6, <1>7, <2>1, KeptKeeps DEF ParticipantInv
<1>9. CASE o \in BeginCommits
  <2>1. TxnInv' /\ OneBegin' /\ FinalizeInv'
    <3>1. \A b \in BeginCommits : /\ Done(b)' <=> Done(b)
                                  /\ Going(b)' <=> Going(b)
                                  /\ op'[b].ts = op[b].ts
                                  /\ op'[b].repl = op[b].repl
      BY OpKinds DEF Done, Going, PrepareStep, SameStages, SameRepl, SameTs
    <3>2. TxnInv'
      BY <3>1, <1>7 DEF ParticipantInv, TxnInv, TxnKept
    <3>3. OneBegin'
      BY <3>1 DEF ParticipantInv, OneBegin
    <3>4. FinalizeInv'
      BY <3>1, <1>7 DEF ParticipantInv, FinalizeInv, FinalizesKept
    <3> QED
      BY <3>2, <3>3, <3>4
  <2>2. BeginFirst'
    <3> SUFFICES ASSUME NEW i \in DOMAIN prepare_queue', PreparesAt(i)',
                        QueuedOp(i)' \in BeginCommits, Going(QueuedOp(i))'
                 PROVE  FALSE
      BY DEF BeginFirst
    <3>1. /\ i \in Nat /\ i >= 1 /\ i + 1 \in DOMAIN prepare_queue /\ PreparesAt(i + 1)
          /\ QueuedOp(i + 1) \in BeginCommits /\ Going(QueuedOp(i + 1))
      BY OpKinds DEF PrepareStep, QueueShifts, Going, SameRepl
    <3>2. i + 1 <= 1
      BY <3>1, <1>9 DEF ParticipantInv, BeginFirst, PrepareStep, QueueShifts
    <3> QED
      BY <3>1, <3>2
  <2> QED
    BY <1>3, <1>5, <2>1, <2>2 DEF ParticipantInv
<1> QED
  BY <1>8, <1>9

\* What an op that has the lock knows of the transaction.
LEMMA LockerKnows ==
    ASSUME ParticipantInv, NEW o \in Participants, Locking(o)
    PROVE  txn.lock = o /\ ValidateOp(o) /\ \A p \in Participants : p # o => ~Locking(p)
  BY DEF ParticipantInv, LockInv

\* The BEGIN_COMMIT that is started or applied is the only one in the log.
LEMMA LockingBegin ==
    ASSUME OrderInv, ParticipantInv, NEW o \in BeginCommits, Locking(o)
    PROVE  txn.state = "OPEN" /\ \A b \in BeginCommits : ~Done(b) /\ (b # o => ~Going(b))
<1>1. FieldTypes
  BY FieldTypesHold DEF OrderInv
<1>2. txn.state = "OPEN" /\ \A p \in Participants : p # o => ~Locking(p)
  BY LockerKnows, OpKinds DEF ValidateOp
<1>3. \A b \in BeginCommits : ~Done(b)
  BY <1>2 DEF ParticipantInv, TxnInv
<1>4. ASSUME NEW b \in BeginCommits, b # o, Going(b) PROVE FALSE
  <2>1. b \in Ops /\ b \in Participants /\ b \notin RowOps
    BY OpKinds
  <2>2. ~Locking(b)
    BY <1>2, <1>4, <2>1
  <2>3. op[b].stage \notin {"new", "failed", "mvcc_aborted", "applied"}
    BY <1>3, <1>4, <2>1 DEF OrderInv, FieldsInv, FieldsOf, Going, Done
  <2>4. op[b].stage \in Stages
    BY <1>1, <2>1 DEF FieldTypes, Driver
  <2>5. op[b].stage = "driven" /\ ~Prepared(b)
    BY <2>1, <2>2, <2>3, <2>4 DEF OrderInv, FieldsInv, FieldsOf, Locking, Prepared, Stages
  <2>6. PICK i \in DOMAIN prepare_queue : PreparesAt(i) /\ QueuedOp(i) = b
    BY <2>1, <2>5 DEF OrderInv, QueueInv, UnpreparedQueued, Underway
  <2> QED
    BY <1>4, <2>6 DEF ParticipantInv, BeginFirst
<1> QED
  BY <1>2, <1>3, <1>4

\* op_->Start() puts the op on its way into the log.
LEMMA StartKeepsTxn ==
    ASSUME OrderInv, ParticipantInv, NEW o \in Ops, StartStep(o), SameCommitTs, UNCHANGED txn
    PROVE  ParticipantInv'
<1>1. FieldTypes
  BY FieldTypesHold DEF OrderInv
<1>2. op[o].stage = "driven" /\ Prepared(o) /\ op[o].repl = "NOT_REPLICATING"
  BY DEF OrderInv, PrepareInv, HoldsLocal, HoldsPrepared, StartStep
<1>3. Stamped'
  BY <1>2 DEF ParticipantInv, Stamped, OnPrepare, StartStep, ReplTo, SameTs
<1>4. LocksKept
  BY OpKinds DEF LocksKept, Locking, Prepared, StartStep, SameStages, SamePrep
<1>5. LockInv'
  BY <1>4, LocksKeptKeeps DEF ParticipantInv
<1>6. /\ \A b \in BeginCommits : /\ Locking(b)' <=> Locking(b)
                                 /\ Done(b)' <=> Done(b)
                                 /\ op'[b].ts = op[b].ts
                                 /\ b # o => (Going(b)' <=> Going(b))
                                 /\ op[b].repl = "REPLICATED" => op'[b].repl = "REPLICATED"
  BY <1>2, OpKinds DEF Locking, Prepared, Done, Going, StartStep, SameStages, SamePrep, SameTs, ReplTo
<1>7. TxnInv'
  BY <1>6 DEF ParticipantInv, TxnInv
<1>8. o \in BeginCommits => \A b \in BeginCommits : b # o => ~Going(b)
  BY <1>2, LockingBegin DEF Locking
<1>9. OneBegin'
  BY <1>6, <1>8 DEF ParticipantInv, OneBegin
<1>10. \A i \in DOMAIN prepare_queue : PreparesAt(i) => QueuedOp(i) # o
  BY <1>2 DEF OrderInv, QueueInv, QueuedUnprepared
<1>11. BeginFirst'
  <2>1. /\ DOMAIN prepare_queue' = DOMAIN prepare_queue
        /\ \A i \in DOMAIN prepare_queue :
              (PreparesAt(i)' <=> PreparesAt(i)) /\ QueuedOp(i)' = QueuedOp(i)
    BY DEF StartStep, PreparesAt, QueuedOp
  <2> QED
    BY <1>6, <1>10, <2>1 DEF ParticipantInv, BeginFirst
<1>12. FinalizeInv'
  BY <1>6, OpKinds DEF ParticipantInv, FinalizeInv, StartStep, SameStages, SameCommitTs
<1> QED
  BY <1>3, <1>5, <1>7, <1>9, <1>11, <1>12 DEF ParticipantInv

\* What the apply of a participant op finds.
LEMMA SubmittedLocks ==
    ASSUME OrderInv, ParticipantInv, NEW o \in Participants,
           op[o].stage \in {"submitted", "applying"}
    PROVE  Locking(o) /\ txn.lock = o /\ ValidateOp(o)
  BY OpKinds, LockerKnows DEF OrderInv, FieldsInv, FieldsOf, Locking, Prepared

\* ApplyTask() of BEGIN_COMMIT, FINALIZE_COMMIT or ABORT_TXN ends the op: the state of
\* the transaction moves and the lock is given up.
LEMMA PoolKeepsTxn ==
    ASSUME OrderInv, ParticipantInv, NEW o \in Participants, PoolStep(o), SameCommitTs,
           op'[o].stage = "applied",
           \/ /\ o \in BeginCommits
              /\ txn' = [Unlocked(o) EXCEPT !.state = "COMMIT_IN_PROGRESS", !.commit_op = op[o].ts]
           \/ /\ o \in FinalizeCommits
              /\ txn' = [Unlocked(o) EXCEPT !.state = "COMMITTED", !.commit_ts = op[o].commit_ts]
           \/ /\ o \in AbortTxns
              /\ txn' = [Unlocked(o) EXCEPT !.state = "ABORTED"]
    PROVE  ParticipantInv'
<1>1. FieldTypes /\ o \in Ops
  BY FieldTypesHold, OpKinds DEF OrderInv
<1>2. Locking(o) /\ txn.lock = o /\ ValidateOp(o) /\ op[o].repl = "REPLICATED"
  BY <1>1, SubmittedLocks DEF PoolStep, OrderInv, FieldsInv, FieldsOf
<1>3. Stamped'
  BY DEF ParticipantInv, Stamped, OnPrepare, PoolStep, SameRepl, SameTs
<1>4. txn'.lock = NoOne
  BY <1>2, TypeParts DEF Unlocked, TxnType
<1>5. LockInv'
  <2>1. \A p \in Participants : p # o => ~Locking(p)
    BY <1>2, LockerKnows
  <2>2. \A p \in Participants : ~Locking(p)'
    BY <2>1, OpKinds DEF Locking, Prepared, PoolStep, SamePrep
  <2> QED
    BY <2>2, <1>4, OpKinds DEF LockInv
<1>6. /\ \A b \in BeginCommits : /\ Locking(b)' => Locking(b)
                                 /\ b # o => (Done(b)' <=> Done(b))
                                 /\ op'[b].ts = op[b].ts
                                 /\ Going(b)' <=> Going(b)
                                 /\ op'[b].repl = op[b].repl
  BY <1>2, OpKinds DEF Locking, Prepared, Done, Going, PoolStep, SamePrep, SameTs, SameRepl
<1>7. OneBegin'
  BY <1>6 DEF ParticipantInv, OneBegin
<1>8. FinalizesKept
  BY OpKinds, <1>1 DEF FinalizesKept, PoolStep, SameCommitTs
<1>9. FinalizeInv'
  BY <1>6, <1>8 DEF ParticipantInv, FinalizeInv, FinalizesKept
<1>10. QueueKept(0)
  BY <1>1 DEF QueueKept, FieldTypes, PoolStep, PreparesAt, QueuedOp
<1>11. CASE o \in BeginCommits
  <2>1. txn.state = "OPEN" /\ \A b \in BeginCommits : ~Done(b)
    BY <1>2, <1>11, LockingBegin
  <2>2. txn'.state = "COMMIT_IN_PROGRESS" /\ txn'.commit_op = op[o].ts
    BY <1>11, OpKinds, TypeParts DEF Unlocked, TxnType
  <2>3. op[o].ts # 0 /\ Done(o)'
    BY <1>1, <1>2 DEF ParticipantInv, Stamped, Done
  <2>4. TxnInv'
    BY <1>6, <1>11, <2>1, <2>2, <2>3 DEF TxnInv
  <2>5. BeginFirst'
    <3>1. \A i \in DOMAIN prepare_queue : PreparesAt(i) /\ QueuedOp(i) \in BeginCommits =>
             ~Going(QueuedOp(i))
      BY <1>2, <1>11 DEF ParticipantInv, BeginFirst
    <3> QED
      BY <1>6, <1>10, <3>1 DEF BeginFirst, QueueKept
  <2> QED
    BY <1>3, <1>5, <1>7, <1>9, <2>4, <2>5 DEF ParticipantInv
<1>12. CASE o \notin BeginCommits
  <2>1. txn'.state \in {"COMMITTED", "ABORTED"} /\ txn'.commit_op = txn.commit_op
    BY <1>12, TypeParts DEF Unlocked, TxnType
  <2>2. \A b \in BeginCommits : Done(b)' <=> Done(b)
    BY <1>6, <1>12
  <2>3. TxnInv'
    BY <1>6, <2>1, <2>2 DEF ParticipantInv, TxnInv
  <2>4. BeginFirst'
    BY <1>6, <1>10, <2>2 DEF ParticipantInv, BeginFirst, QueueKept
  <2> QED
    BY <1>3, <1>5, <1>7, <1>9, <2>3, <2>4 DEF ParticipantInv
<1> QED
  BY <1>11, <1>12

\* StartFollowerOp(): the leader's participant ops follow one another.
LEMMA FollowKeepsTxn ==
    ASSUME OrderInv, ParticipantInv, NEW o \in Ops, FollowStep(o), NEW t \in Timestamps, TsTo(o, t),
           \E cts \in FinalizeTimestamps(o) : CommitTsTo(o, cts), UNCHANGED txn, LeaderMaySend(o)
    PROVE  ParticipantInv'
<1>1. FieldTypes
  BY FieldTypesHold DEF OrderInv
<1>2. op[o].repl = "NOT_REPLICATING" /\ op[o].prep = "NOT_PREPARED" /\ op[o].stage = "new"
  BY DEF OrderInv, FieldsInv, FieldsOf, FollowStep
<1>3. Stamped'
  BY <1>2 DEF ParticipantInv, Stamped, OnPrepare, FollowStep, ReplTo, TsTo, Timestamps
<1>4. LocksKept
  BY <1>2, OpKinds DEF LocksKept, Locking, Prepared, FollowStep, StageTo, SamePrep
<1>5. LockInv'
  BY <1>4, LocksKeptKeeps DEF ParticipantInv
<1>6. \A b \in BeginCommits : /\ Locking(b)' <=> Locking(b)
                              /\ Done(b)' <=> Done(b)
                              /\ b # o => /\ op'[b].ts = op[b].ts
                                          /\ op'[b].repl = op[b].repl
                                          /\ Going(b)' <=> Going(b)
  BY <1>2, OpKinds DEF Locking, Prepared, Done, Going, FollowStep, StageTo, SamePrep, TsTo, ReplTo
<1>7. TxnInv'
  BY <1>2, <1>6 DEF ParticipantInv, TxnInv, Done
<1>8. o \in BeginCommits => \A b \in BeginCommits : ~Going(b) /\ ~Locking(b) /\ ~Done(b)
  BY OpKinds DEF LeaderMaySend, OrderInv, FieldsInv, FieldsOf, Going, Locking, Done, Prepared
<1>9. OneBegin'
  BY <1>6, <1>8 DEF ParticipantInv, OneBegin
<1>10. BeginFirst'
  <2>1. CASE o \in BeginCommits
    <3>1. \A i \in DOMAIN prepare_queue : PreparesAt(i) => QueuedOp(i) \notin BeginCommits
      BY <2>1, OpKinds DEF LeaderMaySend, OrderInv, QueueInv, QueuedUnprepared, Underway
    <3> QED
      BY <1>6, <1>8, <2>1, <3>1, <1>1
         DEF BeginFirst, FollowStep, PrepareJoins, QueueGrows, FieldTypes
  <2>2. CASE o \notin BeginCommits
    BY <1>6, <2>2, <1>1 DEF ParticipantInv, BeginFirst, FollowStep, PrepareJoins, QueueGrows, FieldTypes
  <2> QED
    BY <2>1, <2>2
<1>11. FinalizeInv'
  <2> SUFFICES ASSUME NEW f \in FinalizeCommits, op'[f].stage # "new"
               PROVE  /\ op'[f].commit_ts # 0
                      /\ \E b \in BeginCommits :
                            op'[b].repl = "REPLICATED" /\ op'[f].commit_ts >= op'[b].ts
    BY DEF FinalizeInv
  <2>1. PICK cts \in FinalizeTimestamps(o) : CommitTsTo(o, cts)
    OBVIOUS
  <2>2. \A b \in BeginCommits : op[b].repl = "REPLICATED" =>
           op'[b].repl = "REPLICATED" /\ op'[b].ts = op[b].ts
    BY <1>2, <1>6
  <2>3. CASE f = o
    <3>1. /\ op'[f].commit_ts \in Timestamps
          /\ \E b \in BeginCommits : op[b].repl = "REPLICATED" /\ op'[f].commit_ts >= op[b].ts
      BY <2>1, <2>3 DEF FinalizeTimestamps, CommitTsTo
    <3> QED
      BY <3>1, <2>2 DEF Timestamps
  <2>4. CASE f # o
    <3>1. op[f].stage # "new" /\ op'[f].commit_ts = op[f].commit_ts
      BY <2>1, <2>4, OpKinds DEF FollowStep, StageTo, CommitTsTo
    <3> QED
      BY <3>1, <2>2 DEF ParticipantInv, FinalizeInv
  <2> QED
    BY <2>3, <2>4
<1> QED
  BY <1>3, <1>5, <1>7, <1>9, <1>10, <1>11 DEF ParticipantInv

-----------------------------------------------------------------------------
\* The apply pool's step, by the kind of the op.
LEMMA ApplyStepTxn ==
    ASSUME OrderInv, ParticipantInv, NEW o \in Ops, ApplyStep(o)
    PROVE  ParticipantInv'
<1>1. PoolStep(o) /\ SameCommitTs
  BY ApplyStepIs
<1>2. CASE ApplyWrite(o) \/ FinishWrite(o)
  BY <1>1, <1>2, RowPoolKeepsTxn DEF ApplyWrite, FinishWrite, RowOps
<1>3. CASE ApplyFinalizeCommit(o)
  <2>1. op'[o].stage = "applying" /\ o \in FinalizeCommits /\ UNCHANGED txn
    BY <1>3, TypeParts DEF ApplyFinalizeCommit, Driver
  <2> QED
    BY <1>1, <2>1, ApplyFinalizeKeepsTxn
<1>4. CASE ApplyBeginCommit(o) \/ FinishFinalizeCommit(o) \/ ApplyAbortTxn(o)
  <2>1. op'[o].stage = "applied"
    BY <1>4, TypeParts DEF ApplyBeginCommit, FinishFinalizeCommit, ApplyAbortTxn, Driver
  <2>2. o \in Participants
    BY <1>4, OpKinds DEF ApplyBeginCommit, FinishFinalizeCommit, ApplyAbortTxn
  <2> QED
    BY <1>1, <1>4, <2>1, <2>2, PoolKeepsTxn
       DEF ApplyBeginCommit, FinishFinalizeCommit, ApplyAbortTxn
<1> QED
  BY <1>2, <1>3, <1>4 DEF ApplyStep

LEMMA ParticipantInit == Init => ParticipantInv
<1> SUFFICES ASSUME Init PROVE ParticipantInv
  OBVIOUS
<1>1. /\ \A o \in Ops : /\ op[o].stage = "new" /\ op[o].ts = 0 /\ op[o].repl = "NOT_REPLICATING"
                        /\ op[o].prep = "NOT_PREPARED"
      /\ prepare_queue = <<>> /\ prepare_thread.pc = "idle"
      /\ txn.state = "OPEN" /\ txn.commit_op = 0 /\ txn.lock = NoOne
  BY DEF Init, Idle
<1>2. Stamped
  BY <1>1 DEF Stamped, OnPrepare
<1>3. LockInv
  BY <1>1, OpKinds DEF LockInv, Locking, Prepared
<1>4. TxnInv /\ OneBegin /\ FinalizeInv
  BY <1>1, OpKinds DEF TxnInv, OneBegin, FinalizeInv, Done, Going
<1>5. BeginFirst
  BY <1>1 DEF BeginFirst
<1> QED
  BY <1>2, <1>3, <1>4, <1>5 DEF ParticipantInv

\* Every step keeps the lock, the state and the BEGIN_COMMIT of the transaction together.
LEMMA ParticipantStep ==
    ASSUME OrderInv, ParticipantInv, [Next]_vars
    PROVE  ParticipantInv'
<1>1. ASSUME NEW o \in Ops, ExecuteAsync(o) PROVE ParticipantInv'
  BY <1>1, ExecuteIs, ExecuteKeepsTxn DEF ExecuteAsync
<1>2. ASSUME NEW o \in Ops, ApplyStep(o) PROVE ParticipantInv'
  BY <1>2, ApplyStepTxn
<1>3. CASE PrepareFails
  BY <1>3, PrepareFailsIs, RefuseKeepsTxn DEF PrepareFails
<1>4. CASE Prepare
  <2>1. Head(prepare_queue).op = QueuedOp(1)
    BY <1>4, HeadIs DEF Prepare, AtHead
  <2>2. ValidateOp(QueuedOp(1)) /\ (QueuedOp(1) \in Participants => txn.lock = NoOne)
    BY <1>4, <2>1 DEF Prepare
  <2> QED
    BY <1>4, <2>2, PrepareIs, RefuseKeepsTxn, PrepareKeepsTxn
<1>5. CASE AssignTimestamp
  BY <1>5, AssignIs, AssignKeepsTxn, AssignFailKeepsTxn DEF HandleFailure
<1>6. CASE Start
  BY <1>6, StartIs, StartKeepsTxn DEF Start
<1>7. CASE Replicate
  BY <1>7, ReplicateIs, ReplicateKeepsTxn, ReplicateFailKeepsTxn DEF Replicate, HandleFailure
<1>8. CASE PrepareThreadApplies
  BY <1>8, PrepareThreadAppliesIs, SubmitKeepsTxn, ApplyFailKeepsTxn
     DEF PrepareThreadApplies, ApplyAsync, HandleFailure
<1>9. CASE AdjustLowerBound
  BY <1>9, AdjustLowerBoundIs, LowerBoundKeepsTxn DEF AdjustLowerBound
<1>10. CASE CommitRound
  BY <1>10, CommitRoundIs, CommitOpKeepsTxn, CommitOtherKeepsTxn DEF CommitRound
<1>11. CASE AbortOpsAfter
  BY <1>11, AbortOpsAfterIs, AbortAfterKeepsTxn DEF AbortOpsAfter
<1>12. CASE AbortRound
  BY <1>12, AbortRoundIs, AbortOpKeepsTxn, AbortOtherKeepsTxn DEF AbortRound
<1>13. CASE ReplicationFinished
  BY <1>13, ReplicationFinishedIs, FinishKeepsTxn DEF ReplicationFinished
<1>14. CASE ConsensusThreadApplies
  BY <1>14, ConsensusThreadAppliesIs, FinishSubmitKeepsTxn, FinishFailKeepsTxn
     DEF ConsensusThreadApplies, ApplyAsync, HandleFailure
<1>15. CASE \/ BecomeLeader \/ AssignNoOp \/ BecomeReplica \/ ReplicateConfigChange
            \/ RefreshConsensusQueueAndPeers
  BY <1>15, RaftIs, RaftKeepsTxn
<1>16. CASE AppendNoOp \/ AppendConfigChange \/ \E t \in Timestamps : ReceiveNoOp(t)
  BY <1>16, AppendIs, AppendOtherKeepsTxn
<1>17. ASSUME NEW o \in Ops, NEW t \in Timestamps, StartFollowerOp(o, t) PROVE ParticipantInv'
  BY <1>17, FollowIs, FollowKeepsTxn DEF StartFollowerOp
<1>18. CASE QuietStep
  BY <1>18, QuietIs, RaftKeepsTxn DEF opVars
<1> QED
  BY <1>1, <1>2, <1>3, <1>4, <1>5, <1>6, <1>7, <1>8, <1>9, <1>10, <1>11, <1>12, <1>13, <1>14,
     <1>15, <1>16, <1>17, <1>18, NextCases

-----------------------------------------------------------------------------
(***************************************************************************)
(* How the replica calls the two managers                                  *)
(***************************************************************************)
Modes == {"CLIENT_PROPAGATED", "COMMIT_WAIT"}

\* Each call of the time manager is one that its own specification allows.
LEMMA TimeCalls ==
    /\ TM!Tick \/ TM!SetLeaderMode \/ TM!SetNonLeaderMode \/ TM!GetSafeTime => TP!Next
    /\ \A ec \in Modes, t \in Timestamps :
          /\ TM!AssignTimestamp(ec, t) \/ TM!MessageReceivedFromLeader(ec, t) => TP!Next
          /\ (ec = "CLIENT_PROPAGATED" => t <= clock) /\ TM!AdvanceSafeTimeWithMessage(ec, t) =>
                TP!Next
    /\ \A t \in Timestamps : TM!UpdateClockAndLastAssignedTimestamp(t) => TP!Next
    /\ \A t \in Timestamps : t <= clock + 0 /\ TM!AdvanceSafeTime(t) => TP!Next
    /\ \A w \in Scanners, t \in Timestamps : TM!WaitUntilSafe(w, t) => TP!Next
    /\ \A w \in Scanners :
          TM!WaitUntilAfterLocally(w) \/ TM!RegisterWaiter(w) \/ TM!WaiterWoken(w) => TP!Next
<1> USE DEF Modes, Timestamps, TP!Next, TP!Stamps, TP!ConsistencyModes
<1>1. TM!Tick => TP!Next
  BY DEF TM!Tick, TP!Tick, TM!ClockTo, TP!ClockTo, TM!readerVars, TP!readerVars
<1>2. TM!SetLeaderMode => TP!Next
  BY DEF TM!SetLeaderMode, TP!SetLeaderMode, TM!AdvanceSafeTimeAndWakeUpWaiters,
     TP!AdvanceSafeTimeAndWakeUpWaiters, TM!GetSafeTimeUnlocked, TP!GetSafeTimeUnlocked,
     TM!ClockTo, TP!ClockTo, TM!readerVars, TP!readerVars
<1>3. TM!SetNonLeaderMode => TP!Next
  BY DEF TM!SetNonLeaderMode, TP!SetNonLeaderMode, TM!readerVars, TP!readerVars
<1>4. TM!GetSafeTime => TP!Next
  BY DEF TM!GetSafeTime, TP!GetSafeTime, TM!GetSafeTimeUnlocked, TP!GetSafeTimeUnlocked,
     TM!ClockTo, TP!ClockTo, TM!readerVars, TP!readerVars
<1>5. ASSUME NEW ec \in Modes, NEW t \in Timestamps
      PROVE  TM!AssignTimestamp(ec, t) => TP!Next
  BY DEF TM!AssignTimestamp, TP!AssignTimestamp, TM!ClockTo, TP!ClockTo, TM!readerVars, TP!readerVars
<1>6. ASSUME NEW ec \in Modes, NEW t \in Timestamps
      PROVE  TM!MessageReceivedFromLeader(ec, t) => TP!Next
  BY DEF TM!MessageReceivedFromLeader, TP!MessageReceivedFromLeader, TM!ClockTo, TP!ClockTo,
     TM!UpdatedClock, TP!UpdatedClock, TM!readerVars, TP!readerVars
<1>7. ASSUME NEW ec \in Modes, NEW t \in Timestamps, ec = "CLIENT_PROPAGATED" => t <= clock
      PROVE  TM!AdvanceSafeTimeWithMessage(ec, t) => TP!Next
  BY <1>7 DEF TM!AdvanceSafeTimeWithMessage, TP!AdvanceSafeTimeWithMessage,
     TM!AdvanceSafeTimeAndWakeUpWaiters, TP!AdvanceSafeTimeAndWakeUpWaiters,
     TM!GetSafeTimeUnlocked, TP!GetSafeTimeUnlocked,
     TM!ClockTo, TP!ClockTo, TM!readerVars, TP!readerVars
<1>8. ASSUME NEW t \in Timestamps
      PROVE  TM!UpdateClockAndLastAssignedTimestamp(t) => TP!Next
  BY DEF TM!UpdateClockAndLastAssignedTimestamp, TP!UpdateClockAndLastAssignedTimestamp,
     TM!ClockTo, TP!ClockTo, TM!UpdatedClock, TP!UpdatedClock, TM!readerVars, TP!readerVars
<1>9. ASSUME NEW t \in Timestamps, t <= clock + 0
      PROVE  TM!AdvanceSafeTime(t) => TP!Next
  BY <1>9 DEF TM!AdvanceSafeTime, TP!AdvanceSafeTime,
     TM!AdvanceSafeTimeAndWakeUpWaiters, TP!AdvanceSafeTimeAndWakeUpWaiters,
     TM!GetSafeTimeUnlocked, TP!GetSafeTimeUnlocked,
     TM!ClockTo, TP!ClockTo, TM!readerVars, TP!readerVars
<1>10. ASSUME NEW w \in Scanners, NEW t \in Timestamps
       PROVE  TM!WaitUntilSafe(w, t) => TP!Next
  BY DEF TM!WaitUntilSafe, TP!WaitUntilSafe, TM!GetSafeTimeUnlocked, TP!GetSafeTimeUnlocked,
     TM!ClockTo, TP!ClockTo
<1>11. ASSUME NEW w \in Scanners
       PROVE  TM!WaitUntilAfterLocally(w) \/ TM!WaiterWoken(w) => TP!Next
  BY DEF TM!WaitUntilAfterLocally, TP!WaitUntilAfterLocally, TM!WaiterWoken, TP!WaiterWoken,
     TM!GotoReader, TP!GotoReader, TP!WaitUntilSafeStep
<1>12. ASSUME NEW w \in Scanners
       PROVE  TM!RegisterWaiter(w) => TP!Next
  BY DEF TM!RegisterWaiter, TP!RegisterWaiter, TM!GetSafeTimeUnlocked, TP!GetSafeTimeUnlocked,
     TM!ClockTo, TP!ClockTo, TM!GotoReader, TP!GotoReader, TP!WaitUntilSafeStep
<1> QED
  BY <1>1, <1>2, <1>3, <1>4, <1>5, <1>6, <1>7, <1>8, <1>9, <1>10, <1>11, <1>12

\* Each call of the MVCC manager is one that its own specification allows, provided
\* that the op has a timestamp.
LEMMA MvccCalls ==
    /\ \A t \in Timestamps : \/ M!StartOp(t) \/ M!StartApplyingOp(t) \/ M!AbortOp(t)
                             \/ M!FinishApplyingOp(t) \/ M!AdjustNewOpLowerBound(t)
                             => MP!Next
    /\ \A w \in Scanners \cup Flushers, t \in Timestamps : M!CallWaitForSnapshot(w, t) => MP!Next
    /\ \A w \in Scanners \cup Flushers :
          M!CallWaitForApplyingOps(w) \/ M!WaitUntilStep(w) => MP!Next
<1> USE DEF Timestamps, MP!Next, MP!Timestamps, M!Timestamps, M!opVars, MP!opVars, M!closeVars,
    MP!closeVars, M!threadVars, MP!threadVars
<1>1. ASSUME NEW t \in Timestamps PROVE M!StartOp(t) => MP!Next
  BY DEF M!StartOp, MP!StartOp, M!StartOpAllowed, MP!StartOpAllowed, M!IsAppliedIn, MP!IsAppliedIn
<1>2. ASSUME NEW t \in Timestamps PROVE M!StartApplyingOp(t) => MP!Next
  BY DEF M!StartApplyingOp, MP!StartApplyingOp
<1>3. ASSUME NEW t \in Timestamps PROVE M!AbortOp(t) => MP!Next
  BY DEF M!AbortOp, MP!AbortOp, M!InFlight, MP!InFlight, M!AdvanceEarliestInFlightTimestamp,
     MP!AdvanceEarliestInFlightTimestamp, M!IsEarliest, MP!IsEarliest
<1>4. ASSUME NEW t \in Timestamps PROVE M!FinishApplyingOp(t) => MP!Next
  <2>1. M!InFlight = MP!InFlight
    BY DEF M!InFlight, MP!InFlight
  <2>2. \A ops : M!AdvanceEarliestInFlightTimestamp(ops) = MP!AdvanceEarliestInFlightTimestamp(ops)
    BY DEF M!AdvanceEarliestInFlightTimestamp, MP!AdvanceEarliestInFlightTimestamp,
       M!IsEarliest, MP!IsEarliest
  <2>3. \A snap, ts : M!AddAppliedTimestamp(snap, ts) = MP!AddAppliedTimestamp(snap, ts)
    BY DEF M!AddAppliedTimestamp, MP!AddAppliedTimestamp, M!IsAppliedIn, MP!IsAppliedIn
  <2>4. \A snap, first, bound : M!CleanedSnap(snap, first, bound) = MP!CleanedSnap(snap, first, bound)
    BY DEF M!CleanedSnap, MP!CleanedSnap, M!SnapshotAt, MP!SnapshotAt
  <2>5. \A snap, first, ops : M!WakeDoneWaiters(snap, first, ops) <=> MP!WakeDoneWaiters(snap, first, ops)
    BY DEF M!WakeDoneWaiters, MP!WakeDoneWaiters, M!IsDoneWaiting, MP!IsDoneWaiting,
       M!AreAllOpsApplied, MP!AreAllOpsApplied, M!AnyApplyingAtOrBefore, MP!AnyApplyingAtOrBefore
  <2>6. M!FinishApplyingOp(t) => MP!FinishApplyingOp(t)
    BY <2>1, <2>2, <2>3, <2>4, <2>5 DEF M!FinishApplyingOp, MP!FinishApplyingOp
  <2> QED
    BY <2>6
<1>5. ASSUME NEW t \in Timestamps PROVE M!AdjustNewOpLowerBound(t) => MP!Next
  BY DEF M!AdjustNewOpLowerBound, MP!AdjustNewOpLowerBound, M!InFlight, MP!InFlight,
     M!CleanedSnap, MP!CleanedSnap, M!SnapshotAt, MP!SnapshotAt, M!WakeDoneWaiters,
     MP!WakeDoneWaiters, M!IsDoneWaiting, MP!IsDoneWaiting,
     M!AreAllOpsApplied, MP!AreAllOpsApplied, M!AnyApplyingAtOrBefore, MP!AnyApplyingAtOrBefore
<1>6. ASSUME NEW w \in Scanners \cup Flushers, NEW t \in Timestamps
      PROVE  M!CallWaitForSnapshot(w, t) => MP!Next
  BY DEF M!CallWaitForSnapshot, MP!CallWaitForSnapshot
<1>7. ASSUME NEW w \in Scanners \cup Flushers PROVE M!CallWaitForApplyingOps(w) => MP!Next
  BY DEF M!CallWaitForApplyingOps, MP!CallWaitForApplyingOps, M!Goto, MP!Goto
<1>8. ASSUME NEW w \in Scanners \cup Flushers PROVE M!WaitUntilStep(w) => MP!Next
  <2>1. M!ScanApplyingOps(w) => MP!ScanApplyingOps(w)
    BY DEF M!ScanApplyingOps, MP!ScanApplyingOps, M!Applying, MP!Applying, M!Goto, MP!Goto
  <2>2. M!WaitUntilCheckOpen(w) => MP!WaitUntilCheckOpen(w)
    BY DEF M!WaitUntilCheckOpen, MP!WaitUntilCheckOpen, M!Goto, MP!Goto
  <2>3. M!WaitUntilRegister(w) => MP!WaitUntilRegister(w)
    BY DEF M!WaitUntilRegister, MP!WaitUntilRegister, M!Goto, MP!Goto, M!IsDoneWaiting,
       MP!IsDoneWaiting, M!AreAllOpsApplied, MP!AreAllOpsApplied, M!AnyApplyingAtOrBefore,
       MP!AnyApplyingAtOrBefore, M!InFlight, MP!InFlight
  <2>4. M!WaitUntilWoken(w) => MP!WaitUntilWoken(w)
    BY DEF M!WaitUntilWoken, MP!WaitUntilWoken, M!Goto, MP!Goto
  <2>5. M!WaitUntilCleanup(w) => MP!WaitUntilCleanup(w)
    BY DEF M!WaitUntilCleanup, MP!WaitUntilCleanup, M!Goto, MP!Goto
  <2>6. MP!WaitUntilStep(w) => MP!Next
    OBVIOUS
  <2> QED
    BY <2>1, <2>2, <2>3, <2>4, <2>5, <2>6 DEF M!WaitUntilStep, MP!WaitUntilStep
<1> QED
  BY <1>1, <1>2, <1>3, <1>4, <1>5, <1>6, <1>7, <1>8

\* An op whose timestamp is a reading of the clock, and where the consensus thread
\* holds one.
Exact(o)  == o \notin CommitWaits \/ MaxError = 0
Appending == {"noop_append", "config_refresh", "config_append"}

\* The timestamps that were given are not ahead of the clock, and the time manager
\* is in leader mode while the replica leads.
ClockInv ==
    /\ \A o \in Ops : Exact(o) => op[o].ts <= clock
    /\ \A i \in DOMAIN pending : pending[i].kind # "OP" => pending[i].ts <= clock
    /\ consensus_thread.pc \in Appending => consensus_thread.ts <= clock
    /\ consensus_thread.pc = "config_refresh" => role = "LEADER"
    /\ mode = "LEADER" <=> role = "LEADER"

ManagersInv == MP!SnapInv /\ MP!WaitInv /\ TP!SafeInv

UseInv == OrderInv /\ ParticipantInv /\ ClockInv /\ ManagersInv

MvccStep == [MP!Next]_(MP!mvccVars)
TimeStep == [TP!Next]_(TP!timeVars)

LEMMA MvccStays == ASSUME UNCHANGED mvccVars PROVE MvccStep
  BY DEF MvccStep, mvccVars, MP!mvccVars, MP!opVars, MP!closeVars, MP!threadVars

LEMMA TimeStays == ASSUME UNCHANGED timeVars PROVE TimeStep
  BY DEF TimeStep, timeVars, TP!timeVars, TP!readerVars

LEMMA AbortOpIs == ASSUME NEW t, M!AbortOp(t) PROVE MvccStep /\ t \in Timestamps
<1>1. t \in Timestamps
  BY DEF M!AbortOp, M!InFlight, M!Timestamps, Timestamps
<1> QED
  BY <1>1, MvccCalls DEF MvccStep

LEMMA HandleFailureCalls == ASSUME NEW o, HandleFailure(o) PROVE MvccStep
  BY AbortOpIs, MvccStays DEF HandleFailure

\* The timestamp of an op that was started, and of the transaction's MVCC op.
LEMMA StampedTs ==
    ASSUME OrderInv, ParticipantInv, NEW o \in Ops
    PROVE  /\ op[o].repl # "NOT_REPLICATING" => op[o].ts \in Timestamps
           /\ OnPrepare({"start"}, o) => op[o].ts \in Timestamps
<1>1. op[o].ts \in 0 .. (kMax - 1)
  BY TypeParts DEF Driver
<1>2. OnPrepare({"start"}, o) => op[o].repl = "NOT_REPLICATING"
  BY DEF OnPrepare, OrderInv, PrepareInv, HoldsLocal
<1> QED
  BY <1>1, <1>2, ReplicaAssumption DEF ParticipantInv, Stamped, Timestamps

LEMMA CommitOpTs ==
    ASSUME OrderInv, ParticipantInv
    PROVE  /\ txn.commit_op # 0 => txn.commit_op \in Timestamps
           /\ \A f \in FinalizeCommits : op[f].stage \in {"submitted", "applying"} =>
                 txn.state = "COMMIT_IN_PROGRESS" /\ txn.commit_op \in Timestamps
<1>1. txn.commit_op \in 0 .. (kMax - 1)
  BY TypeParts DEF TxnType
<1>2. txn.commit_op # 0 => txn.commit_op \in Timestamps
  BY <1>1, ReplicaAssumption DEF Timestamps
<1>3. ASSUME NEW f \in FinalizeCommits, op[f].stage \in {"submitted", "applying"}
      PROVE  txn.state = "COMMIT_IN_PROGRESS"
  <2>1. ValidateOp(f) /\ f \notin BeginCommits /\ f \notin AbortTxns
    BY <1>3, SubmittedLocks, OpKinds
  <2> QED
    BY <2>1 DEF ValidateOp
<1> QED
  BY <1>2, <1>3 DEF ParticipantInv, TxnInv

LEMMA ApplyAsyncCalls ==
    ASSUME OrderInv, ParticipantInv, NEW o \in Ops, ApplyAsync(o)
    PROVE  MvccStep
<1>1. CASE op[o].repl = "REPLICATED"
  BY <1>1, StampedTs, MvccCalls, MvccStays DEF ApplyAsync, MvccOfApplyAsync, MvccStep
<1>2. CASE op[o].repl # "REPLICATED"
  BY <1>2, HandleFailureCalls DEF ApplyAsync
<1> QED
  BY <1>1, <1>2

LEMMA ApplyStepCalls ==
    ASSUME OrderInv, ParticipantInv, NEW o \in Ops, ApplyStep(o)
    PROVE  MvccStep
<1>1. op[o].repl = "REPLICATED"
  BY ApplyStepIs DEF OrderInv, FieldsInv, FieldsOf, PoolStep
<1>2. op[o].ts \in Timestamps
  BY <1>1, StampedTs
<1>3. CASE ApplyWrite(o) \/ FinishWrite(o)
  BY <1>2, <1>3, MvccCalls DEF ApplyWrite, FinishWrite, MvccStep
<1>4. CASE ApplyBeginCommit(o)
  BY <1>4, MvccStays DEF ApplyBeginCommit
<1>5. CASE ApplyFinalizeCommit(o) \/ FinishFinalizeCommit(o)
  BY <1>5, CommitOpTs, MvccCalls DEF ApplyFinalizeCommit, FinishFinalizeCommit, MvccStep
<1>6. CASE ApplyAbortTxn(o)
  BY <1>6, AbortOpIs, MvccStays DEF ApplyAbortTxn
<1> QED
  BY <1>3, <1>4, <1>5, <1>6 DEF ApplyStep

\* The scans and flushes, and what else touches no driver.
LEMMA QuietCalls ==
    ASSUME UseInv, QuietStep
    PROVE  MvccStep /\ TimeStep
<1>1. CASE UNCHANGED vars
  BY <1>1, MvccStays, TimeStays DEF vars
<1>2. ASSUME NEW t \in Timestamps, Heartbeat(t) PROVE MvccStep /\ TimeStep
  <2>1. t <= clock + 0
    BY <1>2 DEF Heartbeat, UseInv, ManagersInv, TP!SafeInv, TP!WaitInv, TP!TypeOK, TP!Stamps
  <2> QED
    BY <1>2, <2>1, TimeCalls, MvccStays DEF Heartbeat, TimeStep
<1>3. CASE ReadSafeTime \/ Tick
  BY <1>3, TimeCalls, MvccStays DEF ReadSafeTime, Tick, TimeStep
<1>4. ASSUME NEW w \in Scanners, ScanWaitUntilSafe(w) PROVE MvccStep /\ TimeStep
  BY <1>4, TimeCalls, MvccStays DEF ScanWaitUntilSafe, TimeStep
<1>5. ASSUME NEW w \in Scanners, ScanWaitForSnapshot(w) PROVE MvccStep /\ TimeStep
  <2>1. reader[w].ts \in Timestamps
    BY DEF UseInv, ManagersInv, TP!SafeInv, TP!WaitInv, TP!TypeOK, TP!Stamps, Timestamps
  <2> QED
    BY <1>5, <2>1, MvccCalls, TimeStays DEF ScanWaitForSnapshot, MvccStep
<1>6. ASSUME NEW w \in Scanners, ScanRows(w) PROVE MvccStep /\ TimeStep
  BY <1>6, MvccStays, TimeStays DEF ScanRows
<1>7. ASSUME NEW w \in Flushers, FlushWaits(w) PROVE MvccStep /\ TimeStep
  BY <1>7, MvccCalls, TimeStays DEF FlushWaits, MvccStep
<1> QED
  BY <1>1, <1>2, <1>3, <1>4, <1>5, <1>6, <1>7 DEF QuietStep

\* The consistency modes that are passed.
LEMMA ModeTypes ==
    /\ \A o \in Ops : GetMessageConsistencyMode(o) \in Modes
    /\ \A r \in Round : RoundMode(r) \in Modes
    /\ "CLIENT_PROPAGATED" \in Modes
    /\ \A o \in Ops : GetMessageConsistencyMode(o) = "CLIENT_PROPAGATED" <=> o \notin CommitWaits
  BY DEF GetMessageConsistencyMode, RoundMode, Modes

\* The timestamp of a round that is committed or appended is not ahead of the clock,
\* unless it is that of a COMMIT_WAIT write.
LEMMA RoundStamps ==
    ASSUME OrderInv, ParticipantInv, ClockInv, NEW i \in DOMAIN pending
    PROVE  /\ RoundTs(pending[i]) \in Timestamps
           /\ RoundMode(pending[i]) = "CLIENT_PROPAGATED" => RoundTs(pending[i]) <= clock
<1>1. pending[i] \in Round
  BY TypeParts, SeqFacts DEF RaftTypes
<1>2. CASE pending[i].kind = "OP"
  <2>1. pending[i].op \in Ops /\ op[pending[i].op].repl = "REPLICATING"
    BY <1>1, <1>2, RoundFields DEF OrderInv, PendingInv, PendingAreSent
  <2> QED
    BY <1>2, <2>1, StampedTs, ModeTypes DEF RoundTs, RoundMode, ClockInv, Exact
<1>3. CASE pending[i].kind # "OP"
  BY <1>1, <1>3, RoundFields DEF RoundTs, RoundMode, ClockInv
<1> QED
  BY <1>2, <1>3

\* Every step of the replica is a step of the MVCC manager, or leaves it alone.
LEMMA MvccUsed == ASSUME UseInv, [Next]_vars PROVE MvccStep
<1> USE DEF UseInv
<1>1. ASSUME NEW o \in Ops, ExecuteAsync(o) PROVE MvccStep
  BY <1>1, MvccStays DEF ExecuteAsync
<1>2. ASSUME NEW o \in Ops, ApplyStep(o) PROVE MvccStep
  BY <1>2, ApplyStepCalls
<1>3. CASE PrepareFails \/ Prepare
  BY <1>3, MvccStays DEF PrepareFails, Prepare
<1>4. CASE AssignTimestamp
  BY <1>4, MvccStays, HandleFailureCalls DEF AssignTimestamp
<1>5. CASE Start
  <2>1. prepare_thread.op \in Ops /\ OnPrepare({"start"}, prepare_thread.op)
    BY <1>5, StartIs DEF OnPrepare, StartStep
  <2> QED
    BY <1>5, <2>1, StampedTs, MvccCalls, MvccStays DEF Start, MvccStep
<1>6. CASE Replicate
  BY <1>6, MvccStays, HandleFailureCalls DEF Replicate
<1>7. CASE PrepareThreadApplies
  BY <1>7, PrepareThreadAppliesIs, ApplyAsyncCalls DEF PrepareThreadApplies
<1>8. CASE AdjustLowerBound
  BY <1>8, AdjustLowerBoundIs, MvccCalls DEF MvccStep
<1>9. CASE CommitRound \/ AbortOpsAfter
  BY <1>9, MvccStays DEF CommitRound, AbortOpsAfter
<1>10. CASE AbortRound
  BY <1>10, AbortRoundIs, AbortOpIs, MvccStays
<1>11. CASE ReplicationFinished
  BY <1>11, MvccStays DEF ReplicationFinished
<1>12. CASE ConsensusThreadApplies
  BY <1>12, ConsensusThreadAppliesIs, ApplyAsyncCalls DEF ConsensusThreadApplies
<1>13. CASE \/ BecomeLeader \/ AssignNoOp \/ BecomeReplica \/ ReplicateConfigChange
            \/ RefreshConsensusQueueAndPeers
  BY <1>13, RaftIs, MvccStays
<1>14. CASE AppendNoOp \/ AppendConfigChange \/ \E t \in Timestamps : ReceiveNoOp(t)
  BY <1>14, AppendIs, MvccStays
<1>15. ASSUME NEW o \in Ops, NEW t \in Timestamps, StartFollowerOp(o, t) PROVE MvccStep
  BY <1>15, MvccCalls, MvccStays DEF StartFollowerOp, MvccStep
<1>16. CASE QuietStep
  BY <1>16, QuietCalls
<1> QED
  BY <1>1, <1>2, <1>3, <1>4, <1>5, <1>6, <1>7, <1>8, <1>9, <1>10, <1>11, <1>12, <1>13, <1>14,
     <1>15, <1>16, NextCases

LEMMA ApplyAsyncTime ==
    ASSUME PrepareThreadApplies \/ ConsensusThreadApplies
    PROVE  UNCHANGED timeVars
  BY DEF PrepareThreadApplies, ConsensusThreadApplies

\* Every step of the replica is a step of the time manager, or leaves it alone.
LEMMA TimeUsed == ASSUME UseInv, [Next]_vars PROVE TimeStep
<1> USE DEF UseInv
<1>1. ASSUME NEW o \in Ops, ExecuteAsync(o) PROVE TimeStep
  BY <1>1, TimeStays DEF ExecuteAsync
<1>2. ASSUME NEW o \in Ops, ApplyStep(o) PROVE TimeStep
  BY <1>2, TimeStays DEF ApplyStep, ApplyWrite, FinishWrite, ApplyBeginCommit, ApplyFinalizeCommit,
     FinishFinalizeCommit, ApplyAbortTxn
<1>3. CASE PrepareFails \/ AdjustLowerBound \/ AbortOpsAfter \/ AbortRound \/ ReplicationFinished
  BY <1>3, TimeStays DEF PrepareFails, AdjustLowerBound, AbortOpsAfter, AbortRound, ReplicationFinished
<1>4. CASE Prepare
  <2> DEFINE o == Head(prepare_queue).op
             bumps == o \in FinalizeCommits /\ op[o].repl = "NOT_REPLICATING"
  <2>1. IF bumps THEN TM!UpdateClockAndLastAssignedTimestamp(op[o].commit_ts) ELSE UNCHANGED timeVars
    BY <1>4 DEF Prepare
  <2>2. PreparesAt(1) /\ o = QueuedOp(1) /\ o \in Ops /\ 1 \in DOMAIN prepare_queue
    BY <1>4, HeadIs DEF Prepare, AtHead, QueueShifts
  <2>3. op[o].stage # "new" /\ op[o].commit_ts \in 0 .. (kMax - 1)
    BY <2>2, TypeParts DEF OrderInv, QueueInv, QueuedUnprepared, Underway, Driver
  <2>4. bumps => op[o].commit_ts \in Timestamps
    BY <2>3, ReplicaAssumption DEF ParticipantInv, FinalizeInv, Timestamps
  <2> QED
    BY <2>1, <2>4, TimeCalls, TimeStays DEF TimeStep
<1>5. CASE AssignTimestamp
  BY <1>5, AssignIs, ModeTypes, TimeCalls, TimeStays DEF TimeStep
<1>6. CASE Start
  BY <1>6, TimeStays DEF Start
<1>7. CASE Replicate
  <2> DEFINE o == prepare_thread.op
  <2>1. o \in Ops /\ op[o].repl = "REPLICATING"
    BY <1>7, ReplicateIs DEF OrderInv, PrepareInv, HoldsUnsent, Replicate
  <2>2. op[o].ts \in Timestamps /\ (GetMessageConsistencyMode(o) = "CLIENT_PROPAGATED" => op[o].ts <= clock)
    BY <2>1, StampedTs, ModeTypes DEF ClockInv, Exact
  <2>3. \/ TM!AdvanceSafeTimeWithMessage(GetMessageConsistencyMode(o), op[o].ts)
        \/ UNCHANGED timeVars
    BY <1>7 DEF Replicate
  <2> QED
    BY <2>1, <2>2, <2>3, ModeTypes, TimeCalls, TimeStays DEF TimeStep
<1>8. CASE PrepareThreadApplies \/ ConsensusThreadApplies
  BY <1>8, TimeStays, ApplyAsyncTime
<1>9. CASE CommitRound
  <2>1. /\ TM!AdvanceSafeTimeWithMessage(RoundMode(pending[1]), RoundTs(pending[1]))
        /\ 1 \in DOMAIN pending /\ pending[1] \in Round
    BY <1>9, CommitRoundIs DEF PendingShifts
  <2> QED
    BY <2>1, RoundStamps, ModeTypes, TimeCalls DEF TimeStep
<1>10. CASE BecomeLeader \/ BecomeReplica \/ RefreshConsensusQueueAndPeers
  BY <1>10, TimeCalls, TimeStays DEF BecomeLeader, BecomeReplica, RefreshConsensusQueueAndPeers, TimeStep
<1>11. CASE AssignNoOp \/ ReplicateConfigChange
  BY <1>11, TimeCalls, ModeTypes DEF AssignNoOp, ReplicateConfigChange, TimeStep
<1>12. CASE AppendNoOp \/ AppendConfigChange
  <2>1. consensus_thread.ts \in Timestamps /\ consensus_thread.ts <= clock
    BY <1>12, ThreadFields, TypeParts DEF AppendNoOp, AppendConfigChange, ClockInv, Appending
  <2> QED
    BY <1>12, <2>1, TimeCalls, ModeTypes DEF AppendNoOp, AppendConfigChange, TimeStep
<1>13. ASSUME NEW t \in Timestamps, ReceiveNoOp(t) PROVE TimeStep
  BY <1>13, TimeCalls, ModeTypes DEF ReceiveNoOp, TimeStep
<1>14. ASSUME NEW o \in Ops, NEW t \in Timestamps, StartFollowerOp(o, t) PROVE TimeStep
  BY <1>14, TimeCalls, ModeTypes DEF StartFollowerOp, TimeStep
<1>15. CASE QuietStep
  BY <1>15, QuietCalls
<1> QED
  BY <1>1, <1>2, <1>3, <1>4, <1>5, <1>6, <1>7, <1>8, <1>9, <1>10, <1>11, <1>12, <1>13, <1>14,
     <1>15, NextCases

\* So the invariants of the managers hold in the replica, and time goes forward.
LEMMA ManagersStep ==
    ASSUME UseInv, [Next]_vars
    PROVE  /\ ManagersInv'
           /\ last_safe' >= last_safe /\ last_safe' <= clock' /\ clock' >= clock
<1>1. MvccStep /\ TimeStep
  BY MvccUsed, TimeUsed
<1>0. /\ kMax \in Nat /\ kMax > 1 /\ MaxError \in Nat /\ 0 \in Nat /\ 0 = 0
      /\ MP!kMaxAssumption /\ TP!TimeAssumption
  BY ReplicaAssumption DEF MP!kMaxAssumption, TP!TimeAssumption
<1>2. MP!SnapInv' /\ MP!WaitInv'
  <2>1. MP!SnapInv /\ MP!WaitInv /\ MP!TypeOK
    BY DEF UseInv, ManagersInv, MP!SnapInv
  <2>2. MP!SnapInv'
    BY <1>0, <1>1, <2>1, MP!SnapStep, Zenon DEF MvccStep
  <2>3. MP!WaitInv'
    BY <1>0, <1>1, <2>1, MP!WaitStep, Zenon DEF MvccStep
  <2> QED
    BY <2>2, <2>3
<1>3. TP!SafeInv'
  BY <1>0, <1>1, TP!SafeStep, Zenon DEF UseInv, ManagersInv, TimeStep
<1>4. last_safe' >= last_safe /\ last_safe' <= clock' /\ clock' >= clock
  BY <1>0, <1>1, TP!SafeTimeStep, Zenon DEF UseInv, ManagersInv, TimeStep
<1> QED
  BY <1>2, <1>3, <1>4 DEF ManagersInv

\* The time manager's state has its type, before and after a step.
LEMMA TimeTypes ==
    ASSUME UseInv, [Next]_vars
    PROVE  /\ clock \in Nat /\ last_safe \in Nat /\ last_serial \in Nat
           /\ clock' \in Nat /\ last_safe' \in Nat /\ last_serial' \in Nat
<1>1. TP!TypeOK /\ TP!TypeOK'
  BY ManagersStep DEF UseInv, ManagersInv, TP!SafeInv, TP!WaitInv
<1> QED
  BY <1>1 DEF TP!TypeOK, TP!Stamps

\* A step that gives no timestamp and changes no role.
StampsKept ==
    /\ SameTs
    /\ \A i \in DOMAIN pending' : pending'[i].kind # "OP" =>
          \E j \in DOMAIN pending : pending[j] = pending'[i]
    /\ consensus_thread'.pc \in Appending =>
          consensus_thread'.pc = consensus_thread.pc /\ consensus_thread'.ts = consensus_thread.ts
    /\ mode' = mode /\ role' = role

LEMMA StampsKeptKeeps ==
    ASSUME UseInv, [Next]_vars, StampsKept
    PROVE  ClockInv'
<1>1. clock \in Nat /\ clock' \in Nat /\ clock' >= clock
  BY TimeTypes, ManagersStep
<1>2. \A o \in Ops : op[o].ts \in Nat
  BY TypeParts, FieldTypesHold DEF UseInv, FieldTypes
<1>3. \A o \in Ops : Exact(o) => op'[o].ts <= clock'
  BY <1>1, <1>2 DEF UseInv, ClockInv, StampsKept, SameTs
<1>4. ASSUME NEW i \in DOMAIN pending', pending'[i].kind # "OP" PROVE pending'[i].ts <= clock'
  <2>1. PICK j \in DOMAIN pending : pending[j] = pending'[i]
    BY <1>4 DEF StampsKept
  <2>2. pending[j].ts \in Timestamps
    BY <1>4, <2>1, TypeParts, SeqFacts, RoundFields DEF UseInv, RaftTypes
  <2> QED
    BY <1>1, <1>4, <2>1, <2>2 DEF UseInv, ClockInv, Timestamps
<1>5. consensus_thread'.pc \in Appending => consensus_thread'.ts <= clock'
  <2>1. consensus_thread.pc \in Appending => consensus_thread.ts \in Timestamps
    BY TypeParts, ThreadFields DEF UseInv, Appending
  <2> QED
    BY <1>1, <2>1 DEF UseInv, ClockInv, StampsKept, Timestamps
<1>6. /\ consensus_thread'.pc = "config_refresh" => role' = "LEADER"
      /\ mode' = "LEADER" <=> role' = "LEADER"
  BY DEF UseInv, ClockInv, StampsKept, Appending
<1> QED
  BY <1>3, <1>4, <1>5, <1>6 DEF ClockInv, Exact, Appending

\* No call but the two that set it changes the time manager's mode.
LEMMA ModeKept ==
    /\ UNCHANGED timeVars \/ TM!Tick \/ TM!GetSafeTime => mode' = mode
    /\ \A ec, t : TM!AssignTimestamp(ec, t) \/ TM!MessageReceivedFromLeader(ec, t)
                  \/ TM!AdvanceSafeTimeWithMessage(ec, t) => mode' = mode
    /\ \A t : TM!UpdateClockAndLastAssignedTimestamp(t) \/ TM!AdvanceSafeTime(t) => mode' = mode
    /\ \A w, t : TM!WaitUntilSafe(w, t) => mode' = mode
    /\ \A w : TM!WaitUntilAfterLocally(w) \/ TM!RegisterWaiter(w) \/ TM!WaiterWoken(w) => mode' = mode
<1>1. UNCHANGED timeVars \/ TM!Tick \/ TM!GetSafeTime => mode' = mode
  BY DEF timeVars, TM!Tick, TM!GetSafeTime
<1>2. \A ec, t : TM!AssignTimestamp(ec, t) \/ TM!MessageReceivedFromLeader(ec, t)
                  \/ TM!AdvanceSafeTimeWithMessage(ec, t) => mode' = mode
  BY DEF TM!AssignTimestamp, TM!MessageReceivedFromLeader, TM!AdvanceSafeTimeWithMessage
<1>3. \A t : TM!UpdateClockAndLastAssignedTimestamp(t) \/ TM!AdvanceSafeTime(t) => mode' = mode
  BY DEF TM!UpdateClockAndLastAssignedTimestamp, TM!AdvanceSafeTime
<1>4. \A w, t : TM!WaitUntilSafe(w, t) => mode' = mode
  BY DEF TM!WaitUntilSafe
<1>5. \A w : TM!WaitUntilAfterLocally(w) \/ TM!RegisterWaiter(w) \/ TM!WaiterWoken(w) => mode' = mode
  BY DEF TM!WaitUntilAfterLocally, TM!RegisterWaiter, TM!WaiterWoken
<1> QED
  BY <1>1, <1>2, <1>3, <1>4, <1>5

LEMMA QuietMode == ASSUME QuietStep PROVE mode' = mode
<1>1. CASE UNCHANGED vars
  BY <1>1, ModeKept DEF vars
<1>2. CASE \E t \in Timestamps : Heartbeat(t)
  BY <1>2, ModeKept DEF Heartbeat
<1>3. CASE ReadSafeTime \/ Tick
  BY <1>3, ModeKept DEF ReadSafeTime, Tick
<1>4. ASSUME NEW w \in Scanners, ScanWaitUntilSafe(w) PROVE mode' = mode
  BY <1>4, ModeKept DEF ScanWaitUntilSafe
<1>5. ASSUME NEW w \in Scanners, ScanWaitForSnapshot(w) \/ ScanRows(w) PROVE mode' = mode
  BY <1>5, ModeKept DEF ScanWaitForSnapshot, ScanRows
<1>6. ASSUME NEW w \in Flushers, FlushWaits(w) PROVE mode' = mode
  BY <1>6, ModeKept DEF FlushWaits
<1> QED
  BY <1>1, <1>2, <1>3, <1>4, <1>5, <1>6 DEF QuietStep

\* The steps that give no timestamp.
LEMMA KeepingSteps ==
    ASSUME UseInv,
           \/ \E o \in Ops : ExecuteAsync(o) \/ ApplyStep(o)
           \/ PrepareFails \/ Prepare \/ (AssignTimestamp /\ mode # "LEADER") \/ Start \/ Replicate
           \/ PrepareThreadApplies \/ AdjustLowerBound \/ CommitRound \/ AbortOpsAfter \/ AbortRound
           \/ ReplicationFinished \/ ConsensusThreadApplies \/ QuietStep
    PROVE  StampsKept
<1> USE DEF UseInv, StampsKept, Appending
<1>1. ASSUME NEW o \in Ops, ExecuteAsync(o) PROVE StampsKept
  BY <1>1, ExecuteIs, ModeKept DEF ExecuteAsync, ExecuteStep
<1>2. ASSUME NEW o \in Ops, ApplyStep(o) PROVE StampsKept
  <2>1. UNCHANGED timeVars
    BY <1>2 DEF ApplyStep, ApplyWrite, FinishWrite, ApplyBeginCommit, ApplyFinalizeCommit,
       FinishFinalizeCommit, ApplyAbortTxn
  <2> QED
    BY <1>2, <2>1, ApplyStepIs, ModeKept DEF PoolStep
<1>3. CASE PrepareFails
  BY <1>3, PrepareFailsIs, ModeKept DEF PrepareFails, RefuseStep
<1>4. CASE Prepare
  <2>1. mode' = mode
    BY <1>4, ModeKept DEF Prepare
  <2> QED
    BY <1>4, <2>1, PrepareIs DEF PrepareStep, RefuseStep
<1>5. CASE AssignTimestamp /\ mode # "LEADER"
  BY <1>5, AssignIs, ModeKept DEF AssignFailStep
<1>6. CASE Start
  BY <1>6, StartIs, ModeKept DEF Start, StartStep
<1>7. CASE Replicate
  <2> DEFINE o == prepare_thread.op
  <2>1. mode' = mode
    BY <1>7, ModeKept DEF Replicate
  <2>2. CASE CheckBoundTerm(o)
    <3>1. ReplicateStep(o)
      BY <1>7, <2>2, ReplicateIs
    <3>2. \A i \in DOMAIN pending' : i = PendingEnd \/ i \in DOMAIN pending
      BY <3>1 DEF ReplicateStep, PendingGrows
    <3>3. pending'[PendingEnd].kind = "OP" /\ \A i \in DOMAIN pending : pending'[i] = pending[i]
      BY <3>1 DEF ReplicateStep, PendingGrows, OpRound
    <3> QED
      BY <2>1, <3>1, <3>2, <3>3 DEF ReplicateStep
  <2>3. CASE ~CheckBoundTerm(o)
    BY <1>7, <2>1, <2>3, ReplicateIs DEF ReplicateFailStep
  <2> QED
    BY <2>2, <2>3
<1>8. CASE PrepareThreadApplies
  BY <1>8, PrepareThreadAppliesIs, ModeKept DEF PrepareThreadApplies, SubmitStep, ApplyFailStep
<1>9. CASE AdjustLowerBound
  BY <1>9, AdjustLowerBoundIs, ModeKept DEF AdjustLowerBound, LowerBoundStep, SameTs
<1>10. CASE CommitRound
  <2>1. mode' = mode
    BY <1>10, CommitRoundIs, ModeKept
  <2>2. PendingShifts
    BY <1>10, CommitRoundIs
  <2> QED
    BY <1>10, <2>1, <2>2, CommitRoundIs DEF CommitOpStep, CommitOtherStep, PendingShifts, SameTs
<1>11. CASE AbortOpsAfter
  <2>1. PICK k \in Nat : AbortAfterStep(k)
    BY <1>11, AbortOpsAfterIs
  <2> QED
    BY <1>11, <2>1, ModeKept DEF AbortAfterStep, AbortOpsAfter, SameTs
<1>12. CASE AbortRound
  BY <1>12, AbortRoundIs, ModeKept DEF AbortRound, AbortOpStep, AbortOtherStep, SameTs
<1>13. CASE ReplicationFinished
  BY <1>13, ReplicationFinishedIs, ModeKept DEF ReplicationFinished, FinishStep
<1>14. CASE ConsensusThreadApplies
  BY <1>14, ConsensusThreadAppliesIs, ModeKept
     DEF ConsensusThreadApplies, FinishSubmitStep, FinishFailStep
<1>15. CASE QuietStep
  BY <1>15, QuietIs, QuietMode DEF raftVars, opVars, SameTs
<1> QED
  BY <1>1, <1>2, <1>3, <1>4, <1>5, <1>6, <1>7, <1>8, <1>9, <1>10, <1>11, <1>12, <1>13, <1>14, <1>15

LEMMA AssignedStamps ==
    /\ \A o \in Ops, t \in Timestamps :
          Exact(o) /\ TM!AssignTimestamp(GetMessageConsistencyMode(o), t) /\ clock \in Nat =>
             t = clock' /\ t = clock + 1
    /\ \A t \in Timestamps : TM!AssignTimestamp("CLIENT_PROPAGATED", t) => t = clock' /\ t = clock + 1
    /\ \A ec : \A t \in Timestamps :
          TM!MessageReceivedFromLeader(ec, t) /\ clock \in Nat => t <= clock'
<1>1. ASSUME NEW o \in Ops, NEW t \in Timestamps, Exact(o), clock \in Nat,
             TM!AssignTimestamp(GetMessageConsistencyMode(o), t)
      PROVE  t = clock' /\ t = clock + 1
  BY <1>1, ModeTypes DEF Exact, TM!AssignTimestamp, TM!ClockTo, Modes
<1>2. ASSUME NEW t \in Timestamps, TM!AssignTimestamp("CLIENT_PROPAGATED", t)
      PROVE  t = clock' /\ t = clock + 1
  BY <1>2 DEF TM!AssignTimestamp, TM!ClockTo
<1>3. ASSUME NEW ec, NEW t \in Timestamps, TM!MessageReceivedFromLeader(ec, t), clock \in Nat
      PROVE  t <= clock'
  BY <1>3 DEF TM!MessageReceivedFromLeader, TM!ClockTo, TM!UpdatedClock, Timestamps
<1> QED
  BY <1>1, <1>2, <1>3

LEMMA ClockStep == ASSUME UseInv, [Next]_vars PROVE ClockInv'
<1>0. clock \in Nat /\ clock' \in Nat /\ clock' >= clock
  BY TimeTypes, ManagersStep
<1>1. CASE \/ \E o \in Ops : ExecuteAsync(o) \/ ApplyStep(o)
           \/ PrepareFails \/ Prepare \/ (AssignTimestamp /\ mode # "LEADER") \/ Start \/ Replicate
           \/ PrepareThreadApplies \/ AdjustLowerBound \/ CommitRound \/ AbortOpsAfter \/ AbortRound
           \/ ReplicationFinished \/ ConsensusThreadApplies \/ QuietStep
  BY <1>1, KeepingSteps, StampsKeptKeeps
<1>2. /\ \A o \in Ops : op[o].ts \in Nat
      /\ \A i \in DOMAIN pending : pending[i].kind # "OP" => pending[i].ts \in Nat
      /\ consensus_thread.pc \in Appending => consensus_thread.ts \in Nat
  <2>1. \A i \in DOMAIN pending : pending[i] \in Round
    BY TypeParts, SeqFacts DEF UseInv, RaftTypes
  <2> QED
    BY <2>1, TypeParts, FieldTypesHold, RoundFields, ThreadFields
       DEF UseInv, FieldTypes, Timestamps, Appending
<1>3. /\ \A o \in Ops : Exact(o) => op[o].ts <= clock'
      /\ \A i \in DOMAIN pending : pending[i].kind # "OP" => pending[i].ts <= clock'
      /\ consensus_thread.pc \in Appending => consensus_thread.ts <= clock'
  BY <1>0, <1>2 DEF UseInv, ClockInv
<1> USE DEF UseInv
<1>4. CASE AssignTimestamp /\ mode = "LEADER"
  <2> DEFINE o == prepare_thread.op
  <2>1. PICK t \in Timestamps : TM!AssignTimestamp(GetMessageConsistencyMode(o), t) /\ TsTo(o, t)
    BY <1>4, AssignIs
  <2>2. o \in Ops /\ mode' = mode /\ AssignStep(o)
    BY <1>4, <2>1, AssignIs, ModeKept
  <2>3. \A x \in Ops : Exact(x) => op'[x].ts <= clock'
    BY <1>0, <1>3, <2>1, <2>2, AssignedStamps DEF TsTo
  <2> QED
    BY <1>3, <2>2, <2>3 DEF ClockInv, AssignStep, Exact, Appending
<1>5. CASE BecomeLeader
  BY <1>3, <1>5 DEF BecomeLeader, ClockInv, TM!SetLeaderMode, Exact, Appending
<1>6. CASE BecomeReplica
  <2>1. mode' # "LEADER"
    BY <1>6 DEF BecomeReplica, TM!SetNonLeaderMode, timeVars, ClockInv
  <2> QED
    BY <1>3, <1>6, <2>1 DEF BecomeReplica, ClockInv, Exact, Appending, ConsensusIdle, opVars
<1>7. CASE AssignNoOp
  <2>1. PICK t \in Timestamps : /\ TM!AssignTimestamp("CLIENT_PROPAGATED", t)
                                /\ consensus_thread' = [pc |-> "noop_append", ts |-> t]
    BY <1>7 DEF AssignNoOp
  <2>2. t = clock' /\ mode' = mode
    BY <2>1, AssignedStamps, ModeKept
  <2> QED
    BY <1>0, <1>3, <1>7, <2>1, <2>2 DEF AssignNoOp, ClockInv, Exact, Appending, raftVars
<1>8. CASE ReplicateConfigChange
  <2>1. PICK t \in Timestamps : /\ TM!AssignTimestamp("CLIENT_PROPAGATED", t)
                                /\ consensus_thread' = [pc |-> "config_refresh", ts |-> t]
    BY <1>8 DEF ReplicateConfigChange
  <2>2. t = clock' /\ mode' = mode
    BY <2>1, AssignedStamps, ModeKept
  <2> QED
    BY <1>0, <1>3, <1>8, <2>1, <2>2 DEF ReplicateConfigChange, ClockInv, Exact, Appending
<1>9. CASE RefreshConsensusQueueAndPeers
  <2>1. consensus_thread \in [pc : Appending, ts : Timestamps]
    BY <1>9, TypeParts DEF RefreshConsensusQueueAndPeers, DriverTypes, OnConsensusThread, Idle,
       Appending
  <2>2. consensus_thread'.pc = "config_append" /\ consensus_thread'.ts = consensus_thread.ts
    BY <1>9, <2>1 DEF RefreshConsensusQueueAndPeers
  <2> QED
    BY <1>3, <1>9, <2>2 DEF RefreshConsensusQueueAndPeers, ClockInv, Exact, Appending,
       TM!SetLeaderMode, raftVars
<1>10. CASE AppendNoOp \/ AppendConfigChange \/ \E t \in Timestamps : ReceiveNoOp(t)
  <2>1. PICK r \in Round :
           /\ AppendOtherStep(r)
           /\ \/ AppendNoOp /\ r = NoOpRound(consensus_thread.ts)
              \/ AppendConfigChange /\ r = ConfigRound(consensus_thread.ts)
              \/ \E t \in Timestamps : ReceiveNoOp(t) /\ r = NoOpRound(t)
    BY <1>10, AppendIs
  <2>2. mode' = mode
    BY <2>1, ModeKept DEF AppendNoOp, AppendConfigChange, ReceiveNoOp
  <2>3. r.ts <= clock'
    <3>1. CASE AppendNoOp /\ r = NoOpRound(consensus_thread.ts)
      BY <1>3, <3>1 DEF AppendNoOp, NoOpRound, Appending
    <3>2. CASE AppendConfigChange /\ r = ConfigRound(consensus_thread.ts)
      BY <1>3, <3>2 DEF AppendConfigChange, ConfigRound, Appending
    <3>3. CASE \E t \in Timestamps : ReceiveNoOp(t) /\ r = NoOpRound(t)
      BY <1>0, <3>3, AssignedStamps DEF ReceiveNoOp, NoOpRound
    <3> QED
      BY <2>1, <3>1, <3>2, <3>3
  <2>4. \A i \in DOMAIN pending' : pending'[i] = r \/ (i \in DOMAIN pending /\ pending'[i] = pending[i])
    BY <2>1 DEF AppendOtherStep, PendingGrows
  <2> QED
    BY <1>3, <2>1, <2>2, <2>3, <2>4 DEF AppendOtherStep, ClockInv, Exact, Appending
<1>11. ASSUME NEW o \in Ops, NEW t \in Timestamps, StartFollowerOp(o, t) PROVE ClockInv'
  <2>1. FollowStep(o) /\ TsTo(o, t)
    BY <1>11, FollowIs
  <2>2. mode' = mode /\ t <= clock'
    BY <1>0, <1>11, ModeKept, AssignedStamps DEF StartFollowerOp
  <2>3. \A x \in Ops : Exact(x) => op'[x].ts <= clock'
    BY <1>3, <2>1, <2>2 DEF TsTo
  <2>4. \A i \in DOMAIN pending' : pending'[i] = OpRound(o) \/ (i \in DOMAIN pending /\ pending'[i] = pending[i])
    BY <2>1 DEF FollowStep, PendingGrows
  <2> QED
    BY <1>3, <2>1, <2>2, <2>3, <2>4 DEF FollowStep, ClockInv, Exact, Appending, OpRound
<1> QED
  BY <1>1, <1>4, <1>5, <1>6, <1>7, <1>8, <1>9, <1>10, <1>11, NextCases

\* The managers start as their specifications say.
LEMMA ManagersInit == Init => MP!Init /\ TP!Init
<1> SUFFICES ASSUME Init PROVE MP!Init /\ TP!Init
  OBVIOUS
<1>1. MP!Init
  BY DEF Init, M!Init, MP!Init, M!Timestamps, MP!Timestamps, M!kMin, MP!kMin,
     M!kInitialTimestamp, MP!kInitialTimestamp
<1>2. TP!Init
  BY DEF Init, TM!Init, TP!Init
<1> QED
  BY <1>1, <1>2

LEMMA UseInit == Init => UseInv
<1> SUFFICES ASSUME Init PROVE UseInv
  OBVIOUS
<1>0. /\ kMax \in Nat /\ kMax > 1 /\ MaxError \in Nat /\ 0 \in Nat
      /\ MP!kMaxAssumption /\ TP!TimeAssumption
  BY ReplicaAssumption DEF MP!kMaxAssumption, TP!TimeAssumption
<1>1. OrderInv /\ ParticipantInv
  BY OrderInit, ParticipantInit
<1>2. ClockInv
  <2>1. /\ \A o \in Ops : op[o].ts = 0
        /\ pending = <<>> /\ consensus_thread.pc = "idle" /\ role = "FOLLOWER"
        /\ clock = 1 /\ mode = "NON_LEADER"
    BY DEF Init, Idle, TM!Init
  <2> QED
    BY <2>1 DEF ClockInv, Appending
<1>3. MP!SnapInv
  BY <1>0, ManagersInit, MP!SnapInit, Zenon
<1>4. MP!WaitInv
  BY <1>0, ManagersInit, MP!WaitInit, Zenon
<1>5. TP!SafeInv
  BY <1>0, ManagersInit, TP!SafeInit, Zenon
<1> QED
  BY <1>1, <1>2, <1>3, <1>4, <1>5 DEF UseInv, ManagersInv

LEMMA UseStep == UseInv /\ [Next]_vars => UseInv'
<1> SUFFICES ASSUME UseInv, [Next]_vars PROVE UseInv'
  OBVIOUS
<1>1. OrderInv' /\ ParticipantInv'
  BY OrderStep, ParticipantStep DEF UseInv
<1> QED
  BY <1>1, ClockStep, ManagersStep DEF UseInv

LEMMA UseHolds == Spec => []UseInv
<1>1. UseInv /\ UNCHANGED vars => UseInv'
  BY UseStep
<1> QED
  BY UseInit, UseStep, PTL DEF Spec

\* The replica uses the MVCC manager and the time manager only as their own
\* specifications allow: every interleaving of its drivers, its consensus thread, its
\* apply pool and its scans is a behaviour of Mvcc.tla and of TimeManager.tla (with
\* no clock skew), so that what is proved of the managers alone holds inside it. The
\* timestamps it passes are those it was assigned, and safe time is only ever asked
\* to move to a timestamp the clock has reached.
THEOREM ReplicaUsesManagers == Spec => MP!Spec /\ TP!Spec
<1>1. UseInv /\ [Next]_vars => [MP!Next]_(MP!mvccVars) /\ [TP!Next]_(TP!timeVars)
  BY MvccUsed, TimeUsed DEF MvccStep, TimeStep
<1> QED
  BY <1>1, ManagersInit, UseHolds, PTL DEF Spec, MP!Spec, TP!Spec

-----------------------------------------------------------------------------
(***************************************************************************)
(* The drivers and the ops in flight. A COMMIT_WAIT write takes the latest *)
(* time the clock may show, which a later reading may give again: what     *)
(* follows is proved where no timestamp is ahead of the clock.             *)
(***************************************************************************)
ExactTimestamps == MaxError = 0 \/ CommitWaits = {}

\* No two ops have one timestamp.
Distinct == \A a, b \in Ops : op[a].ts # 0 /\ a # b => op[a].ts # op[b].ts

\* What MVCC knows of the op of a driver: that of a BEGIN_COMMIT is finished by
\* another op of the transaction.
Reserved(o) == op[o].repl # "NOT_REPLICATING" /\ op[o].stage \in {"driven", "submitted"}
Owned(o)    == o \in BeginCommits /\ Done(o) /\ txn.state = "COMMIT_IN_PROGRESS"
Finalizing  == \E f \in FinalizeCommits : op[f].stage = "applying"
OpStateOf(o) ==
    IF Reserved(o) THEN "RESERVED"
    ELSE IF o \in RowOps /\ op[o].stage = "applying" THEN "APPLYING"
    ELSE IF Owned(o) THEN IF Finalizing THEN "APPLYING" ELSE "RESERVED"
    ELSE "NONE"

StatesMatch  == \A o \in MvccOps : op[o].ts # 0 => ops_in_flight[op[o].ts] = OpStateOf(o)
RowsApplied  == \A o \in RowOps : op[o].stage = "applied" => op[o].ts \in applied
KnownToMvcc  == M!InFlight \cup applied
DriversKnown == \A t \in KnownToMvcc : \E o \in MvccOps : op[o].ts = t /\ op[o].repl # "NOT_REPLICATING"
BeginsNotApplying == \A b \in BeginCommits : op[b].stage # "applying"

FlightInv == open /\ StatesMatch /\ RowsApplied /\ DriversKnown /\ BeginsNotApplying

\* What a step does to the ops in flight: nothing, or one of them is at another state.
FlightsKept == ops_in_flight' = ops_in_flight /\ applied' = applied /\ open' = open
FlightTo(t, v) ==
    /\ t \in Timestamps
    /\ ops_in_flight'[t] = v
    /\ \A u \in Timestamps : u # t => ops_in_flight'[u] = ops_in_flight[u]
    /\ applied \subseteq applied' /\ applied' \subseteq applied \cup {t}
    /\ open' = open

\* A driver whose MVCC op stays as it was.
OpKept(x) ==
    /\ op'[x].ts = op[x].ts
    /\ OpStateOf(x)' = OpStateOf(x)
    /\ op[x].repl # "NOT_REPLICATING" => op'[x].repl # "NOT_REPLICATING"
    /\ x \in RowOps /\ op'[x].stage = "applied" => op[x].stage = "applied"
    /\ x \in BeginCommits => op'[x].stage # "applying"

\* A step that touches one driver and neither begins nor ends a FINALIZE_COMMIT's apply.
OnlyOp(o) ==
    /\ \A x \in Ops : x # o => /\ op'[x].ts = op[x].ts /\ op'[x].repl = op[x].repl
                               /\ op'[x].stage = op[x].stage
    /\ o \in FinalizeCommits => (op'[o].stage = "applying" <=> op[o].stage = "applying")
    /\ txn'.state = txn.state

LEMMA FlightsKeptKeep ==
    ASSUME FlightInv, FlightsKept, \A x \in MvccOps : OpKept(x)
    PROVE  FlightInv'
<1>1. open' /\ BeginsNotApplying'
  BY OpKinds DEF FlightInv, FlightsKept, BeginsNotApplying, OpKept
<1>2. StatesMatch'
  BY DEF FlightInv, FlightsKept, StatesMatch, OpKept
<1>3. RowsApplied'
  BY OpKinds DEF FlightInv, FlightsKept, RowsApplied, OpKept
<1>4. DriversKnown'
  BY DEF FlightInv, FlightsKept, DriversKnown, KnownToMvcc, OpKept, M!InFlight
<1> QED
  BY <1>1, <1>2, <1>3, <1>4 DEF FlightInv

LEMMA FlightToKeeps ==
    ASSUME FlightInv, Distinct', NEW b \in MvccOps, FlightTo(op'[b].ts, OpStateOf(b)'),
           op'[b].repl # "NOT_REPLICATING",
           op[b].repl # "NOT_REPLICATING" => op'[b].ts = op[b].ts,
           b \in RowOps /\ op'[b].stage = "applied" => op'[b].ts \in applied',
           b \in BeginCommits => op'[b].stage # "applying",
           \A x \in MvccOps : op'[x].ts \in 0 .. (kMax - 1),
           \A x \in MvccOps : x # b => OpKept(x)
    PROVE  FlightInv'
<1>0. \A x \in MvccOps : op'[x].ts # 0 => op'[x].ts \in Timestamps
  BY ReplicaAssumption DEF Timestamps
<1>1. open' /\ BeginsNotApplying'
  BY OpKinds DEF FlightInv, FlightTo, BeginsNotApplying, OpKept
<1>2. StatesMatch'
  <2> SUFFICES ASSUME NEW x \in MvccOps, op'[x].ts # 0
               PROVE  ops_in_flight'[op'[x].ts] = OpStateOf(x)'
    BY DEF StatesMatch
  <2>1. CASE x = b
    BY <2>1 DEF FlightTo
  <2>2. CASE x # b
    <3>1. op'[x].ts # op'[b].ts
      BY <2>2, OpKinds DEF Distinct
    <3>2. ops_in_flight'[op'[x].ts] = ops_in_flight[op'[x].ts]
      BY <1>0, <3>1 DEF FlightTo
    <3> QED
      BY <2>2, <3>2 DEF OpKept, FlightInv, StatesMatch
  <2> QED
    BY <2>1, <2>2
<1>3. RowsApplied'
  BY OpKinds DEF FlightInv, FlightTo, RowsApplied, OpKept
<1>4. DriversKnown'
  <2> SUFFICES ASSUME NEW t \in KnownToMvcc'
               PROVE  \E o \in MvccOps : op'[o].ts = t /\ op'[o].repl # "NOT_REPLICATING"
    BY DEF DriversKnown
  <2>1. CASE t = op'[b].ts
    BY <2>1
  <2>2. CASE t # op'[b].ts
    <3>1. t \in KnownToMvcc
      BY <2>2 DEF FlightTo, KnownToMvcc, M!InFlight, M!Timestamps, Timestamps
    <3>2. PICK o \in MvccOps : op[o].ts = t /\ op[o].repl # "NOT_REPLICATING"
      BY <3>1 DEF FlightInv, DriversKnown
    <3>3. CASE o = b
      BY <2>2, <3>2, <3>3
    <3>4. CASE o # b
      BY <3>2, <3>4 DEF OpKept
    <3> QED
      BY <3>3, <3>4
  <2> QED
    BY <2>1, <2>2
<1> QED
  BY <1>1, <1>2, <1>3, <1>4 DEF FlightInv

LEMMA OthersKept ==
    ASSUME FlightInv, NEW o \in Ops, OnlyOp(o)
    PROVE  /\ \A x \in MvccOps : x # o => OpKept(x)
           /\ Finalizing' <=> Finalizing
<1>1. Finalizing' <=> Finalizing
  BY OpKinds DEF Finalizing, OnlyOp
<1>2. ASSUME NEW x \in MvccOps, x # o PROVE OpKept(x)
  <2>1. x \in Ops /\ op'[x].ts = op[x].ts /\ op'[x].repl = op[x].repl /\ op'[x].stage = op[x].stage
    BY <1>2, OpKinds DEF OnlyOp
  <2>2. OpStateOf(x)' = OpStateOf(x)
    BY <1>1, <2>1 DEF OpStateOf, Reserved, Owned, Done, OnlyOp
  <2> QED
    BY <2>1, <2>2 DEF OpKept, FlightInv, BeginsNotApplying
<1> QED
  BY <1>1, <1>2

\* What the calls of the MVCC manager do to the ops in flight.
LEMMA FlightCalls ==
    ASSUME MP!TypeOK
    PROVE  /\ \A t \in Timestamps :
                 /\ M!StartOp(t) => FlightTo(t, "RESERVED") /\ ops_in_flight[t] = "NONE"
                 /\ M!StartApplyingOp(t) => FlightTo(t, "APPLYING")
                 /\ M!FinishApplyingOp(t) => FlightTo(t, "NONE") /\ t \in applied'
                 /\ M!AdjustNewOpLowerBound(t) => FlightsKept
           /\ \A t : M!AbortOp(t) => FlightTo(t, "NONE")
           /\ \A w, t : M!CallWaitForSnapshot(w, t) => FlightsKept
           /\ \A w : M!CallWaitForApplyingOps(w) \/ M!WaitUntilStep(w) => FlightsKept
           /\ UNCHANGED mvccVars => FlightsKept
<1>0. ops_in_flight \in [Timestamps -> {"NONE", "RESERVED", "APPLYING"}]
  BY DEF MP!TypeOK, MP!Timestamps, Timestamps
<1> USE DEF FlightTo, FlightsKept, M!closeVars
<1>1. ASSUME NEW t \in Timestamps
      PROVE  /\ M!StartOp(t) => FlightTo(t, "RESERVED") /\ ops_in_flight[t] = "NONE"
             /\ M!StartApplyingOp(t) => FlightTo(t, "APPLYING")
  BY <1>0 DEF M!StartOp, M!StartApplyingOp, M!StartOpAllowed
<1>2. ASSUME NEW t \in Timestamps
      PROVE  M!FinishApplyingOp(t) => FlightTo(t, "NONE") /\ t \in applied'
  BY <1>0 DEF M!FinishApplyingOp
<1>3. ASSUME NEW t \in Timestamps PROVE M!AdjustNewOpLowerBound(t) => FlightsKept
  BY DEF M!AdjustNewOpLowerBound
<1>4. ASSUME NEW t PROVE M!AbortOp(t) => FlightTo(t, "NONE")
  BY <1>0 DEF M!AbortOp, M!InFlight, M!Timestamps, Timestamps
<1>5. ASSUME NEW w, NEW t PROVE M!CallWaitForSnapshot(w, t) => FlightsKept
  BY DEF M!CallWaitForSnapshot, M!opVars
<1>6. ASSUME NEW w PROVE M!CallWaitForApplyingOps(w) \/ M!WaitUntilStep(w) => FlightsKept
  BY DEF M!CallWaitForApplyingOps, M!WaitUntilStep, M!ScanApplyingOps, M!WaitUntilCheckOpen,
     M!WaitUntilRegister, M!WaitUntilWoken, M!WaitUntilCleanup, M!opVars
<1>7. UNCHANGED mvccVars => FlightsKept
  BY DEF mvccVars
<1> QED
  BY <1>1, <1>2, <1>3, <1>4, <1>5, <1>6, <1>7

LEMMA QuietFlights == ASSUME MP!TypeOK, QuietStep PROVE FlightsKept
<1>1. CASE \/ UNCHANGED vars
           \/ ReadSafeTime \/ Tick
           \/ \E t \in Timestamps : Heartbeat(t)
           \/ \E w \in Scanners : ScanWaitUntilSafe(w) \/ ScanRows(w)
  BY <1>1, FlightCalls DEF vars, Heartbeat, ReadSafeTime, Tick, ScanWaitUntilSafe, ScanRows
<1>2. CASE \E w \in Scanners : ScanWaitForSnapshot(w)
  BY <1>2, FlightCalls DEF ScanWaitForSnapshot
<1>3. CASE \E w \in Flushers : FlushWaits(w)
  BY <1>3, FlightCalls DEF FlushWaits
<1> QED
  BY <1>1, <1>2, <1>3 DEF QuietStep

ExactInv == UseInv /\ Distinct /\ FlightInv

\* The facts of the invariant that the steps below use.
LEMMA ExactFacts ==
    ASSUME ExactInv
    PROVE  /\ OrderInv /\ ParticipantInv /\ ClockInv /\ MP!TypeOK /\ FieldsInv
           /\ op \in [Ops -> Driver]
           /\ \A o \in Ops : op[o].ts \in 0 .. (kMax - 1) /\ (op[o].ts # 0 <=> op[o].ts \in Timestamps)
           /\ 0 \notin M!InFlight
           /\ \A o \in Ops : op[o].repl = "NOT_REPLICATING" /\ ~OnPrepare({"start"}, o) => op[o].ts = 0
           /\ \A o \in Ops : op[o].repl # "NOT_REPLICATING" => op[o].ts \in Timestamps
<1>1. OrderInv /\ ParticipantInv /\ ClockInv /\ MP!TypeOK /\ FieldsInv
  BY DEF ExactInv, UseInv, ManagersInv, MP!SnapInv, OrderInv
<1>2. op \in [Ops -> Driver] /\ \A o \in Ops : op[o].ts \in 0 .. (kMax - 1)
  BY <1>1, TypeParts DEF Driver
<1>3. \A o \in Ops : op[o].ts # 0 <=> op[o].ts \in Timestamps
  BY <1>2, ReplicaAssumption DEF Timestamps
<1>4. 0 \notin M!InFlight
  BY DEF M!InFlight, M!Timestamps
<1>5. \A o \in Ops : op[o].repl = "NOT_REPLICATING" /\ ~OnPrepare({"start"}, o) => op[o].ts = 0
  BY <1>1 DEF ParticipantInv, Stamped
<1>6. \A o \in Ops : op[o].repl # "NOT_REPLICATING" => op[o].ts \in Timestamps
  BY <1>1, <1>3 DEF ParticipantInv, Stamped
<1> QED
  BY <1>1, <1>2, <1>3, <1>4, <1>5, <1>6

\* A timestamp is given when it is above all the others, or is the leader's.
LEMMA DistinctStep ==
    ASSUME ExactTimestamps, ExactInv, [Next]_vars
    PROVE  Distinct'
<1>0. clock \in Nat /\ \A o \in Ops : Exact(o) /\ op[o].ts <= clock /\ op[o].ts \in Nat
  BY TimeTypes, ExactFacts DEF ExactInv, ExactTimestamps, Exact, ClockInv
<1>1. ASSUME SameTs PROVE Distinct'
  BY <1>1 DEF ExactInv, Distinct, SameTs
<1>2. ASSUME NEW o \in Ops, NEW t \in Timestamps, TsTo(o, t), \A x \in Ops : op[x].ts # t
      PROVE  Distinct'
  BY <1>2 DEF ExactInv, Distinct, TsTo
<1>3. CASE \/ \E o \in Ops : ExecuteAsync(o) \/ ApplyStep(o)
           \/ PrepareFails \/ Prepare \/ (AssignTimestamp /\ mode # "LEADER") \/ Start \/ Replicate
           \/ PrepareThreadApplies \/ AdjustLowerBound \/ CommitRound \/ AbortOpsAfter \/ AbortRound
           \/ ReplicationFinished \/ ConsensusThreadApplies \/ QuietStep
  BY <1>1, <1>3, KeepingSteps DEF ExactInv, StampsKept
<1>4. CASE AssignTimestamp /\ mode = "LEADER"
  <2> DEFINE o == prepare_thread.op
  <2>1. o \in Ops /\ \E t \in Timestamps :
           TM!AssignTimestamp(GetMessageConsistencyMode(o), t) /\ TsTo(o, t)
    BY <1>4, AssignIs, ExactFacts
  <2>2. PICK t \in Timestamps : TM!AssignTimestamp(GetMessageConsistencyMode(o), t) /\ TsTo(o, t)
    BY <2>1
  <2>3. t = clock + 1
    BY <1>0, <2>1, <2>2, AssignedStamps
  <2>4. \A x \in Ops : op[x].ts # t
    BY <1>0, <2>3
  <2> QED
    BY <1>2, <2>1, <2>2, <2>4
<1>5. CASE \/ BecomeLeader \/ AssignNoOp \/ BecomeReplica \/ ReplicateConfigChange
           \/ RefreshConsensusQueueAndPeers
  BY <1>1, <1>5, RaftIs, ExactFacts DEF RaftStep, SameTs
<1>6. CASE AppendNoOp \/ AppendConfigChange \/ \E t \in Timestamps : ReceiveNoOp(t)
  BY <1>1, <1>6, AppendIs, ExactFacts DEF AppendOtherStep, SameTs
<1>7. ASSUME NEW o \in Ops, NEW t \in Timestamps, StartFollowerOp(o, t) PROVE Distinct'
  BY <1>2, <1>7, FollowIs, ExactFacts DEF StartFollowerOp, LeaderTimestamps
<1> QED
  BY <1>3, <1>4, <1>5, <1>6, <1>7, NextCases

\* The steps that change the state of no MVCC op.
LEMMA UntouchedFlights ==
    ASSUME ExactInv, [Next]_vars, FlightsKept, UNCHANGED <<op, txn>>
    PROVE  FlightInv'
<1>1. \A x \in MvccOps : OpKept(x)
  BY OpKinds DEF ExactInv, FlightInv, BeginsNotApplying, OpKept, OpStateOf, Reserved, Owned, Done, Finalizing
<1> QED
  BY <1>1, FlightsKeptKeep DEF ExactInv

\* A driver that moves on while its MVCC op stays.
LEMMA DriverMoves ==
    ASSUME ExactInv, NEW o \in Ops, OnlyOp(o), FlightsKept,
           op'[o].ts = op[o].ts,
           Reserved(o)' <=> Reserved(o),
           op'[o].stage \notin {"applying", "applied"}, op[o].stage \notin {"applying", "applied"},
           op[o].repl # "NOT_REPLICATING" => op'[o].repl # "NOT_REPLICATING"
    PROVE  FlightInv'
<1>1. \A x \in MvccOps : x # o => OpKept(x)
  BY OthersKept DEF ExactInv
<1>2. OpKept(o)
  BY DEF OpKept, OpStateOf, Owned, Done
<1> QED
  BY <1>1, <1>2, FlightsKeptKeep DEF ExactInv

LEMMA ExecuteKeepsFlights ==
    ASSUME ExactInv, NEW o \in Ops, ExecuteAsync(o)
    PROVE  FlightInv'
<1>1. ExecuteStep(o) /\ UNCHANGED <<mvccVars, txn>>
  BY ExecuteIs, ExactFacts DEF ExecuteAsync
<1>2. op[o].repl = "NOT_REPLICATING"
  BY <1>1, ExactFacts DEF ExecuteStep, FieldsInv, FieldsOf
<1> QED
  BY <1>1, <1>2, DriverMoves, FlightCalls, ExactFacts
     DEF ExecuteStep, OnlyOp, StageTo, SameTs, SameRepl, Reserved

LEMMA RefuseKeepsFlights ==
    ASSUME ExactInv, NEW o \in Ops, RefuseStep(o), UNCHANGED <<mvccVars, txn>>
    PROVE  FlightInv'
<1>1. op[o].stage \notin {"applying", "applied"}
  BY ExactFacts DEF RefuseStep, FieldsInv, FieldsOf
<1> QED
  BY <1>1, DriverMoves, FlightCalls, ExactFacts
     DEF RefuseStep, OnlyOp, StageTo, SameTs, SameRepl, Reserved

LEMMA PrepareKeepsFlights ==
    ASSUME ExactInv, NEW o \in Ops, PrepareStep(o), UNCHANGED mvccVars, txn'.state = txn.state
    PROVE  FlightInv'
<1>1. op[o].stage \notin {"applying", "applied"}
  BY ExactFacts DEF PrepareStep, OrderInv, QueueInv, QueuedUnprepared, Underway, QueueShifts
<1> QED
  BY <1>1, DriverMoves, FlightCalls, ExactFacts
     DEF PrepareStep, OnlyOp, SameStages, SameTs, SameRepl, Reserved

\* The MVCC op of a driver that fails is aborted once, by the prepare thread or by
\* the consensus thread.
LEMMA FailureAborts ==
    ASSUME ExactInv, Distinct', op' \in [Ops -> Driver], NEW o \in Ops, HandleFailure(o), OnlyOp(o),
           op'[o].ts = op[o].ts, op'[o].stage = "failed", Underway(o),
           op[o].repl # "NOT_REPLICATING" <=> op'[o].repl # "NOT_REPLICATING",
           op[o].repl = "NOT_REPLICATING" => op[o].ts = 0
    PROVE  FlightInv'
<1>1. \A x \in MvccOps : x # o => OpKept(x)
  BY OthersKept DEF ExactInv
<1>2. OpStateOf(o)' = "NONE"
  BY DEF OpStateOf, Reserved, Owned, Done
<1>3. CASE o \notin MvccOps
  <2>1. FlightsKept
    BY <1>3, FlightCalls, ExactFacts DEF HandleFailure
  <2> QED
    BY <1>1, <1>3, <2>1, FlightsKeptKeep DEF ExactInv
<1>4. CASE o \in MvccOps /\ op[o].repl = "NOT_REPLICATING"
  <2>1. FlightsKept
    BY <1>4, FlightCalls, ExactFacts DEF HandleFailure
  <2>2. OpKept(o)
    BY <1>2, <1>4 DEF OpKept, OpStateOf, Reserved, Owned, Done, Underway
  <2> QED
    BY <1>1, <2>1, <2>2, FlightsKeptKeep DEF ExactInv
<1>5. CASE o \in MvccOps /\ op[o].repl # "NOT_REPLICATING" /\ op[o].stage = "driven"
  <2>1. ops_in_flight[op[o].ts] = "RESERVED" /\ op[o].ts \in Timestamps
    BY <1>5, ExactFacts, ReplicaAssumption
       DEF ExactInv, FlightInv, StatesMatch, OpStateOf, Reserved, Timestamps
  <2>2. M!AbortOp(op[o].ts)
    BY <1>5, <2>1 DEF HandleFailure, M!InFlight, M!Timestamps, Timestamps
  <2>3. FlightTo(op'[o].ts, OpStateOf(o)')
    BY <1>2, <2>2, FlightCalls, ExactFacts
  <2>4. \A x \in MvccOps : op'[x].ts \in 0 .. (kMax - 1)
    BY OpKinds DEF Driver
  <2> QED
    BY <1>1, <1>5, <2>3, <2>4, FlightToKeeps DEF ExactInv
<1>6. CASE o \in MvccOps /\ op[o].repl # "NOT_REPLICATING" /\ op[o].stage = "mvcc_aborted"
  <2>1. FlightsKept
    BY <1>6, FlightCalls, ExactFacts DEF HandleFailure
  <2>2. OpKept(o)
    BY <1>2, <1>6 DEF OpKept, OpStateOf, Reserved, Owned, Done
  <2> QED
    BY <1>1, <2>1, <2>2, FlightsKeptKeep DEF ExactInv
<1> QED
  BY <1>3, <1>4, <1>5, <1>6 DEF Underway

LEMMA UnlockedState == ASSUME txn \in TxnType PROVE \A o : Unlocked(o).state = txn.state
  BY DEF Unlocked, TxnType

\* The prepare thread's steps.
LEMMA AssignKeepsFlights ==
    ASSUME ExactTimestamps, ExactInv, [Next]_vars, AssignTimestamp, NEW o \in Ops, prepare_thread.op = o
    PROVE  FlightInv'
<1>0. o \in Ops /\ prepare_thread.pc = "assign"
  BY AssignIs, ExactFacts DEF AssignTimestamp
<1>1. op[o].repl = "NOT_REPLICATING" /\ op[o].stage = "driven" /\ op[o].ts = 0
  BY <1>0, ExactFacts DEF OrderInv, PrepareInv, HoldsLocal, OnPrepare
<1>2. CASE mode = "LEADER"
  <2>1. AssignStep(o) /\ UNCHANGED <<mvccVars, txn>>
    BY <1>2, AssignIs, ExactFacts
  <2>2. PICK t \in Timestamps : TM!AssignTimestamp(GetMessageConsistencyMode(o), t) /\ TsTo(o, t)
    BY <1>2, AssignIs, ExactFacts
  <2>3. OnlyOp(o)
    BY <1>0, <2>1, <2>2, OpKinds DEF AssignStep, OnlyOp, SameStages, SameRepl, TsTo
  <2>4. FlightsKept /\ \A x \in MvccOps : x # o => OpKept(x)
    BY <1>0, <2>1, <2>3, OthersKept, FlightCalls, ExactFacts DEF ExactInv
  <2>5. t \notin KnownToMvcc
    <3>1. clock \in Nat /\ \A x \in Ops : Exact(x) /\ op[x].ts <= clock /\ op[x].ts \in Nat
      BY TimeTypes, ExactFacts DEF ExactInv, ExactTimestamps, Exact, ClockInv
    <3>2. t = clock + 1
      BY <1>0, <2>2, <3>1, AssignedStamps
    <3>3. \A x \in Ops : op[x].ts # t
      BY <3>1, <3>2
    <3> QED
      BY <3>3, OpKinds DEF ExactInv, FlightInv, DriversKnown
  <2>6. ops_in_flight'[op'[o].ts] = "NONE" /\ OpStateOf(o)' = "NONE"
    <3>1. ops_in_flight[t] = "NONE"
      BY <2>5 DEF KnownToMvcc, M!InFlight, M!Timestamps, Timestamps
    <3>2. OpStateOf(o)' = "NONE"
      BY <1>0, <1>1, <2>1 DEF AssignStep, SameStages, SameRepl, OpStateOf, Reserved, Owned, Done
    <3> QED
      BY <2>2, <2>4, <3>1, <3>2 DEF FlightsKept, TsTo
  <2>7. open' /\ BeginsNotApplying'
    BY <1>0, <2>1, <2>4, OpKinds
       DEF ExactInv, FlightInv, FlightsKept, BeginsNotApplying, AssignStep, SameStages
  <2>8. StatesMatch'
    <3> SUFFICES ASSUME NEW x \in MvccOps, op'[x].ts # 0
                 PROVE  ops_in_flight'[op'[x].ts] = OpStateOf(x)'
      BY DEF StatesMatch
    <3>1. CASE x = o
      BY <2>6, <3>1
    <3>2. CASE x # o
      BY <2>4, <3>2 DEF ExactInv, FlightInv, FlightsKept, StatesMatch, OpKept
    <3> QED
      BY <3>1, <3>2
  <2>9. RowsApplied'
    <3>1. op'[o].stage # "applied"
      BY <1>0, <1>1, <2>1 DEF AssignStep, SameStages
    <3> QED
      BY <2>4, <3>1, OpKinds DEF ExactInv, FlightInv, FlightsKept, RowsApplied, OpKept
  <2>10. DriversKnown'
    BY <1>1, <2>4 DEF ExactInv, FlightInv, FlightsKept, DriversKnown, KnownToMvcc, OpKept, M!InFlight
  <2> QED
    BY <2>7, <2>8, <2>9, <2>10 DEF FlightInv
<1>3. CASE mode # "LEADER"
  <2>1. AssignFailStep(o) /\ HandleFailure(o) /\ op' \in [Ops -> Driver]
    BY <1>3, AssignIs, ExactFacts DEF ReplicaTypes, DriverTypes
  <2>2. txn'.state = txn.state
    BY <2>1, UnlockedState, TypeParts, ExactFacts DEF HandleFailure
  <2>3. OnlyOp(o) /\ op'[o].ts = op[o].ts /\ op'[o].stage = "failed" /\ op'[o].repl = op[o].repl
    BY <1>0, <1>1, <2>1, <2>2 DEF AssignFailStep, OnlyOp, StageTo, SameRepl, SameTs
  <2> QED
    BY <1>0, <1>1, <2>1, <2>3, FailureAborts, DistinctStep DEF Underway
<1> QED
  BY <1>2, <1>3

LEMMA StartKeepsFlights ==
    ASSUME ExactTimestamps, ExactInv, [Next]_vars, Start, NEW o \in Ops, prepare_thread.op = o
    PROVE  FlightInv'
<1>0. o \in Ops /\ StartStep(o) /\ op' \in [Ops -> Driver] /\ txn' = txn
  BY StartIs, ExactFacts DEF Start, ReplicaTypes, DriverTypes
<1>1. op[o].repl = "NOT_REPLICATING" /\ op[o].stage = "driven" /\ op[o].ts \in Timestamps
  BY <1>0, ExactFacts, StampedTs DEF StartStep, OrderInv, PrepareInv, HoldsLocal, OnPrepare
<1>2. OnlyOp(o) /\ op'[o].ts = op[o].ts /\ op'[o].repl = "REPLICATING" /\ op'[o].stage = "driven"
  BY <1>0, <1>1 DEF StartStep, OnlyOp, SameStages, SameTs, ReplTo
<1>3. \A x \in MvccOps : x # o => OpKept(x)
  BY <1>0, <1>2, OthersKept DEF ExactInv
<1>4. CASE o \in MvccOps
  <2>1. FlightTo(op'[o].ts, OpStateOf(o)')
    BY <1>1, <1>2, <1>4, FlightCalls, ExactFacts DEF Start, OpStateOf, Reserved
  <2>2. \A x \in MvccOps : op'[x].ts \in 0 .. (kMax - 1)
    BY <1>0, OpKinds DEF Driver
  <2>3. /\ op'[o].repl # "NOT_REPLICATING" /\ op'[o].stage # "applied" /\ op'[o].stage # "applying"
        /\ op[o].repl # "NOT_REPLICATING" => op'[o].ts = op[o].ts
        /\ Distinct' /\ FlightInv
    BY <1>1, <1>2, DistinctStep DEF ExactInv
  <2> QED
    BY <1>3, <1>4, <2>1, <2>2, <2>3, FlightToKeeps
<1>5. CASE o \notin MvccOps
  BY <1>3, <1>5, FlightsKeptKeep, FlightCalls, ExactFacts DEF Start, ExactInv
<1> QED
  BY <1>4, <1>5

LEMMA ReplicateKeepsFlights ==
    ASSUME ExactTimestamps, ExactInv, [Next]_vars, Replicate, NEW o \in Ops, prepare_thread.op = o
    PROVE  FlightInv'
<1>0. o \in Ops /\ op' \in [Ops -> Driver] /\ prepare_thread.pc = "replicate"
  BY ReplicateIs, ExactFacts DEF ReplicaTypes, DriverTypes, Replicate
<1>1. op[o].repl = "REPLICATING" /\ op[o].stage = "driven"
  BY <1>0, ExactFacts DEF OrderInv, PrepareInv, HoldsUnsent
<1>2. CASE CheckBoundTerm(o)
  <2>1. ReplicateStep(o) /\ UNCHANGED <<mvccVars, txn>>
    BY <1>2, ReplicateIs, ExactFacts DEF Replicate
  <2> QED
    BY <1>0, <1>1, <2>1, DriverMoves, FlightCalls, ExactFacts
       DEF ReplicateStep, OnlyOp, SameStages, SameTs, SameRepl, Reserved
<1>3. CASE ~CheckBoundTerm(o)
  <2>1. ReplicateFailStep(o) /\ HandleFailure(o)
    BY <1>3, ReplicateIs, ExactFacts DEF Replicate
  <2>2. txn'.state = txn.state
    BY <2>1, UnlockedState, TypeParts, ExactFacts DEF HandleFailure
  <2>3. /\ OnlyOp(o) /\ op'[o].ts = op[o].ts /\ op'[o].stage = "failed"
        /\ op'[o].repl # "NOT_REPLICATING"
    BY <1>0, <1>1, <2>1, <2>2 DEF ReplicateFailStep, OnlyOp, StageTo, ReplTo, SameTs
  <2> QED
    BY <1>0, <1>1, <2>1, <2>3, FailureAborts, DistinctStep DEF Underway
<1> QED
  BY <1>2, <1>3

\* ApplyAsync(), on either thread.
LEMMA ApplyAsyncKeepsFlights ==
    ASSUME ExactTimestamps, ExactInv, [Next]_vars, NEW o \in Ops, ApplyAsync(o),
           Underway(o), op[o].repl \in {"REPLICATED", "REPLICATION_FAILED"}
    PROVE  FlightInv'
<1>0. /\ op' \in [Ops -> Driver] /\ SameRepl /\ SameTs
      /\ op[o].repl = "REPLICATED" => StageTo(o, "submitted")
      /\ op[o].repl # "REPLICATED" => StageTo(o, "failed")
  BY ApplyAsyncIs, ExactFacts
<1>1. CASE op[o].repl = "REPLICATED"
  <2>1. op[o].stage = "driven"
    BY <1>1, ExactFacts DEF Underway, FieldsInv, FieldsOf
  <2>2. FlightsKept /\ txn' = txn
    BY <1>1, FlightCalls, ExactFacts DEF ApplyAsync, MvccOfApplyAsync
  <2> QED
    BY <1>0, <1>1, <2>1, <2>2, DriverMoves DEF OnlyOp, StageTo, SameRepl, SameTs, Reserved
<1>2. CASE op[o].repl # "REPLICATED"
  <2>1. HandleFailure(o)
    BY <1>2 DEF ApplyAsync
  <2>2. txn'.state = txn.state
    BY <2>1, UnlockedState, TypeParts, ExactFacts DEF HandleFailure
  <2>3. /\ OnlyOp(o) /\ op'[o].ts = op[o].ts /\ op'[o].stage = "failed" /\ op'[o].repl = op[o].repl
    BY <1>0, <1>2, <2>2 DEF OnlyOp, StageTo, SameRepl, SameTs, Underway
  <2> QED
    BY <1>0, <1>2, <2>1, <2>3, FailureAborts, DistinctStep
<1> QED
  BY <1>1, <1>2

\* The consensus thread's steps.
LEMMA AbortRoundKeepsFlights ==
    ASSUME ExactTimestamps, ExactInv, [Next]_vars, AbortRound
    PROVE  FlightInv'
<1>0. txn' = txn /\ op' \in [Ops -> Driver] /\ 1 \in DOMAIN Rest
  BY AbortRoundIs, ExactFacts DEF AbortRound, ReplicaTypes, DriverTypes
<1>1. CASE Rest[1].kind # "OP"
  BY <1>0, <1>1, AbortRoundIs, UntouchedFlights, FlightCalls, ExactFacts DEF AbortOtherStep
<1>2. CASE Rest[1].kind = "OP"
  <2>1. PICK o \in Ops : o = Rest[1].op
    BY <1>2, AbortRoundIs, ExactFacts
  <2>2. /\ AbortOpStep(o)
        /\ IF o \in RowOps THEN M!AbortOp(op[o].ts) ELSE UNCHANGED mvccVars
    BY <1>2, <2>1, AbortRoundIs, ExactFacts
  <2>3. op[o].repl = "REPLICATING" /\ op[o].stage = "driven"
    BY <1>0, <1>2, <2>1, ExactFacts DEF OrderInv, RestInv, RestAreSent
  <2>4. OnlyOp(o) /\ op'[o].ts = op[o].ts /\ op'[o].repl = op[o].repl
    BY <1>0, <2>2, <2>3, OpKinds DEF AbortOpStep, OnlyOp, SameTs, SameRepl
  <2>5. CASE o \in RowOps
    <3>1. o \in MvccOps /\ op'[o].stage = "mvcc_aborted" /\ OpStateOf(o)' = "NONE"
      BY <2>2, <2>5, OpKinds DEF AbortOpStep, OpStateOf, Reserved, Owned, Done
    <3>2. FlightTo(op'[o].ts, OpStateOf(o)')
      BY <2>2, <2>4, <2>5, <3>1, FlightCalls, ExactFacts
    <3>3. \A x \in MvccOps : op'[x].ts \in 0 .. (kMax - 1)
      BY <1>0, OpKinds DEF Driver
    <3>4. \A x \in MvccOps : x # o => OpKept(x)
      BY <2>4, OthersKept DEF ExactInv
    <3>5. op'[o].repl # "NOT_REPLICATING" /\ Distinct' /\ FlightInv
      BY <2>3, <2>4, DistinctStep DEF ExactInv
    <3> QED
      BY <2>4, <3>1, <3>2, <3>3, <3>4, <3>5, FlightToKeeps
  <2>6. CASE o \notin RowOps
    <3>1. op'[o].stage = "driven" /\ FlightsKept
      BY <2>2, <2>3, <2>6, FlightCalls, ExactFacts DEF AbortOpStep
    <3> QED
      BY <2>3, <2>4, <3>1, DriverMoves DEF Reserved
  <2> QED
    BY <2>5, <2>6
<1> QED
  BY <1>1, <1>2

LEMMA FinishKeepsFlights ==
    ASSUME ExactInv, ReplicationFinished
    PROVE  FlightInv'
<1>1. PICK o \in Ops : o = consensus_thread.op
  BY ReplicationFinishedIs, ExactFacts
<1>2. FinishStep(o) /\ UNCHANGED <<mvccVars, txn>>
  BY <1>1, ReplicationFinishedIs, ExactFacts DEF ReplicationFinished
<1>3. op[o].repl = "REPLICATING" /\ op[o].stage \in {"driven", "mvcc_aborted"}
  BY <1>2, ExactFacts DEF FinishStep, OrderInv, ConsensusInv, FinishesSent, FinishesInOrder
<1>4. /\ OnlyOp(o) /\ op'[o].ts = op[o].ts /\ op'[o].repl # "NOT_REPLICATING"
      /\ op'[o].stage = op[o].stage
  BY <1>2 DEF FinishStep, OnlyOp, SameStages, SameTs, ReplTo
<1>5. FlightsKept
  BY <1>2, FlightCalls, ExactFacts
<1> QED
  BY <1>3, <1>4, <1>5, DriverMoves DEF Reserved

LEMMA FollowKeepsFlights ==
    ASSUME ExactTimestamps, ExactInv, [Next]_vars, NEW o \in Ops, NEW t \in Timestamps,
           StartFollowerOp(o, t)
    PROVE  FlightInv'
<1>0. FollowStep(o) /\ TsTo(o, t) /\ txn' = txn /\ op' \in [Ops -> Driver]
  BY FollowIs, ExactFacts DEF ReplicaTypes, DriverTypes
<1>1. op[o].repl = "NOT_REPLICATING"
  BY <1>0, ExactFacts DEF FollowStep, FieldsInv, FieldsOf
<1>2. /\ OnlyOp(o) /\ op'[o].ts = t /\ op'[o].repl = "REPLICATING" /\ op'[o].stage = "driven"
  BY <1>0 DEF FollowStep, OnlyOp, StageTo, ReplTo, TsTo
<1>3. \A x \in MvccOps : x # o => OpKept(x)
  BY <1>2, OthersKept DEF ExactInv
<1>4. CASE o \in MvccOps
  <2>1. FlightTo(op'[o].ts, OpStateOf(o)')
    BY <1>2, <1>4, FlightCalls, ExactFacts DEF StartFollowerOp, OpStateOf, Reserved
  <2>2. \A x \in MvccOps : op'[x].ts \in 0 .. (kMax - 1)
    BY <1>0, OpKinds DEF Driver
  <2>3. Distinct' /\ FlightInv
    BY DistinctStep DEF ExactInv
  <2> QED
    BY <1>1, <1>2, <1>3, <1>4, <2>1, <2>2, <2>3, FlightToKeeps
<1>5. CASE o \notin MvccOps
  BY <1>3, <1>5, FlightsKeptKeep, FlightCalls, ExactFacts DEF StartFollowerOp, ExactInv
<1> QED
  BY <1>4, <1>5

\* A row op is applied.
LEMMA ApplyRowKeepsFlights ==
    ASSUME ExactTimestamps, ExactInv, [Next]_vars, NEW o \in Ops, ApplyWrite(o) \/ FinishWrite(o)
    PROVE  FlightInv'
<1>0. o \in RowOps /\ o \in MvccOps /\ o \notin FinalizeCommits /\ o \notin BeginCommits
  BY OpKinds DEF ApplyWrite, FinishWrite, RowOps
<1>1. PoolStep(o) /\ op' \in [Ops -> Driver] /\ txn' = txn
  BY ApplyStepIs, ExactFacts DEF ApplyStep, ReplicaTypes, DriverTypes, ApplyWrite, FinishWrite
<1>2. op[o].repl = "REPLICATED" /\ op[o].ts \in Timestamps
  BY <1>1, ExactFacts DEF PoolStep, FieldsInv, FieldsOf
<1>3. OnlyOp(o) /\ op'[o].ts = op[o].ts /\ op'[o].repl = "REPLICATED"
  BY <1>0, <1>1, <1>2 DEF PoolStep, OnlyOp, SameTs, SameRepl
<1>4. /\ \A x \in MvccOps : x # o => OpKept(x)
      /\ \A x \in MvccOps : op'[x].ts \in 0 .. (kMax - 1)
      /\ Distinct' /\ FlightInv
  BY <1>1, <1>3, OthersKept, OpKinds, DistinctStep DEF ExactInv, Driver
<1>5. CASE ApplyWrite(o)
  <2>1. op'[o].stage = "applying"
    BY <1>5, ExactFacts DEF ApplyWrite, Driver
  <2>2. FlightTo(op'[o].ts, OpStateOf(o)')
    BY <1>0, <1>2, <1>3, <1>5, <2>1, FlightCalls, ExactFacts DEF ApplyWrite, OpStateOf, Reserved
  <2> QED
    BY <1>0, <1>2, <1>3, <1>4, <2>1, <2>2, FlightToKeeps
<1>6. CASE FinishWrite(o)
  <2>1. op'[o].stage = "applied"
    BY <1>6, ExactFacts DEF FinishWrite, Driver
  <2>2. FlightTo(op'[o].ts, OpStateOf(o)') /\ op'[o].ts \in applied'
    BY <1>0, <1>2, <1>3, <1>6, <2>1, FlightCalls, ExactFacts
       DEF FinishWrite, OpStateOf, Reserved, Owned
  <2> QED
    BY <1>0, <1>2, <1>3, <1>4, <2>1, <2>2, FlightToKeeps
<1> QED
  BY <1>5, <1>6

\* A participant op is applied: only the one BEGIN_COMMIT that is done has an MVCC op
\* that depends on it.
LEMMA BeginAlone ==
    ASSUME ExactInv, NEW o \in Participants, PoolStep(o), NEW b \in BeginCommits,
           o \in BeginCommits => o = b,
           \A x \in BeginCommits : Done(x) => x = b
    PROVE  \A x \in MvccOps : x # b => OpKept(x)
<1> SUFFICES ASSUME NEW x \in MvccOps, x # b PROVE OpKept(x)
  OBVIOUS
<1>1. x # o /\ x \in Ops /\ (x \in BeginCommits => ~Done(x))
  BY OpKinds
<1>2. op'[x].stage = op[x].stage /\ op'[x].ts = op[x].ts /\ op'[x].repl = op[x].repl
  BY <1>1 DEF PoolStep, SameTs, SameRepl
<1>3. ~Owned(x) /\ ~Owned(x)'
  BY <1>1, <1>2 DEF Owned, Done
<1>4. OpStateOf(x)' = OpStateOf(x)
  BY <1>2, <1>3 DEF OpStateOf, Reserved
<1> QED
  BY <1>2, <1>4 DEF OpKept, ExactInv, FlightInv, BeginsNotApplying

LEMMA ApplyBeginKeepsFlights ==
    ASSUME ExactInv, NEW o \in Ops, ApplyBeginCommit(o)
    PROVE  FlightInv'
<1>0. /\ o \in BeginCommits /\ o \in Participants /\ o \notin RowOps /\ o \in MvccOps
      /\ op[o].stage = "submitted"
  BY OpKinds DEF ApplyBeginCommit
<1>1. PoolStep(o) /\ op'[o].stage = "applied" /\ FlightsKept /\ txn'.state = "COMMIT_IN_PROGRESS"
  <2>1. PoolStep(o) /\ FlightsKept
    BY ApplyStepIs, ExactFacts, FlightCalls DEF ApplyStep, ApplyBeginCommit
  <2>2. op'[o].stage = "applied"
    BY ExactFacts DEF ApplyBeginCommit, Driver
  <2>3. Unlocked(o) \in TxnType
    BY TypeParts, TxnUpdates, ExactFacts
  <2>4. txn'.state = "COMMIT_IN_PROGRESS"
    BY <2>3 DEF ApplyBeginCommit, TxnType
  <2> QED
    BY <2>1, <2>2, <2>4
<1>2. op[o].repl = "REPLICATED" /\ Locking(o)
  BY <1>0, ExactFacts, OpKinds DEF FieldsInv, FieldsOf, Locking, Prepared
<1>3. \A x \in BeginCommits : Done(x) => x = o
  BY <1>0, <1>2, ExactFacts, OpKinds
     DEF ParticipantInv, OneBegin, Going, Done, FieldsInv, FieldsOf
<1>4. \A f \in FinalizeCommits : op[f].stage # "applying"
  <2>1. \A f \in FinalizeCommits : op[f].stage = "applying" => Locking(f)
    BY ExactFacts, OpKinds DEF FieldsInv, FieldsOf, Locking, Prepared
  <2>2. o \notin FinalizeCommits /\ txn.lock = o
    BY <1>0, <1>2, ExactFacts, OpKinds DEF ParticipantInv, LockInv
  <2> QED
    BY <2>1, <2>2, ExactFacts, OpKinds DEF ParticipantInv, LockInv
<1>5. ~Finalizing'
  BY <1>0, <1>1, <1>4, OpKinds DEF Finalizing, PoolStep
<1>6. OpKept(o)
  <2>1. OpStateOf(o) = "RESERVED"
    BY <1>0, <1>2 DEF OpStateOf, Reserved
  <2>2. OpStateOf(o)' = "RESERVED"
    BY <1>0, <1>1, <1>5 DEF OpStateOf, Reserved, Owned, Done
  <2> QED
    BY <1>0, <1>1, <1>2, <2>1, <2>2 DEF OpKept, PoolStep, SameTs, SameRepl
<1>7. \A x \in MvccOps : x # o => OpKept(x)
  BY <1>0, <1>1, <1>3, BeginAlone
<1> QED
  BY <1>1, <1>6, <1>7, FlightsKeptKeep DEF ExactInv

\* FINALIZE_COMMIT and ABORT_TXN work on the MVCC op of the BEGIN_COMMIT.
LEMMA OwnerIs ==
    ASSUME ExactInv, txn.commit_op # 0
    PROVE  \E b \in BeginCommits :
              /\ Done(b) /\ op[b].ts = txn.commit_op /\ op[b].repl = "REPLICATED"
              /\ \A x \in BeginCommits : Done(x) => x = b
<1>1. PICK b \in BeginCommits : Done(b) /\ op[b].ts = txn.commit_op
  BY ExactFacts DEF ParticipantInv, TxnInv
<1>2. \A x \in BeginCommits : Done(x) => op[x].repl = "REPLICATED"
  BY ExactFacts, OpKinds DEF FieldsInv, FieldsOf, Done
<1> QED
  BY <1>1, <1>2, ExactFacts DEF ParticipantInv, OneBegin, Going

LEMMA ApplyFinalizeKeepsFlights ==
    ASSUME ExactTimestamps, ExactInv, [Next]_vars, NEW o \in Ops,
           \/ ApplyFinalizeCommit(o) \/ FinishFinalizeCommit(o)
           \/ (ApplyAbortTxn(o) /\ txn.commit_op # 0)
    PROVE  FlightInv'
<1>0. o \in FinalizeCommits \cup AbortTxns /\ o \in Participants /\ o \notin BeginCommits
  BY OpKinds DEF ApplyFinalizeCommit, FinishFinalizeCommit, ApplyAbortTxn
<1>1. PoolStep(o) /\ op' \in [Ops -> Driver]
  BY ApplyStepIs, ExactFacts DEF ApplyStep, ReplicaTypes, DriverTypes
<1>2. txn.commit_op # 0 /\ txn.commit_op \in Timestamps
  BY CommitOpTs, ExactFacts, OpKinds, ReplicaAssumption
     DEF ApplyFinalizeCommit, FinishFinalizeCommit, Timestamps
<1>3. PICK b \in BeginCommits : /\ Done(b) /\ op[b].ts = txn.commit_op /\ op[b].repl = "REPLICATED"
                                /\ \A x \in BeginCommits : Done(x) => x = b
  BY <1>2, OwnerIs
<1>4. /\ op'[b].ts = txn.commit_op /\ op'[b].stage = "applied" /\ op'[b].repl = "REPLICATED"
      /\ b \in MvccOps /\ b \notin RowOps /\ b # o
  BY <1>0, <1>1, <1>3, OpKinds DEF PoolStep, Done, SameTs, SameRepl
<1>5. /\ \A x \in MvccOps : x # b => OpKept(x)
      /\ \A x \in MvccOps : op'[x].ts \in 0 .. (kMax - 1)
      /\ Distinct' /\ FlightInv
  BY <1>0, <1>1, <1>3, BeginAlone, OpKinds, DistinctStep DEF ExactInv, Driver
<1>6. FlightTo(op'[b].ts, OpStateOf(b)')
  <2>1. CASE ApplyFinalizeCommit(o)
    <3>1. op'[o].stage = "applying" /\ o \in FinalizeCommits
      BY <2>1, ExactFacts DEF ApplyFinalizeCommit, Driver
    <3>2. txn'.state = "COMMIT_IN_PROGRESS"
      BY <2>1, <3>1, CommitOpTs, ExactFacts DEF ApplyFinalizeCommit
    <3>3. OpStateOf(b)' = "APPLYING"
      BY <1>3, <1>4, <3>1, <3>2 DEF OpStateOf, Reserved, Owned, Done, Finalizing
    <3>4. FlightTo(txn.commit_op, "APPLYING")
      BY <1>2, <2>1, FlightCalls, ExactFacts DEF ApplyFinalizeCommit
    <3> QED
      BY <1>4, <3>3, <3>4
  <2>2. CASE FinishFinalizeCommit(o) \/ ApplyAbortTxn(o)
    <3>1. txn'.state # "COMMIT_IN_PROGRESS"
      <4>1. Unlocked(o) \in TxnType
        BY TypeParts, TxnUpdates, ExactFacts
      <4> QED
        BY <2>2, <4>1 DEF FinishFinalizeCommit, ApplyAbortTxn, TxnType
    <3>2. OpStateOf(b)' = "NONE"
      BY <1>4, <3>1 DEF OpStateOf, Reserved, Owned
    <3>3. FlightTo(txn.commit_op, "NONE")
      BY <1>2, <2>2, FlightCalls, ExactFacts DEF FinishFinalizeCommit, ApplyAbortTxn
    <3> QED
      BY <1>4, <3>2, <3>3
  <2> QED
    BY <2>1, <2>2
<1> QED
  BY <1>3, <1>4, <1>5, <1>6, FlightToKeeps

LEMMA AbortOpenKeepsFlights ==
    ASSUME ExactInv, NEW o \in Ops, ApplyAbortTxn(o), txn.commit_op = 0
    PROVE  FlightInv'
<1>0. o \in Participants /\ o \notin FinalizeCommits /\ o \notin BeginCommits /\ o \notin RowOps
  BY OpKinds DEF ApplyAbortTxn
<1>1. PoolStep(o) /\ FlightsKept
  BY ApplyStepIs, ExactFacts, FlightCalls DEF ApplyStep, ApplyAbortTxn
<1>2. \A x \in BeginCommits : ~Done(x)
  <2>1. \A x \in BeginCommits : Done(x) => op[x].ts = 0 /\ op[x].repl = "REPLICATED"
    BY ExactFacts, OpKinds DEF ParticipantInv, TxnInv, FieldsInv, FieldsOf, Done
  <2> QED
    BY <2>1, ExactFacts, OpKinds DEF ParticipantInv, Stamped
<1>3. ASSUME NEW x \in MvccOps PROVE OpKept(x)
  <2>1. x # o /\ x \in Ops
    BY <1>0, OpKinds
  <2>2. op'[x].stage = op[x].stage /\ op'[x].ts = op[x].ts /\ op'[x].repl = op[x].repl
    BY <1>1, <2>1 DEF PoolStep, SameTs, SameRepl
  <2>3. ~Owned(x) /\ ~Owned(x)'
    BY <1>2, <2>2 DEF Owned, Done
  <2>4. OpStateOf(x)' = OpStateOf(x)
    BY <2>2, <2>3 DEF OpStateOf, Reserved
  <2> QED
    BY <2>2, <2>4 DEF OpKept, ExactInv, FlightInv, BeginsNotApplying
<1> QED
  BY <1>1, <1>3, FlightsKeptKeep DEF ExactInv

LEMMA FlightStep ==
    ASSUME ExactTimestamps, ExactInv, [Next]_vars
    PROVE  FlightInv'
<1>1. ASSUME NEW o \in Ops, ExecuteAsync(o) PROVE FlightInv'
  BY <1>1, ExecuteKeepsFlights
<1>2. ASSUME NEW o \in Ops, ApplyStep(o) PROVE FlightInv'
  BY <1>2, ApplyRowKeepsFlights, ApplyBeginKeepsFlights, ApplyFinalizeKeepsFlights,
     AbortOpenKeepsFlights DEF ApplyStep
<1>3. CASE PrepareFails
  BY <1>3, PrepareFailsIs, RefuseKeepsFlights, ExactFacts DEF PrepareFails
<1>4. CASE Prepare
  <2>1. UNCHANGED mvccVars
    BY <1>4 DEF Prepare
  <2>2. txn'.state = txn.state
    BY <1>4, PrepareIs, TypeParts, ExactFacts DEF TxnType
  <2> QED
    BY <1>4, <2>1, <2>2, PrepareIs, RefuseKeepsFlights, PrepareKeepsFlights, ExactFacts
<1>5. CASE AssignTimestamp
  BY <1>5, AssignIs, AssignKeepsFlights, ExactFacts
<1>6. CASE Start
  BY <1>6, StartIs, StartKeepsFlights, ExactFacts
<1>7. CASE Replicate
  BY <1>7, ReplicateIs, ReplicateKeepsFlights, ExactFacts
<1>8. CASE PrepareThreadApplies
  <2>1. /\ prepare_thread.op \in Ops /\ ApplyAsync(prepare_thread.op) /\ Underway(prepare_thread.op)
        /\ op[prepare_thread.op].repl \in {"REPLICATED", "REPLICATION_FAILED"}
    BY <1>8, PrepareThreadAppliesIs, ExactFacts
       DEF PrepareThreadApplies, OrderInv, PrepareInv, HoldsDecided
  <2> QED
    BY <2>1, ApplyAsyncKeepsFlights
<1>9. CASE ConsensusThreadApplies
  <2>1. /\ consensus_thread.op \in Ops /\ ApplyAsync(consensus_thread.op)
        /\ Underway(consensus_thread.op)
        /\ op[consensus_thread.op].repl \in {"REPLICATED", "REPLICATION_FAILED"}
    BY <1>9, ConsensusThreadAppliesIs, ExactFacts
       DEF ConsensusThreadApplies, OrderInv, ConsensusInv, AppliesDecided, FinishesInOrder, Underway
  <2> QED
    BY <2>1, ApplyAsyncKeepsFlights
<1>10. CASE AdjustLowerBound
  BY <1>10, AdjustLowerBoundIs, UntouchedFlights, FlightCalls, ExactFacts DEF AdjustLowerBound
<1>11. CASE CommitRound \/ AbortOpsAfter
  BY <1>11, UntouchedFlights, FlightCalls, ExactFacts DEF CommitRound, AbortOpsAfter
<1>12. CASE AbortRound
  BY <1>12, AbortRoundKeepsFlights
<1>13. CASE ReplicationFinished
  BY <1>13, FinishKeepsFlights
<1>14. CASE \/ BecomeLeader \/ AssignNoOp \/ BecomeReplica \/ ReplicateConfigChange
            \/ RefreshConsensusQueueAndPeers
  BY <1>14, RaftIs, UntouchedFlights, FlightCalls, ExactFacts DEF RaftStep
<1>15. CASE AppendNoOp \/ AppendConfigChange \/ \E t \in Timestamps : ReceiveNoOp(t)
  BY <1>15, AppendIs, UntouchedFlights, FlightCalls, ExactFacts DEF AppendOtherStep
<1>16. ASSUME NEW o \in Ops, NEW t \in Timestamps, StartFollowerOp(o, t) PROVE FlightInv'
  BY <1>16, FollowKeepsFlights
<1>17. CASE QuietStep
  BY <1>17, QuietIs, QuietFlights, UntouchedFlights, ExactFacts DEF opVars
<1> QED
  BY <1>1, <1>2, <1>3, <1>4, <1>5, <1>6, <1>7, <1>8, <1>9, <1>10, <1>11, <1>12, <1>13, <1>14,
     <1>15, <1>16, <1>17, NextCases

-----------------------------------------------------------------------------
(***************************************************************************)
(* The lower bound on new ops                                              *)
(***************************************************************************)
\* An op that is committed, or being found so by the consensus thread.
Committed(o) ==
    op[o].repl = "REPLICATED" \/ (OnConsensus({"finish"}, o) /\ consensus_thread.ok)

\* The lower bound follows safe time, and so do the timestamps that will move it.
CommittedSafe == \A o \in Ops \ CommitWaits : Committed(o) => op[o].ts <= last_safe
QueuedSafe ==
    \A i \in DOMAIN prepare_queue : prepare_queue[i].kind = "LOWER_BOUND" =>
        prepare_queue[i].ts <= last_safe
BoundInv == lower_bound <= last_safe /\ CommittedSafe /\ QueuedSafe

\* What the lower bound may be moved to.
LowerBy(o) ==
    /\ o \in Ops \ CommitWaits /\ op[o].repl = "REPLICATED" /\ Prepared(o)
    /\ lower_bound' = op[o].ts
    /\ UNCHANGED prepare_thread \/ prepare_thread' = Idle
LowerByTask ==
    /\ AtHead("LOWER_BOUND") /\ UNCHANGED prepare_thread
    /\ 1 \in DOMAIN prepare_queue /\ prepare_queue[1].kind = "LOWER_BOUND"
    /\ lower_bound' = prepare_queue[1].ts

LEMMA LowerCalls ==
    /\ \A t : /\ M!StartOp(t) \/ M!StartApplyingOp(t) \/ M!AbortOp(t) \/ M!FinishApplyingOp(t) =>
                    lower_bound' = lower_bound
              /\ M!AdjustNewOpLowerBound(t) => lower_bound' \in {lower_bound, t}
    /\ \A w, t : M!CallWaitForSnapshot(w, t) => lower_bound' = lower_bound
    /\ \A w : M!CallWaitForApplyingOps(w) \/ M!WaitUntilStep(w) => lower_bound' = lower_bound
    /\ UNCHANGED mvccVars => lower_bound' = lower_bound
<1>1. \A t : /\ M!StartOp(t) \/ M!StartApplyingOp(t) \/ M!AbortOp(t) \/ M!FinishApplyingOp(t) =>
                    lower_bound' = lower_bound
             /\ M!AdjustNewOpLowerBound(t) => lower_bound' \in {lower_bound, t}
  BY DEF M!StartOp, M!StartApplyingOp, M!AbortOp, M!FinishApplyingOp, M!AdjustNewOpLowerBound
<1>2. \A w, t : M!CallWaitForSnapshot(w, t) => lower_bound' = lower_bound
  BY DEF M!CallWaitForSnapshot, M!opVars
<1>3. \A w : M!CallWaitForApplyingOps(w) \/ M!WaitUntilStep(w) => lower_bound' = lower_bound
  BY DEF M!CallWaitForApplyingOps, M!WaitUntilStep, M!ScanApplyingOps, M!WaitUntilCheckOpen,
     M!WaitUntilRegister, M!WaitUntilWoken, M!WaitUntilCleanup, M!opVars
<1>4. UNCHANGED mvccVars => lower_bound' = lower_bound
  BY DEF mvccVars
<1> QED
  BY <1>1, <1>2, <1>3, <1>4

LEMMA FailureLower == ASSUME NEW o, HandleFailure(o) PROVE lower_bound' = lower_bound
  BY LowerCalls DEF HandleFailure

LEMMA QuietLower == ASSUME QuietStep PROVE lower_bound' = lower_bound
<1>1. CASE \/ UNCHANGED vars \/ ReadSafeTime \/ Tick
           \/ \E t \in Timestamps : Heartbeat(t)
           \/ \E w \in Scanners : ScanWaitUntilSafe(w) \/ ScanRows(w)
  BY <1>1, LowerCalls DEF vars, Heartbeat, ReadSafeTime, Tick, ScanWaitUntilSafe, ScanRows
<1>2. CASE \E w \in Scanners : ScanWaitForSnapshot(w)
  BY <1>2, LowerCalls DEF ScanWaitForSnapshot
<1>3. CASE \E w \in Flushers : FlushWaits(w)
  BY <1>3, LowerCalls DEF FlushWaits
<1> QED
  BY <1>1, <1>2, <1>3 DEF QuietStep

\* The lower bound moves when an op is handed to the apply pool, and with the task of
\* a committed NO_OP.
LEMMA LowerStep ==
    ASSUME OrderInv, [Next]_vars
    PROVE  lower_bound' = lower_bound \/ LowerByTask \/ \E o \in Ops : LowerBy(o)
<1>1. ASSUME NEW o \in Ops, ExecuteAsync(o) PROVE lower_bound' = lower_bound
  BY <1>1, LowerCalls DEF ExecuteAsync
<1>2. ASSUME NEW o \in Ops, ApplyStep(o) PROVE lower_bound' = lower_bound
  BY <1>2, LowerCalls DEF ApplyStep, ApplyWrite, FinishWrite, ApplyBeginCommit, ApplyFinalizeCommit,
     FinishFinalizeCommit, ApplyAbortTxn
<1>3. CASE PrepareFails \/ Prepare \/ CommitRound \/ AbortOpsAfter \/ ReplicationFinished
  BY <1>3, LowerCalls DEF PrepareFails, Prepare, CommitRound, AbortOpsAfter, ReplicationFinished
<1>4. CASE AssignTimestamp
  BY <1>4, LowerCalls, FailureLower DEF AssignTimestamp
<1>5. CASE Start
  BY <1>5, LowerCalls DEF Start
<1>6. CASE Replicate
  BY <1>6, LowerCalls, FailureLower DEF Replicate
<1>7. ASSUME NEW o \in Ops, ApplyAsync(o), Prepared(o),
             UNCHANGED prepare_thread \/ prepare_thread' = Idle
      PROVE  lower_bound' = lower_bound \/ LowerBy(o)
  <2>1. CASE op[o].repl = "REPLICATED" /\ o \notin CommitWaits
    BY <1>7, <2>1, LowerCalls DEF ApplyAsync, MvccOfApplyAsync, LowerBy
  <2>2. CASE op[o].repl = "REPLICATED" /\ o \in CommitWaits
    BY <1>7, <2>2, LowerCalls DEF ApplyAsync, MvccOfApplyAsync
  <2>3. CASE op[o].repl # "REPLICATED"
    BY <1>7, <2>3, FailureLower DEF ApplyAsync
  <2> QED
    BY <2>1, <2>2, <2>3
<1>8. CASE PrepareThreadApplies
  <2>1. prepare_thread.op \in Ops /\ Prepared(prepare_thread.op)
    BY <1>8, PrepareThreadAppliesIs DEF PrepareThreadApplies, OrderInv, PrepareInv, HoldsPrepared
  <2> QED
    BY <1>7, <1>8, <2>1 DEF PrepareThreadApplies
<1>9. CASE ConsensusThreadApplies
  <2>1. consensus_thread.op \in Ops /\ Prepared(consensus_thread.op)
    BY <1>9, ConsensusThreadAppliesIs
       DEF ConsensusThreadApplies, OrderInv, ConsensusInv, AppliesDecided
  <2> QED
    BY <1>7, <1>9, <2>1 DEF ConsensusThreadApplies
<1>10. CASE AdjustLowerBound
  BY <1>10, AdjustLowerBoundIs, LowerCalls DEF AdjustLowerBound, LowerBoundStep, LowerByTask, QueueShifts
<1>11. CASE AbortRound
  BY <1>11, AbortRoundIs, LowerCalls
<1>12. CASE \/ BecomeLeader \/ AssignNoOp \/ BecomeReplica \/ ReplicateConfigChange
            \/ RefreshConsensusQueueAndPeers
  BY <1>12, RaftIs, LowerCalls
<1>13. CASE AppendNoOp \/ AppendConfigChange \/ \E t \in Timestamps : ReceiveNoOp(t)
  BY <1>13, AppendIs, LowerCalls
<1>14. ASSUME NEW o \in Ops, NEW t \in Timestamps, StartFollowerOp(o, t)
       PROVE  lower_bound' = lower_bound
  BY <1>14, LowerCalls DEF StartFollowerOp
<1>15. CASE QuietStep
  BY <1>15, QuietLower
<1> QED
  BY <1>1, <1>2, <1>3, <1>4, <1>5, <1>6, <1>8, <1>9, <1>10, <1>11, <1>12, <1>13, <1>14,
     <1>15, NextCases


\* A step that commits nothing and queues no move of the lower bound.
CommitsKept == \A o \in Ops : Committed(o)' => Committed(o) /\ op'[o].ts = op[o].ts
TasksKept ==
    \A i \in DOMAIN prepare_queue' : prepare_queue'[i].kind = "LOWER_BOUND" =>
        \E j \in DOMAIN prepare_queue : prepare_queue[j] = prepare_queue'[i]

LEMMA QueueTasks ==
    /\ prepare_queue' = prepare_queue => TasksKept
    /\ QueueShifts => TasksKept
    /\ \A o : PrepareJoins(o) => TasksKept
<1>1. prepare_queue' = prepare_queue => TasksKept
  BY DEF TasksKept
<1>2. QueueShifts => TasksKept
  BY DEF TasksKept, QueueShifts
<1>3. ASSUME NEW o, PrepareJoins(o) PROVE TasksKept
  BY <1>3 DEF TasksKept, PrepareJoins, QueueGrows
<1> QED
  BY <1>1, <1>2, <1>3

\* Every step but the commit of a round.
LEMMA CommitsKeptBy ==
    ASSUME OrderInv, [Next]_vars
    PROVE  CommitRound \/ (CommitsKept /\ TasksKept)
<1> USE DEF CommitsKept, Committed, OnConsensus
<1>0. consensus_thread.pc = "finish" => op[consensus_thread.op].repl = "REPLICATING"
  BY DEF OrderInv, ConsensusInv, FinishesSent
<1>1. ASSUME NEW o \in Ops, ExecuteAsync(o) PROVE CommitsKept /\ TasksKept
  BY <1>1, ExecuteIs, QueueTasks DEF ExecuteStep, SameRepl, SameTs
<1>2. ASSUME NEW o \in Ops, ApplyStep(o) PROVE CommitsKept /\ TasksKept
  BY <1>2, ApplyStepIs, QueueTasks DEF PoolStep, SameRepl, SameTs
<1>3. CASE PrepareFails
  BY <1>3, PrepareFailsIs, QueueTasks DEF RefuseStep, SameRepl, SameTs
<1>4. CASE Prepare
  BY <1>4, PrepareIs, QueueTasks DEF RefuseStep, PrepareStep, SameRepl, SameTs
<1>5. CASE AssignTimestamp
  <2>1. op[prepare_thread.op].repl = "NOT_REPLICATING"
    BY <1>5 DEF AssignTimestamp, OrderInv, PrepareInv, HoldsLocal
  <2>2. CASE mode = "LEADER"
    BY <1>0, <1>5, <2>1, <2>2, AssignIs, QueueTasks DEF AssignStep, SameRepl
  <2>3. CASE mode # "LEADER"
    BY <1>5, <2>3, AssignIs, QueueTasks DEF AssignFailStep, SameRepl, SameTs
  <2> QED
    BY <2>2, <2>3
<1>6. CASE Start
  BY <1>6, StartIs, QueueTasks DEF StartStep, ReplTo, SameTs
<1>7. CASE Replicate
  BY <1>7, ReplicateIs, QueueTasks DEF ReplicateStep, ReplicateFailStep, ReplTo, SameRepl, SameTs
<1>8. CASE PrepareThreadApplies
  BY <1>8, PrepareThreadAppliesIs, QueueTasks DEF SubmitStep, ApplyFailStep, SameRepl, SameTs
<1>9. CASE AdjustLowerBound
  BY <1>9, AdjustLowerBoundIs, QueueTasks DEF LowerBoundStep
<1>10. CASE AbortOpsAfter
  BY <1>10, AbortOpsAfterIs, QueueTasks DEF AbortAfterStep
<1>11. CASE AbortRound
  BY <1>11, AbortRoundIs, QueueTasks DEF AbortOpStep, AbortOtherStep, SameRepl, SameTs
<1>12. CASE ReplicationFinished
  <2>1. PICK o \in Ops : consensus_thread.op = o /\ FinishStep(o)
    BY <1>12, ReplicationFinishedIs
  <2>2. \A x \in Ops : op'[x].repl = "REPLICATED" => Committed(x)
    BY <2>1 DEF FinishStep, ReplTo
  <2>3. consensus_thread'.pc # "finish" /\ prepare_queue' = prepare_queue
    BY <2>1 DEF FinishStep
  <2> QED
    BY <2>1, <2>2, <2>3, QueueTasks DEF FinishStep, SameTs
<1>13. CASE ConsensusThreadApplies
  BY <1>13, ConsensusThreadAppliesIs, QueueTasks DEF FinishSubmitStep, FinishFailStep, SameRepl, SameTs
<1>14. CASE \/ BecomeLeader \/ AssignNoOp \/ BecomeReplica \/ ReplicateConfigChange
            \/ RefreshConsensusQueueAndPeers \/ QuietStep
  BY <1>14, RaftIs, QuietIs, QueueTasks DEF RaftStep, NotAtRound
<1>15. CASE AppendNoOp \/ AppendConfigChange \/ \E t \in Timestamps : ReceiveNoOp(t)
  BY <1>15, AppendIs, QueueTasks DEF AppendOtherStep
<1>16. ASSUME NEW o \in Ops, NEW t \in Timestamps, StartFollowerOp(o, t)
       PROVE  CommitsKept /\ TasksKept
  BY <1>16, FollowIs, QueueTasks DEF FollowStep, ReplTo
<1> QED
  BY <1>1, <1>2, <1>3, <1>4, <1>5, <1>6, <1>7, <1>8, <1>9, <1>10, <1>11, <1>12, <1>13, <1>14,
     <1>15, <1>16, NextCases

\* Safe time reaches the timestamp of the message.
LEMMA SafeTimeReaches ==
    ASSUME NEW t \in Timestamps, t <= clock, clock \in Nat, last_safe \in Nat,
           TM!AdvanceSafeTimeWithMessage("CLIENT_PROPAGATED", t)
    PROVE  last_safe' >= t
  BY DEF TM!AdvanceSafeTimeWithMessage, TM!AdvanceSafeTimeAndWakeUpWaiters,
     TM!GetSafeTimeUnlocked, TM!ClockTo, Timestamps

\* What the invariants say of the bounds, as numbers.
LEMMA BoundTypes ==
    ASSUME UseInv
    PROVE  /\ lower_bound \in Nat /\ \A o \in Ops : op[o].ts \in Nat
           /\ \A i \in DOMAIN prepare_queue : prepare_queue[i].kind = "LOWER_BOUND" =>
                 prepare_queue[i].ts \in Nat
<1>1. lower_bound \in Nat
  BY ReplicaAssumption DEF UseInv, ManagersInv, MP!SnapInv, MP!TypeOK
<1>2. \A o \in Ops : op[o].ts \in Nat
  BY TypeParts, FieldTypesHold DEF UseInv, FieldTypes
<1>3. \A i \in DOMAIN prepare_queue : prepare_queue[i].kind = "LOWER_BOUND" =>
                 prepare_queue[i].ts \in Nat
  BY TypeParts, SeqFacts, TaskFields DEF UseInv, DriverTypes, Timestamps
<1> QED
  BY <1>1, <1>2, <1>3

\* The lower bound never passes safe time, whoever moves it.
LEMMA BoundStep ==
    ASSUME UseInv, BoundInv, [Next]_vars
    PROVE  BoundInv'
<1>0. /\ clock \in Nat /\ last_safe \in Nat /\ last_safe' \in Nat /\ last_safe' >= last_safe
      /\ OrderInv /\ ParticipantInv /\ ClockInv
  BY TimeTypes, ManagersStep DEF UseInv
<1>1. lower_bound' <= last_safe'
  <2>1. CASE lower_bound' = lower_bound
    BY <1>0, <2>1, BoundTypes DEF BoundInv
  <2>2. CASE LowerByTask
    BY <1>0, <2>2, BoundTypes DEF BoundInv, QueuedSafe, LowerByTask
  <2>3. CASE \E o \in Ops : LowerBy(o)
    BY <1>0, <2>3, BoundTypes DEF BoundInv, CommittedSafe, LowerBy, Committed
  <2> QED
    BY <1>0, <2>1, <2>2, <2>3, LowerStep
<1>2. CASE CommitsKept /\ TasksKept
  <2>1. CommittedSafe'
    BY <1>0, <1>2, BoundTypes DEF BoundInv, CommittedSafe, CommitsKept, Ops
  <2>2. QueuedSafe'
    BY <1>0, <1>2, BoundTypes DEF BoundInv, QueuedSafe, TasksKept
  <2> QED
    BY <1>1, <2>1, <2>2 DEF BoundInv
<1>3. CASE CommitRound
  <2>1. /\ pending[1] \in Round /\ 1 \in DOMAIN pending
        /\ TM!AdvanceSafeTimeWithMessage(RoundMode(pending[1]), RoundTs(pending[1]))
    BY <1>0, <1>3, CommitRoundIs DEF PendingShifts
  <2>2. RoundMode(pending[1]) = "CLIENT_PROPAGATED" => last_safe' >= RoundTs(pending[1])
    BY <1>0, <2>1, RoundStamps, SafeTimeReaches
  <2>3. CASE pending[1].kind = "OP"
    <3>1. PICK o \in Ops : pending[1].op = o /\ CommitOpStep(o)
      BY <1>0, <1>3, <2>3, CommitRoundIs
    <3>2. o \notin CommitWaits => op[o].ts <= last_safe'
      BY <1>0, <2>2, <2>3, <3>1, BoundTypes, ModeTypes DEF RoundMode, RoundTs
    <3>3. \A x \in Ops : Committed(x)' => x = o \/ Committed(x)
      BY <3>1 DEF CommitOpStep, Committed, OnConsensus
    <3>4. CommittedSafe'
      BY <1>0, <3>1, <3>2, <3>3, BoundTypes DEF BoundInv, CommittedSafe, CommitOpStep
    <3>5. QueuedSafe'
      BY <1>0, <3>1, BoundTypes DEF BoundInv, QueuedSafe, CommitOpStep
    <3> QED
      BY <1>1, <3>4, <3>5 DEF BoundInv
  <2>4. CASE pending[1].kind # "OP"
    <3>1. /\ CommitOtherStep
          /\ \A i \in DOMAIN prepare_queue' :
                \/ i \in DOMAIN prepare_queue /\ prepare_queue'[i] = prepare_queue[i]
                \/ prepare_queue'[i].ts = pending[1].ts
      BY <1>0, <1>3, <2>4, CommitRoundIs
    <3>2. pending[1].ts <= last_safe' /\ pending[1].ts \in Nat
      BY <1>0, <2>1, <2>2, <2>4, RoundFields DEF RoundMode, RoundTs, Timestamps
    <3>3. CommittedSafe'
      BY <1>0, <3>1, BoundTypes DEF BoundInv, CommittedSafe, CommitOtherStep, Committed, OnConsensus
    <3>4. QueuedSafe'
      BY <1>0, <3>1, <3>2, BoundTypes DEF BoundInv, QueuedSafe
    <3> QED
      BY <1>1, <3>3, <3>4 DEF BoundInv
  <2> QED
    BY <2>3, <2>4
<1> QED
  BY <1>0, <1>2, <1>3, CommitsKeptBy

-----------------------------------------------------------------------------
(***************************************************************************)
(* The timestamp of an op that is being started                            *)
(***************************************************************************)
\* It is above the lower bound and above all that was prepared before, which are the
\* ops that may still move the bound.
StartAbove ==
    prepare_thread.pc = "start" =>
        /\ lower_bound < op[prepare_thread.op].ts
        /\ \A o \in Ops : Prepared(o) /\ o # prepare_thread.op =>
              op[o].ts < op[prepare_thread.op].ts

ReplicaInv == ExactInv /\ BoundInv /\ StartAbove

\* While an op is being started nothing is prepared, and none that is gets a timestamp.
StampedKept == \A o \in Ops : (Prepared(o)' => Prepared(o)) /\ (Prepared(o) => op'[o].ts = op[o].ts)

LEMMA StartingSteps ==
    ASSUME OrderInv, [Next]_vars, prepare_thread'.pc = "start"
    PROVE  \/ AssignTimestamp /\ mode = "LEADER"
           \/ prepare_thread' = prepare_thread /\ StampedKept
<1> USE DEF StampedKept, Prepared
<1>1. ASSUME NEW o \in Ops, ExecuteAsync(o) PROVE prepare_thread' = prepare_thread /\ StampedKept
  BY <1>1, ExecuteIs DEF ExecuteStep, SamePrep, SameTs
<1>2. ASSUME NEW o \in Ops, ApplyStep(o) PROVE prepare_thread' = prepare_thread /\ StampedKept
  BY <1>2, ApplyStepIs DEF PoolStep, SamePrep, SameTs
<1>3. ~PrepareFails
  BY PrepareFailsIs DEF RefuseStep
<1>4. ~Prepare
  BY PrepareIs DEF RefuseStep, PrepareStep, Idle
<1>5. ~(AssignTimestamp /\ mode # "LEADER")
  BY AssignIs DEF AssignFailStep, Idle
<1>6. ~Start /\ ~Replicate
  BY StartIs, ReplicateIs DEF StartStep, ReplicateStep, ReplicateFailStep, Idle
<1>7. ~PrepareThreadApplies
  BY PrepareThreadAppliesIs DEF SubmitStep, ApplyFailStep, Idle
<1>8. CASE AdjustLowerBound
  BY <1>8, AdjustLowerBoundIs DEF LowerBoundStep
<1>9. CASE CommitRound
  BY <1>9, CommitRoundIs DEF CommitOpStep, CommitOtherStep
<1>10. CASE AbortOpsAfter
  BY <1>10, AbortOpsAfterIs DEF AbortAfterStep
<1>11. CASE AbortRound
  BY <1>11, AbortRoundIs DEF AbortOpStep, AbortOtherStep, SamePrep, SameTs
<1>12. CASE ReplicationFinished
  BY <1>12, ReplicationFinishedIs DEF FinishStep, SamePrep, SameTs
<1>13. CASE ConsensusThreadApplies
  BY <1>13, ConsensusThreadAppliesIs DEF FinishSubmitStep, FinishFailStep, SamePrep, SameTs
<1>14. CASE \/ BecomeLeader \/ AssignNoOp \/ BecomeReplica \/ ReplicateConfigChange
            \/ RefreshConsensusQueueAndPeers \/ QuietStep
  BY <1>14, RaftIs, QuietIs DEF RaftStep
<1>15. CASE AppendNoOp \/ AppendConfigChange \/ \E t \in Timestamps : ReceiveNoOp(t)
  BY <1>15, AppendIs DEF AppendOtherStep
<1>16. ASSUME NEW o \in Ops, NEW t \in Timestamps, StartFollowerOp(o, t)
       PROVE  prepare_thread' = prepare_thread /\ StampedKept
  <2>1. FollowStep(o) /\ ~Prepared(o)
    BY <1>16, FollowIs DEF FollowStep, OrderInv, FieldsInv, FieldsOf
  <2> QED
    BY <2>1 DEF FollowStep, SamePrep
<1> QED
  BY <1>1, <1>2, <1>3, <1>4, <1>5, <1>6, <1>7, <1>8, <1>9, <1>10, <1>11, <1>12, <1>13, <1>14,
     <1>15, <1>16, NextCases

LEMMA StartAboveStep ==
    ASSUME ExactTimestamps, ReplicaInv, [Next]_vars
    PROVE  StartAbove'
<1>0. UseInv /\ OrderInv /\ clock \in Nat /\ last_safe \in Nat /\ last_safe <= clock
  BY TimeTypes, ExactFacts DEF ReplicaInv, ExactInv, UseInv, ManagersInv, TP!SafeInv
<1> SUFFICES ASSUME prepare_thread'.pc = "start" PROVE StartAbove'
  BY DEF StartAbove
<1>1. CASE AssignTimestamp /\ mode = "LEADER"
  <2>1. PICK o \in Ops : prepare_thread.op = o
    BY <1>0, <1>1, AssignIs
  <2>2. PICK t \in Timestamps : TM!AssignTimestamp(GetMessageConsistencyMode(o), t) /\ TsTo(o, t)
    BY <1>0, <1>1, <2>1, AssignIs
  <2>3. AssignStep(o) /\ UNCHANGED mvccVars
    BY <1>0, <1>1, <2>1, AssignIs
  <2>4. t = clock + 1 /\ \A x \in Ops : op[x].ts <= clock /\ op[x].ts \in Nat
    BY <1>0, <2>2, AssignedStamps, BoundTypes DEF ReplicaInv, ExactInv, UseInv, ClockInv,
       ExactTimestamps, Exact
  <2>5. lower_bound' = lower_bound /\ lower_bound <= last_safe /\ lower_bound \in Nat
    BY <1>0, <2>3, BoundTypes DEF mvccVars, ReplicaInv, BoundInv
  <2>6. prepare_thread'.op = o /\ op'[o].ts = t /\ lower_bound' < t
    BY <1>0, <2>2, <2>3, <2>4, <2>5 DEF AssignStep, TsTo
  <2>7. \A x \in Ops : x # o => op'[x].ts < t
    BY <1>0, <2>2, <2>4 DEF TsTo
  <2> QED
    BY <2>6, <2>7 DEF StartAbove
<1>2. CASE prepare_thread' = prepare_thread /\ StampedKept
  <2>1. PICK o \in Ops : prepare_thread.op = o
    BY <1>0, <1>2, TypeParts, ThreadFields
  <2>2. prepare_thread.pc = "start" /\ prepare_thread.op = o /\ prepare_thread'.op = o
    BY <1>2, <2>1
  <2>3. Prepared(o) /\ op[o].repl = "NOT_REPLICATING"
    BY <1>0, <2>2 DEF OrderInv, PrepareInv, HoldsPrepared, HoldsLocal
  <2>4. /\ lower_bound < op[o].ts
        /\ \A x \in Ops : Prepared(x) /\ x # o => op[x].ts < op[o].ts
    BY <2>2 DEF ReplicaInv, StartAbove
  <2>5. op'[o].ts = op[o].ts
    BY <1>2, <2>3 DEF StampedKept
  <2>6. \A x \in Ops : Prepared(x)' /\ x # o => op'[x].ts < op'[o].ts
    BY <1>2, <2>4, <2>5 DEF StampedKept
  <2>7. lower_bound' < op[o].ts
    <3>1. ~LowerByTask
      BY <2>2 DEF LowerByTask, AtHead
    <3>2. ASSUME NEW x \in Ops, LowerBy(x) PROVE lower_bound' < op[o].ts
      BY <2>3, <2>4, <3>2 DEF LowerBy
    <3> QED
      BY <1>0, <2>4, <3>1, <3>2, LowerStep
  <2> QED
    BY <2>2, <2>5, <2>6, <2>7 DEF StartAbove
<1> QED
  BY <1>0, <1>1, <1>2, StartingSteps

LEMMA ReplicaInit == Init => ReplicaInv
<1> SUFFICES ASSUME Init PROVE ReplicaInv
  OBVIOUS
<1>1. UseInv
  BY UseInit
<1>2. /\ \A o \in Ops : /\ op[o].ts = 0 /\ op[o].stage = "new" /\ op[o].repl = "NOT_REPLICATING"
      /\ prepare_queue = <<>> /\ prepare_thread.pc = "idle" /\ consensus_thread.pc = "idle"
      /\ last_safe = 1
  BY DEF Init, Idle, TM!Init
<1>3. open = TRUE /\ applied = {} /\ lower_bound = 0 /\ M!InFlight = {}
  BY DEF Init, M!Init, M!kMin, M!InFlight, M!Timestamps
<1>4. Distinct
  BY <1>2 DEF Distinct
<1>5. FlightInv
  BY <1>2, <1>3, OpKinds DEF FlightInv, StatesMatch, RowsApplied, DriversKnown, KnownToMvcc,
     BeginsNotApplying
<1>6. BoundInv /\ StartAbove
  BY <1>2, <1>3 DEF BoundInv, CommittedSafe, Committed, OnConsensus, QueuedSafe, StartAbove
<1> QED
  BY <1>1, <1>4, <1>5, <1>6 DEF ReplicaInv, ExactInv

LEMMA ReplicaStep == ExactTimestamps /\ ReplicaInv /\ [Next]_vars => ReplicaInv'
<1> SUFFICES ASSUME ExactTimestamps, ReplicaInv, [Next]_vars PROVE ReplicaInv'
  OBVIOUS
<1>1. UseInv /\ ExactInv /\ BoundInv
  BY DEF ReplicaInv, ExactInv
<1>2. UseInv' /\ Distinct' /\ FlightInv' /\ BoundInv' /\ StartAbove'
  BY <1>1, UseStep, DistinctStep, FlightStep, BoundStep, StartAboveStep
<1> QED
  BY <1>2 DEF ReplicaInv, ExactInv

LEMMA ReplicaHolds ==
    ASSUME ExactTimestamps
    PROVE  Spec => []ReplicaInv
<1>1. ReplicaInv /\ [Next]_vars => ReplicaInv'
  BY ReplicaStep
<1> QED
  BY <1>1, ReplicaInit, PTL DEF Spec

\* The stage of a driver and the state of its MVCC op agree through every interleaving
\* of the prepare thread, the consensus thread and the apply pool, with a transaction
\* whose MVCC op is finished by another op, so the CHECKs of StartApplyingOp,
\* FinishApplyingOp and AbortOp hold and no MVCC op is aborted twice.
THEOREM DriversMatchMvcc ==
    ASSUME ExactTimestamps
    PROVE  Spec => []DriverMatchesMvcc
<1>1. ReplicaInv => DriverMatchesMvcc
  <2> SUFFICES ASSUME ReplicaInv, NEW o \in Writes \cup CommitWaits
               PROVE  /\ op[o].stage = "submitted" => ops_in_flight[op[o].ts] = "RESERVED"
                      /\ op[o].stage = "applying" => ops_in_flight[op[o].ts] = "APPLYING"
                      /\ op[o].stage \in {"failed", "mvcc_aborted"} /\ op[o].ts # 0 =>
                            op[o].ts \notin M!InFlight
                      /\ op[o].stage = "applied" => op[o].ts \in applied
    BY DEF DriverMatchesMvcc
  <2>1. o \in RowOps /\ o \in Ops /\ o \in MvccOps /\ o \notin BeginCommits
    BY OpKinds DEF RowOps
  <2>2. ExactInv /\ FlightInv /\ FieldsInv /\ (op[o].repl # "NOT_REPLICATING" => op[o].ts # 0)
    BY <2>1, ExactFacts DEF ReplicaInv, ExactInv
  <2>3. op[o].ts # 0 => ops_in_flight[op[o].ts] = OpStateOf(o)
    BY <2>1, <2>2 DEF FlightInv, StatesMatch
  <2>4. op[o].stage \in {"submitted", "applying"} => op[o].repl # "NOT_REPLICATING"
    BY <2>1, <2>2 DEF FieldsInv, FieldsOf
  <2>5. /\ op[o].stage = "submitted" => ops_in_flight[op[o].ts] = "RESERVED"
        /\ op[o].stage = "applying" => ops_in_flight[op[o].ts] = "APPLYING"
    BY <2>1, <2>2, <2>3, <2>4 DEF OpStateOf, Reserved
  <2>6. op[o].stage \in {"failed", "mvcc_aborted"} /\ op[o].ts # 0 =>
           op[o].ts \notin M!InFlight
    BY <2>1, <2>3 DEF OpStateOf, Reserved, Owned, M!InFlight
  <2>7. op[o].stage = "applied" => op[o].ts \in applied
    BY <2>1, <2>2 DEF FlightInv, RowsApplied
  <2> QED
    BY <2>5, <2>6, <2>7
<1> QED
  BY <1>1, ReplicaHolds, PTL

\* A timestamp above the lower bound that no driver has passes the CHECKs of StartOp:
\* the clean time has not passed it.
LEMMA StartAllowed ==
    ASSUME UseInv, NEW t \in Timestamps, t > lower_bound, ops_in_flight[t] = "NONE", t \notin applied
    PROVE  M!StartOpAllowed(t)
<1>1. /\ MP!IsAppliedIn(cur_snap, t) => t < cur_snap.all_applied_before
      /\ cur_snap.all_applied_before \in Nat /\ lower_bound \in Nat
      /\ cur_snap.all_applied_before = 1 \/ cur_snap.all_applied_before <= lower_bound
  <2>1. MP!TypeOK /\ MP!CleanTimeInv /\ MP!SnapshotExact
    BY DEF UseInv, ManagersInv, MP!SnapInv, MP!WatermarkInv
  <2>2. MP!IsAppliedIn(cur_snap, t) => t < cur_snap.all_applied_before
    BY <2>1 DEF MP!SnapshotExact, MP!Timestamps, Timestamps
  <2>3. cur_snap.all_applied_before \in Nat /\ lower_bound \in Nat
    BY <2>1, BoundTypes DEF MP!TypeOK, MP!SnapshotType
  <2> QED
    BY <2>1, <2>2, <2>3 DEF MP!CleanTimeInv, MP!kInitialTimestamp
<1>2. ~MP!IsAppliedIn(cur_snap, t)
  BY <1>1 DEF Timestamps
<1>3. ~M!IsAppliedIn(cur_snap, t)
  BY <1>2 DEF M!IsAppliedIn, MP!IsAppliedIn
<1> QED
  BY <1>3 DEF M!StartOpAllowed

\* The CHECKs of StartOp hold whenever the prepare thread starts a leader's op, though
\* committed NO_OPs and ops of other terms move the lower bound between the assignment
\* of its timestamp and its start (KUDU-2233), and for whatever timestamp the leader
\* gives to the op it sends next to a follower.
THEOREM StartOpAlwaysAllowed ==
    ASSUME ExactTimestamps
    PROVE  Spec => []StartOpChecksHold
<1>1. ReplicaInv => StartOpChecksHold
  <2> SUFFICES ASSUME ReplicaInv PROVE StartOpChecksHold
    OBVIOUS
  <2>0. UseInv /\ OrderInv /\ ExactInv /\ FlightInv /\ Distinct /\ BoundInv
    BY ExactFacts DEF ReplicaInv, ExactInv
  <2>1. ASSUME prepare_thread.pc = "start", prepare_thread.op \in MvccOps
        PROVE  M!StartOpAllowed(op[prepare_thread.op].ts)
    <3>1. PICK o \in MvccOps : prepare_thread.op = o
      BY <2>1
    <3>2. o \in Ops /\ OnPrepare({"start"}, o) /\ op[o].stage = "driven" /\ op[o].repl = "NOT_REPLICATING"
      BY <2>0, <2>1, <3>1, OpKinds DEF OnPrepare, OrderInv, PrepareInv, HoldsLocal
    <3>3. op[o].ts \in Timestamps
      BY <2>0, <3>2, StampedTs DEF UseInv
    <3>4. op[o].ts # 0 /\ lower_bound < op[o].ts
      BY <2>1, <3>1, <3>3 DEF Timestamps, ReplicaInv, StartAbove
    <3>5. ops_in_flight[op[o].ts] = "NONE"
      BY <2>0, <3>2, <3>4 DEF FlightInv, StatesMatch, OpStateOf, Reserved, Owned, Done
    <3>6. op[o].ts \notin applied
      <4>1. ASSUME op[o].ts \in applied PROVE FALSE
        <5>1. PICK x \in MvccOps : op[x].ts = op[o].ts /\ op[x].repl # "NOT_REPLICATING"
          BY <2>0, <4>1 DEF FlightInv, DriversKnown, KnownToMvcc
        <5>2. x = o
          BY <2>0, <3>2, <3>4, <5>1, OpKinds DEF Distinct
        <5> QED
          BY <3>2, <5>1, <5>2
      <4> QED
        BY <4>1
    <3> QED
      BY <2>0, <3>1, <3>3, <3>4, <3>5, <3>6, StartAllowed, BoundTypes DEF Timestamps
  <2>2. ASSUME NEW t \in LeaderTimestamps PROVE M!StartOpAllowed(t)
    <3>1. t \in Timestamps /\ t > last_safe /\ \A o \in Ops : op[o].ts # t
      BY <2>2 DEF LeaderTimestamps
    <3>2. t \notin KnownToMvcc
      BY <2>0, <3>1, OpKinds DEF FlightInv, DriversKnown
    <3>3. ops_in_flight[t] = "NONE" /\ t \notin applied
      BY <3>1, <3>2 DEF KnownToMvcc, M!InFlight, M!Timestamps, Timestamps
    <3>4. last_safe \in Nat
      BY <2>0 DEF UseInv, ManagersInv, TP!SafeInv, TP!WaitInv, TP!TypeOK, TP!Stamps
    <3>5. t > lower_bound
      BY <2>0, <3>1, <3>4, BoundTypes DEF BoundInv, Timestamps
    <3> QED
      BY <2>0, <3>1, <3>3, <3>5, StartAllowed
  <2> QED
    BY <2>1, <2>2 DEF StartOpChecksHold
<1> QED
  BY <1>1, ReplicaHolds, PTL
=============================================================================
