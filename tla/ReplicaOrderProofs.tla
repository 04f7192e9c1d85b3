------------------------- MODULE ReplicaOrderProofs -------------------------
(***************************************************************************)
(* The ops of a tablet replica are applied in the order of the log: proofs *)
(* about TabletReplica.tla, for every set of ops, bound and schedule.      *)
(*                                                                         *)
(* The property speaks of the two threads at their ApplyAsync(). What makes*)
(* it hold is spread over the driver's fields, the prepare queue, the two  *)
(* threads and the pending rounds, so OrderInv says of each of them what   *)
(* the others rely on: a driver that is between two steps is held by the   *)
(* thread that takes the next one, the queue is in log order, and a leader *)
(* replicates an op only when nothing it followed is still in the queue    *)
(* before it (its terms grow).                                             *)
(*                                                                         *)
(* An action is first reduced to what it does to these parts (a predicate  *)
(* ...Step); one lemma per such step shows that OrderInv is kept.          *)
(***************************************************************************)
EXTENDS TabletReplica, TLAPS

-----------------------------------------------------------------------------
(***************************************************************************)
(* Types                                                                   *)
(***************************************************************************)
RowOps    == Writes \cup CommitWaits
Replies   == {"NOT_REPLICATING", "REPLICATING", "REPLICATED", "REPLICATION_FAILED"}
Driver    == [stage : Stages, ts : 0 .. (kMax - 1), term : 0 .. MaxTerm,
              idx : Nat, commit_ts : 0 .. (kMax - 1), repl : Replies,
              prep : {"NOT_PREPARED", "PREPARED"}]
Round     == [kind : {"OP"}, op : Ops] \cup [kind : {"NO_OP", "CHANGE_CONFIG"}, ts : Timestamps]
Task      == [kind : {"PREPARE"}, op : Ops] \cup [kind : {"LOWER_BOUND"}, ts : Timestamps]
OnPrepareThread == {Idle} \cup [pc : {"assign", "start", "replicate", "apply"}, op : Ops]
OnConsensusThread ==
    {Idle, [pc |-> "noop"]}
    \cup [pc : {"finish", "apply"}, op : Ops, ok : BOOLEAN, rest : Seq(Round)]
    \cup [pc : {"aborting"}, rest : Seq(Round) \ {<<>>}]
    \cup [pc : {"noop_append", "config_refresh", "config_append"}, ts : Timestamps]
TxnStates == {"OPEN", "COMMIT_IN_PROGRESS", "COMMITTED", "ABORTED"}

DriverTypes ==
    /\ op \in [Ops -> Driver]
    /\ prepare_queue \in Seq(Task)
    /\ prepare_thread \in OnPrepareThread
    /\ consensus_thread \in OnConsensusThread
    /\ prev_idx \in Nat
    /\ txn \in [state : TxnStates, commit_op : 0 .. (kMax - 1), commit_ts : 0 .. (kMax - 1),
                lock : Participants \cup {NoOne}]

RaftTypes ==
    /\ role \in {"LEADER", "FOLLOWER"}
    /\ term \in 0 .. MaxTerm
    /\ ready \in BOOLEAN
    /\ ready => role = "LEADER"
    /\ pending \in Seq(Round)
    /\ committed \in Nat
    /\ config_changes \in Nat
    /\ leader_noop \in 0 .. MaxTerm

ReplicaTypes == DriverTypes /\ RaftTypes

-----------------------------------------------------------------------------
(***************************************************************************)
(* The drivers, the queue, the two threads and the pending rounds          *)
(***************************************************************************)
Underway(o) == op[o].stage \in {"driven", "mvcc_aborted"}
Prepared(o) == op[o].prep = "PREPARED"
Live(o)     == /\ op[o].stage = "driven"
               /\ op[o].idx # 0
               /\ op[o].repl \in {"REPLICATING", "REPLICATED"}
PreparesAt(i) == i \in DOMAIN prepare_queue /\ prepare_queue[i].kind = "PREPARE"
QueuedOp(i)   == prepare_queue[i].op
OnPrepare(pcs, o) == prepare_thread.pc \in pcs /\ prepare_thread.op = o
OnConsensus(pcs, o) == consensus_thread.pc \in pcs /\ consensus_thread.op = o
Rest == IF consensus_thread.pc \in {"aborting", "finish", "apply"} THEN consensus_thread.rest
        ELSE <<>>

\* What the fields of a driver say of each other.
FieldsOf(d, o) ==
    /\ d.stage = "new" =>
          /\ d.repl = "NOT_REPLICATING" /\ d.prep = "NOT_PREPARED"
          /\ d.idx = 0 /\ d.ts = 0 /\ d.term = 0
    /\ d.stage \in {"submitted", "applying", "applied"} =>
          d.repl = "REPLICATED" /\ d.prep = "PREPARED"
    /\ d.stage = "mvcc_aborted" => d.repl \in {"REPLICATING", "REPLICATION_FAILED"} /\ o \in RowOps
    /\ d.stage = "failed" => d.repl \in {"NOT_REPLICATING", "REPLICATION_FAILED"}
    /\ d.repl = "NOT_REPLICATING" => d.idx = 0
    /\ d.repl = "REPLICATED" => d.idx # 0 /\ d.idx <= committed

FieldsInv == \A o \in Ops : FieldsOf(op[o], o)

\* The queue holds the ops that are not prepared yet, once each.
QueuedUnprepared ==
    \A i \in DOMAIN prepare_queue : PreparesAt(i) =>
        Underway(QueuedOp(i)) /\ ~Prepared(QueuedOp(i))
QueuedOnce ==
    \A i, j \in DOMAIN prepare_queue : PreparesAt(i) /\ PreparesAt(j) /\ i # j =>
        QueuedOp(i) # QueuedOp(j)
UnpreparedQueued ==
    \A o \in Ops : Underway(o) /\ ~Prepared(o) =>
        \E i \in DOMAIN prepare_queue : PreparesAt(i) /\ QueuedOp(i) = o

QueueInv == QueuedUnprepared /\ QueuedOnce /\ UnpreparedQueued

\* What the prepare thread holds.
HoldsPrepared  == prepare_thread.pc # "idle" => Prepared(prepare_thread.op)
HoldsLocal ==
    prepare_thread.pc \in {"assign", "start"} =>
        op[prepare_thread.op].stage = "driven" /\ op[prepare_thread.op].repl = "NOT_REPLICATING"
HoldsUnsent ==
    prepare_thread.pc = "replicate" =>
        /\ op[prepare_thread.op].stage = "driven" /\ op[prepare_thread.op].repl = "REPLICATING"
        /\ op[prepare_thread.op].idx = 0
HoldsDecided ==
    prepare_thread.pc = "apply" =>
        /\ Underway(prepare_thread.op)
        /\ op[prepare_thread.op].repl \in {"REPLICATED", "REPLICATION_FAILED"}
        /\ ~OnConsensus({"finish", "apply"}, prepare_thread.op)

PrepareInv == HoldsPrepared /\ HoldsLocal /\ HoldsUnsent /\ HoldsDecided

\* An op between two steps is held by the thread that takes the next one.
LocalHeld ==
    \A o \in Ops : Underway(o) /\ Prepared(o) /\ op[o].repl = "NOT_REPLICATING" =>
        OnPrepare({"assign", "start"}, o)
UnsentHeld ==
    \A o \in Ops : op[o].repl = "REPLICATING" /\ op[o].idx = 0 => OnPrepare({"replicate"}, o)
DecidedHeld ==
    \A o \in Ops :
        Underway(o) /\ Prepared(o) /\ op[o].repl \in {"REPLICATED", "REPLICATION_FAILED"} =>
            OnPrepare({"apply"}, o) \/ OnConsensus({"apply"}, o)

HeldInv == LocalHeld /\ UnsentHeld /\ DecidedHeld

\* The rounds: pending ones by their index, then those that are being aborted.
PendingAreSent ==
    \A i \in DOMAIN pending : pending[i].kind = "OP" =>
        /\ op[pending[i].op].idx = committed + i
        /\ op[pending[i].op].repl = "REPLICATING"
        /\ op[pending[i].op].stage = "driven"
PendingAt(o) ==
    /\ op[o].idx - committed \in DOMAIN pending
    /\ pending[op[o].idx - committed].kind = "OP"
    /\ pending[op[o].idx - committed].op = o
InRest(o) == \E i \in DOMAIN Rest : Rest[i].kind = "OP" /\ Rest[i].op = o
SentArePending ==
    \A o \in Ops : op[o].repl = "REPLICATING" /\ op[o].idx # 0 =>
        PendingAt(o) \/ OnConsensus({"finish"}, o) \/ InRest(o)

PendingInv == PendingAreSent /\ SentArePending

\* The op whose round the consensus thread finishes.
FinishesSent ==
    consensus_thread.pc = "finish" =>
        op[consensus_thread.op].repl = "REPLICATING" /\ op[consensus_thread.op].idx # 0
AppliesDecided ==
    consensus_thread.pc = "apply" =>
        /\ Prepared(consensus_thread.op)
        /\ op[consensus_thread.op].repl = IF consensus_thread.ok THEN "REPLICATED"
                                          ELSE "REPLICATION_FAILED"
FinishesInOrder ==
    consensus_thread.pc \in {"finish", "apply"} =>
        IF consensus_thread.ok
        THEN /\ consensus_thread.rest = <<>>
             /\ op[consensus_thread.op].idx = committed
             /\ op[consensus_thread.op].stage = "driven"
        ELSE /\ op[consensus_thread.op].idx > committed
             /\ \A i \in DOMAIN pending : op[consensus_thread.op].idx > committed + i
             /\ op[consensus_thread.op].stage =
                   IF consensus_thread.op \in RowOps THEN "mvcc_aborted" ELSE "driven"

ConsensusInv == FinishesSent /\ AppliesDecided /\ FinishesInOrder

\* The rounds that are still to be aborted.
RestAreSent ==
    \A i \in DOMAIN Rest : Rest[i].kind = "OP" =>
        /\ op[Rest[i].op].repl = "REPLICATING"
        /\ op[Rest[i].op].stage = "driven"
        /\ op[Rest[i].op].idx > committed
        /\ \A j \in DOMAIN pending : op[Rest[i].op].idx > committed + j
RestAfterFinished ==
    \A i \in DOMAIN Rest : Rest[i].kind = "OP" /\ consensus_thread.pc \in {"finish", "apply"} =>
        op[consensus_thread.op].idx < op[Rest[i].op].idx
RestInOrder ==
    \A i, j \in DOMAIN Rest : Rest[i].kind = "OP" /\ Rest[j].kind = "OP" /\ i < j =>
        op[Rest[i].op].idx < op[Rest[j].op].idx

RestInv == RestAreSent /\ RestAfterFinished /\ RestInOrder

\* The queue prepares the ops in the order of the log.
PrevCommitted == prev_idx <= committed
LiveAbovePrev == \A o \in Ops : Live(o) => op[o].idx > prev_idx
LiveDistinct  == \A a, b \in Ops : Live(a) /\ Live(b) /\ a # b => op[a].idx # op[b].idx
QueueInOrder ==
    \A i, j \in DOMAIN prepare_queue :
        PreparesAt(i) /\ PreparesAt(j) /\ i < j /\ Live(QueuedOp(i)) /\ Live(QueuedOp(j)) =>
            op[QueuedOp(i)].idx < op[QueuedOp(j)].idx
PreparedFirst ==
    \A o \in Ops, i \in DOMAIN prepare_queue :
        Live(o) /\ Prepared(o) /\ PreparesAt(i) /\ Live(QueuedOp(i)) =>
            op[o].idx < op[QueuedOp(i)].idx
AppliesLast ==
    prepare_thread.pc = "apply" /\ Live(prepare_thread.op) =>
        \A o \in Ops : Live(o) /\ Prepared(o) /\ o # prepare_thread.op =>
            op[o].idx < op[prepare_thread.op].idx

LogOrderInv ==
    /\ PrevCommitted /\ LiveAbovePrev /\ LiveDistinct
    /\ QueueInOrder /\ PreparedFirst /\ AppliesLast

\* Terms grow along the queue, and a leader's ops come after what it followed.
TermsKnown == \A o \in Ops : op[o].term <= term
TermsGrow ==
    \A i, j \in DOMAIN prepare_queue : PreparesAt(i) /\ PreparesAt(j) /\ i < j =>
        op[QueuedOp(i)].term <= op[QueuedOp(j)].term
HeldTermFirst ==
    prepare_thread.pc \in {"assign", "start", "replicate"} =>
        \A i \in DOMAIN prepare_queue : PreparesAt(i) =>
            op[prepare_thread.op].term <= op[QueuedOp(i)].term
FollowedBefore ==
    role = "LEADER" =>
        \A i \in DOMAIN prepare_queue :
            PreparesAt(i) /\ op[QueuedOp(i)].repl # "NOT_REPLICATING" =>
                op[QueuedOp(i)].term < term

\* A NO_OP that asserts the leadership is a leader's.
NoOpByLeader == consensus_thread.pc \in {"noop", "noop_append"} => role = "LEADER"

TermInv == TermsKnown /\ TermsGrow /\ HeldTermFirst /\ FollowedBefore /\ NoOpByLeader

OrderInv ==
    /\ ReplicaTypes
    /\ FieldsInv
    /\ QueueInv
    /\ PrepareInv
    /\ HeldInv
    /\ PendingInv
    /\ ConsensusInv
    /\ RestInv
    /\ LogOrderInv
    /\ TermInv

-----------------------------------------------------------------------------
(***************************************************************************)
(* Sequences and the types of what they hold                               *)
(***************************************************************************)
LEMMA SeqFacts ==
    ASSUME NEW S, NEW q \in Seq(S)
    PROVE  /\ Len(q) \in Nat /\ DOMAIN q = 1 .. Len(q)
           /\ \A i \in 1 .. Len(q) : q[i] \in S
           /\ q = <<>> <=> Len(q) = 0
  OBVIOUS

LEMMA AppendFacts ==
    ASSUME NEW S, NEW q \in Seq(S), NEW x \in S
    PROVE  /\ Append(q, x) \in Seq(S) /\ Len(Append(q, x)) = Len(q) + 1
           /\ \A i \in 1 .. Len(q) : Append(q, x)[i] = q[i]
           /\ Append(q, x)[Len(q) + 1] = x
  OBVIOUS

LEMMA TailFacts ==
    ASSUME NEW S, NEW q \in Seq(S), q # <<>>
    PROVE  /\ Tail(q) \in Seq(S) /\ Len(Tail(q)) = Len(q) - 1 /\ Len(q) >= 1
           /\ Head(q) = q[1] /\ Head(q) \in S
           /\ \A i \in 1 .. Len(q) - 1 : Tail(q)[i] = q[i + 1]
<1>1. Len(q) \in Nat \ {0} /\ Tail(q) \in Seq(S) /\ Len(Tail(q)) = Len(q) - 1 /\ Head(q) = q[1]
  OBVIOUS
<1>2. Head(q) \in S
  BY <1>1
<1>3. \A i \in 1 .. Len(q) - 1 : Tail(q)[i] = q[i + 1]
  BY <1>1
<1> QED
  BY <1>1, <1>2, <1>3

LEMMA SubSeqFacts ==
    ASSUME NEW S, NEW q \in Seq(S), NEW m \in 1 .. Len(q) + 1, NEW n \in m - 1 .. Len(q)
    PROVE  /\ SubSeq(q, m, n) \in Seq(S) /\ Len(SubSeq(q, m, n)) = n - m + 1
           /\ \A i \in 1 .. n - m + 1 : SubSeq(q, m, n)[i] = q[m + i - 1]
  OBVIOUS

\* The fields of a round and of a task of the queue.
LEMMA RoundFields ==
    ASSUME NEW r \in Round
    PROVE  /\ r.kind \in {"OP", "NO_OP", "CHANGE_CONFIG"}
           /\ r.kind = "OP" => r.op \in Ops
           /\ r.kind # "OP" => r.ts \in Timestamps
  BY DEF Round

LEMMA TaskFields ==
    ASSUME NEW r \in Task
    PROVE  /\ r.kind \in {"PREPARE", "LOWER_BOUND"}
           /\ r.kind = "PREPARE" => r.op \in Ops
           /\ r.kind = "LOWER_BOUND" => r.ts \in Timestamps
  BY DEF Task

\* The values of the sets above that the steps make.
LEMMA MadeRecords ==
    /\ \A o \in Ops : OpRound(o) \in Round /\ [kind |-> "PREPARE", op |-> o] \in Task
    /\ \A t \in Timestamps : /\ NoOpRound(t) \in Round /\ ConfigRound(t) \in Round
                             /\ [kind |-> "LOWER_BOUND", ts |-> t] \in Task
  BY DEF OpRound, NoOpRound, ConfigRound, Round, Task

\* Which fields the two threads have, by their pc.
LEMMA ThreadFields ==
    ASSUME DriverTypes
    PROVE  /\ prepare_thread.pc \in {"idle", "assign", "start", "replicate", "apply"}
           /\ prepare_thread.pc # "idle" => prepare_thread.op \in Ops
           /\ consensus_thread.pc \in {"idle", "noop", "finish", "apply", "aborting",
                                       "noop_append", "config_refresh", "config_append"}
           /\ consensus_thread.pc \in {"finish", "apply"} =>
                 /\ consensus_thread.op \in Ops
                 /\ consensus_thread.ok \in BOOLEAN
                 /\ consensus_thread.rest \in Seq(Round)
           /\ consensus_thread.pc = "aborting" =>
                 consensus_thread.rest \in Seq(Round) /\ consensus_thread.rest # <<>>
           /\ consensus_thread.pc \in {"noop_append", "config_refresh", "config_append"} =>
                 consensus_thread.ts \in Timestamps
<1>1. /\ prepare_thread.pc \in {"idle", "assign", "start", "replicate", "apply"}
      /\ prepare_thread.pc # "idle" => prepare_thread.op \in Ops
  BY DEF DriverTypes, OnPrepareThread, Idle
<1>2. CASE consensus_thread \in {Idle, [pc |-> "noop"]}
  BY <1>1, <1>2 DEF Idle
<1>3. CASE consensus_thread \in [pc : {"finish", "apply"}, op : Ops, ok : BOOLEAN, rest : Seq(Round)]
  BY <1>1, <1>3
<1>4. CASE consensus_thread \in [pc : {"aborting"}, rest : Seq(Round) \ {<<>>}]
  BY <1>1, <1>4
<1>5. CASE consensus_thread \in
             [pc : {"noop_append", "config_refresh", "config_append"}, ts : Timestamps]
  BY <1>1, <1>5
<1> QED
  BY <1>2, <1>3, <1>4, <1>5 DEF DriverTypes, OnConsensusThread

\* The values the steps give to the two threads.
LEMMA MadeThreads ==
    /\ Idle \in OnPrepareThread
    /\ \A o \in Ops, pc \in {"assign", "start", "replicate", "apply"} :
          [pc |-> pc, op |-> o] \in OnPrepareThread
    /\ Idle \in OnConsensusThread /\ [pc |-> "noop"] \in OnConsensusThread
    /\ \A o \in Ops, ok \in BOOLEAN, rest \in Seq(Round) :
          [pc |-> "finish", op |-> o, ok |-> ok, rest |-> rest] \in OnConsensusThread
    /\ \A rest \in Seq(Round) : Aborting(rest) \in OnConsensusThread
    /\ \A t \in Timestamps, pc \in {"noop_append", "config_refresh", "config_append"} :
          [pc |-> pc, ts |-> t] \in OnConsensusThread
  BY DEF Idle, OnPrepareThread, OnConsensusThread, Aborting
-----------------------------------------------------------------------------
(***************************************************************************)
(* What each step does to the drivers, the queue, the threads, the rounds  *)
(***************************************************************************)
\* Which fields of the drivers change.
SameStages    == \A x \in Ops : op'[x].stage = op[x].stage
SameRepl      == \A x \in Ops : op'[x].repl = op[x].repl
SamePrep      == \A x \in Ops : op'[x].prep = op[x].prep
SameIdx       == \A x \in Ops : op'[x].idx = op[x].idx
SameTs        == \A x \in Ops : op'[x].ts = op[x].ts
SameTerms     == \A x \in Ops : op'[x].term = op[x].term
SameCommitTs  == \A x \in Ops : op'[x].commit_ts = op[x].commit_ts
StageTo(o, v) == op'[o].stage = v /\ \A x \in Ops : x # o => op'[x].stage = op[x].stage
ReplTo(o, v)  == op'[o].repl = v /\ \A x \in Ops : x # o => op'[x].repl = op[x].repl
PrepTo(o, v)  == op'[o].prep = v /\ \A x \in Ops : x # o => op'[x].prep = op[x].prep
IdxTo(o, v)   == op'[o].idx = v /\ \A x \in Ops : x # o => op'[x].idx = op[x].idx
TsTo(o, v)    == op'[o].ts = v /\ \A x \in Ops : x # o => op'[x].ts = op[x].ts
TermTo(o, v)  == op'[o].term = v /\ \A x \in Ops : x # o => op'[x].term = op[x].term

\* The first task leaves the queue, a task joins it, or it is left alone.
QueueShifts ==
    /\ 1 \in DOMAIN prepare_queue
    /\ \A i \in DOMAIN prepare_queue' :
          /\ i \in Nat /\ i >= 1 /\ i + 1 \in DOMAIN prepare_queue
          /\ prepare_queue'[i] = prepare_queue[i + 1]
          /\ PreparesAt(i)' <=> PreparesAt(i + 1)
          /\ QueuedOp(i)' = QueuedOp(i + 1)
    /\ \A i \in DOMAIN prepare_queue : i # 1 =>
          /\ i - 1 \in DOMAIN prepare_queue'
          /\ PreparesAt(i - 1)' <=> PreparesAt(i)
          /\ QueuedOp(i - 1)' = QueuedOp(i)
QueueEnd == Len(prepare_queue) + 1
QueueGrows(task) ==
    /\ QueueEnd \in Nat /\ QueueEnd >= 1
    /\ DOMAIN prepare_queue' = DOMAIN prepare_queue \cup {QueueEnd}
    /\ prepare_queue'[QueueEnd] = task
    /\ \A i \in DOMAIN prepare_queue :
          /\ i < QueueEnd
          /\ prepare_queue'[i] = prepare_queue[i]
          /\ PreparesAt(i)' <=> PreparesAt(i)
          /\ QueuedOp(i)' = QueuedOp(i)
PrepareJoins(o) ==
    /\ QueueGrows([kind |-> "PREPARE", op |-> o])
    /\ \A i \in DOMAIN prepare_queue' : i = QueueEnd => PreparesAt(i)' /\ QueuedOp(i)' = o

\* The same of the pending rounds.
PendingShifts ==
    /\ 1 \in DOMAIN pending
    /\ \A i \in DOMAIN pending' :
          /\ i \in Nat /\ i >= 1 /\ i + 1 \in DOMAIN pending
          /\ pending'[i] = pending[i + 1]
    /\ \A i \in DOMAIN pending : i # 1 =>
          i - 1 \in DOMAIN pending' /\ pending'[i - 1] = pending[i]
PendingEnd == Len(pending) + 1
PendingGrows(r) ==
    /\ PendingEnd \in Nat /\ PendingEnd >= 1
    /\ DOMAIN pending' = DOMAIN pending \cup {PendingEnd}
    /\ pending'[PendingEnd] = r
    /\ \A i \in DOMAIN pending : i < PendingEnd /\ pending'[i] = pending[i]

\* The first round that is to be aborted leaves the rest.
RestShifts ==
    /\ 1 \in DOMAIN Rest
    /\ \A i \in DOMAIN Rest' :
          /\ i \in Nat /\ i >= 1 /\ i + 1 \in DOMAIN Rest
          /\ Rest'[i] = Rest[i + 1]
    /\ \A i \in DOMAIN Rest : i # 1 => i - 1 \in DOMAIN Rest' /\ Rest'[i - 1] = Rest[i]

\* The consensus thread is at no op's round, before and after.
NotAtRound == consensus_thread.pc \notin {"finish", "apply", "aborting"}

\* What the types say of the parts of the state.
FieldTypes ==
    /\ \A o \in Ops : /\ op[o] \in Driver
                      /\ op[o].idx \in Nat /\ op[o].term \in Nat /\ op[o].ts \in Nat
                      /\ op[o].repl \in Replies
    /\ \A i \in DOMAIN prepare_queue : i \in Nat /\ i >= 1 /\ (PreparesAt(i) => QueuedOp(i) \in Ops)
    /\ \A i \in DOMAIN pending :
          /\ i \in Nat /\ i >= 1
          /\ pending[i].kind = "OP" => pending[i].op \in Ops
    /\ \A i \in DOMAIN Rest :
          /\ i \in Nat /\ i >= 1
          /\ Rest[i].kind = "OP" => Rest[i].op \in Ops
    /\ prepare_thread.pc # "idle" => prepare_thread.op \in Ops
    /\ consensus_thread.pc \in {"finish", "apply"} => consensus_thread.op \in Ops
    /\ committed \in Nat /\ prev_idx \in Nat /\ term \in Nat

LEMMA FieldTypesHold == ASSUME ReplicaTypes PROVE FieldTypes
<1>1. /\ \A o \in Ops : /\ op[o] \in Driver
                        /\ op[o].idx \in Nat /\ op[o].term \in Nat /\ op[o].ts \in Nat
                        /\ op[o].repl \in Replies
      /\ committed \in Nat /\ prev_idx \in Nat /\ term \in Nat
  BY ReplicaAssumption DEF ReplicaTypes, DriverTypes, RaftTypes, Driver
<1>2. \A i \in DOMAIN prepare_queue : i \in Nat /\ i >= 1 /\ (PreparesAt(i) => QueuedOp(i) \in Ops)
  BY SeqFacts, TaskFields DEF ReplicaTypes, DriverTypes, PreparesAt, QueuedOp
<1>3. \A i \in DOMAIN pending :
          /\ i \in Nat /\ i >= 1
          /\ pending[i].kind = "OP" => pending[i].op \in Ops
  BY SeqFacts, RoundFields DEF ReplicaTypes, RaftTypes
<1>4. /\ prepare_thread.pc # "idle" => prepare_thread.op \in Ops
      /\ consensus_thread.pc \in {"finish", "apply"} => consensus_thread.op \in Ops
      /\ consensus_thread.pc \in {"finish", "apply", "aborting"} => consensus_thread.rest \in Seq(Round)
  BY ThreadFields DEF ReplicaTypes
<1>5. Rest \in Seq(Round)
  BY <1>4 DEF Rest
<1>6. \A i \in DOMAIN Rest :
          /\ i \in Nat /\ i >= 1
          /\ Rest[i].kind = "OP" => Rest[i].op \in Ops
  BY <1>5, SeqFacts, RoundFields
<1> QED
  BY <1>1, <1>2, <1>3, <1>4, <1>6 DEF FieldTypes

LEMMA ShiftIs ==
    ASSUME DriverTypes, prepare_queue # <<>>, prepare_queue' = Tail(prepare_queue)
    PROVE  /\ QueueShifts
           /\ Head(prepare_queue) = prepare_queue[1] /\ prepare_queue[1] \in Task
<1>1. prepare_queue \in Seq(Task)
  BY DEF DriverTypes
<1>2. /\ Len(prepare_queue) \in Nat /\ Len(prepare_queue) >= 1
      /\ DOMAIN prepare_queue = 1 .. Len(prepare_queue)
      /\ DOMAIN prepare_queue' = 1 .. Len(prepare_queue) - 1
      /\ \A i \in 1 .. Len(prepare_queue) - 1 : prepare_queue'[i] = prepare_queue[i + 1]
      /\ Head(prepare_queue) = prepare_queue[1] /\ prepare_queue[1] \in Task
  BY <1>1, TailFacts, SeqFacts
<1> QED
  BY <1>2 DEF QueueShifts, PreparesAt, QueuedOp

LEMMA GrowIs ==
    ASSUME DriverTypes, NEW task \in Task, prepare_queue' = Append(prepare_queue, task)
    PROVE  QueueGrows(task)
<1>1. prepare_queue \in Seq(Task)
  BY DEF DriverTypes
<1>2. /\ Len(prepare_queue) \in Nat
      /\ DOMAIN prepare_queue = 1 .. Len(prepare_queue)
      /\ DOMAIN prepare_queue' = 1 .. Len(prepare_queue) + 1
      /\ \A i \in 1 .. Len(prepare_queue) : prepare_queue'[i] = prepare_queue[i]
      /\ prepare_queue'[Len(prepare_queue) + 1] = task
  BY <1>1, AppendFacts, SeqFacts
<1> QED
  BY <1>2 DEF QueueGrows, QueueEnd, PreparesAt, QueuedOp

LEMMA JoinIs ==
    ASSUME DriverTypes, NEW o \in Ops,
           prepare_queue' = Append(prepare_queue, [kind |-> "PREPARE", op |-> o])
    PROVE  PrepareJoins(o)
<1>1. QueueGrows([kind |-> "PREPARE", op |-> o])
  BY GrowIs, MadeRecords
<1> QED
  BY <1>1 DEF PrepareJoins, QueueGrows, PreparesAt, QueuedOp

LEMMA PendingShiftIs ==
    ASSUME RaftTypes, pending # <<>>, pending' = Tail(pending)
    PROVE  /\ PendingShifts
           /\ Head(pending) = pending[1] /\ pending[1] \in Round
<1>1. pending \in Seq(Round)
  BY DEF RaftTypes
<1>2. /\ Len(pending) \in Nat /\ Len(pending) >= 1
      /\ DOMAIN pending = 1 .. Len(pending)
      /\ DOMAIN pending' = 1 .. Len(pending) - 1
      /\ \A i \in 1 .. Len(pending) - 1 : pending'[i] = pending[i + 1]
      /\ Head(pending) = pending[1] /\ pending[1] \in Round
  BY <1>1, TailFacts, SeqFacts
<1> QED
  BY <1>2 DEF PendingShifts

LEMMA PendingGrowIs ==
    ASSUME RaftTypes, NEW r \in Round, pending' = Append(pending, r)
    PROVE  PendingGrows(r)
<1>1. pending \in Seq(Round)
  BY DEF RaftTypes
<1>2. /\ Len(pending) \in Nat
      /\ DOMAIN pending = 1 .. Len(pending)
      /\ DOMAIN pending' = 1 .. Len(pending) + 1
      /\ \A i \in 1 .. Len(pending) : pending'[i] = pending[i]
      /\ pending'[Len(pending) + 1] = r
  BY <1>1, AppendFacts, SeqFacts
<1> QED
  BY <1>2 DEF PendingGrows, PendingEnd

\* Prepare(): the op at the head is prepared and the thread goes on with it.
PrepareStep(o) ==
    /\ SameStages /\ SameRepl /\ SameIdx /\ SameTs /\ SameTerms /\ SameCommitTs
    /\ PrepTo(o, "PREPARED")
    /\ QueueShifts /\ PreparesAt(1) /\ QueuedOp(1) = o
    /\ prepare_thread.pc = "idle"
    /\ \/ op[o].repl = "NOT_REPLICATING" /\ prepare_thread' = [pc |-> "assign", op |-> o]
       \/ op[o].repl = "REPLICATING" /\ prepare_thread' = Idle
       \/ /\ op[o].repl \in {"REPLICATED", "REPLICATION_FAILED"}
          /\ prepare_thread' = [pc |-> "apply", op |-> o]
    /\ UNCHANGED <<consensus_thread, prev_idx, pending, committed, term, role>>

LEMMA PrepareKeepsOrder ==
    ASSUME OrderInv, ReplicaTypes', NEW o \in Ops, PrepareStep(o)
    PROVE  OrderInv'
<1>1. FieldTypes
  BY FieldTypesHold DEF OrderInv
<1>2. Underway(o) /\ ~Prepared(o)
  BY <1>1 DEF OrderInv, QueueInv, QueuedUnprepared, PrepareStep, QueueShifts
<1>3. \A i \in DOMAIN prepare_queue : PreparesAt(i) /\ i # 1 => QueuedOp(i) # o
  BY <1>1 DEF OrderInv, QueueInv, QueuedOnce, PrepareStep, QueueShifts
<1>4. FieldsInv'
  BY <1>1, <1>2 DEF OrderInv, FieldTypes, FieldsInv, FieldsOf, PrepareStep, SameStages,
         SameRepl, SameIdx, SameTs, SameTerms, PrepTo, QueueShifts, Idle, Underway
<1>5. QueuedUnprepared'
  BY <1>1, <1>3 DEF OrderInv, QueueInv, FieldTypes, QueuedUnprepared, Underway, Prepared,
         PrepareStep, SameStages, SameRepl, SameIdx, SameTs, SameTerms, PrepTo, QueueShifts,
         Idle
<1>6. QueuedOnce'
  BY <1>1 DEF OrderInv, QueueInv, FieldTypes, QueuedOnce, PrepareStep, SameStages, SameRepl,
         SameIdx, SameTs, SameTerms, PrepTo, QueueShifts, Idle
<1>7. UnpreparedQueued'
  BY <1>1 DEF OrderInv, QueueInv, FieldTypes, UnpreparedQueued, Underway, Prepared,
         PrepareStep, SameStages, SameRepl, SameIdx, SameTs, SameTerms, PrepTo, QueueShifts,
         Idle
<1>8. HoldsPrepared'
  BY <1>1 DEF OrderInv, PrepareInv, FieldTypes, HoldsPrepared, Prepared, PrepareStep,
         SameStages, SameRepl, SameIdx, SameTs, SameTerms, PrepTo, QueueShifts, Idle
<1>9. HoldsLocal'
  BY <1>1, <1>2 DEF OrderInv, PrepareInv, FieldTypes, HoldsLocal, FieldsInv, FieldsOf,
         PrepareStep, SameStages, SameRepl, SameIdx, SameTs, SameTerms, PrepTo, QueueShifts,
         Idle, Underway
<1>10. HoldsUnsent'
  BY <1>1 DEF OrderInv, PrepareInv, FieldTypes, HoldsUnsent, PrepareStep, SameStages,
         SameRepl, SameIdx, SameTs, SameTerms, PrepTo, QueueShifts, Idle
<1>11. HoldsDecided'
  BY <1>1, <1>2 DEF OrderInv, PrepareInv, ConsensusInv, FieldTypes, HoldsDecided,
         OnConsensus, Underway, FinishesSent, AppliesDecided, Prepared, PrepareStep,
         SameStages, SameRepl, SameIdx, SameTs, SameTerms, PrepTo, QueueShifts, Idle
<1>12. LocalHeld'
  BY <1>1 DEF OrderInv, HeldInv, FieldTypes, LocalHeld, OnPrepare, Underway, Prepared,
         PrepareStep, SameStages, SameRepl, SameIdx, SameTs, SameTerms, PrepTo, QueueShifts,
         Idle
<1>13. UnsentHeld'
  BY <1>1 DEF OrderInv, HeldInv, FieldTypes, UnsentHeld, OnPrepare, PrepareStep, SameStages,
         SameRepl, SameIdx, SameTs, SameTerms, PrepTo, QueueShifts, Idle
<1>14. DecidedHeld'
  BY <1>1 DEF OrderInv, HeldInv, FieldTypes, DecidedHeld, OnPrepare, OnConsensus, Underway,
         Prepared, PrepareStep, SameStages, SameRepl, SameIdx, SameTs, SameTerms, PrepTo,
         QueueShifts, Idle
<1>15. PendingAreSent'
  BY <1>1 DEF OrderInv, PendingInv, FieldTypes, PendingAreSent, PrepareStep, SameStages,
         SameRepl, SameIdx, SameTs, SameTerms, PrepTo, QueueShifts, Idle
<1>16. SentArePending'
  BY <1>1 DEF OrderInv, PendingInv, FieldTypes, SentArePending, PendingAt, InRest, Rest,
         OnConsensus, PrepareStep, SameStages, SameRepl, SameIdx, SameTs, SameTerms, PrepTo,
         QueueShifts, Idle
<1>17. FinishesSent'
  BY <1>1 DEF OrderInv, ConsensusInv, FieldTypes, FinishesSent, PrepareStep, SameStages,
         SameRepl, SameIdx, SameTs, SameTerms, PrepTo, QueueShifts, Idle
<1>18. AppliesDecided'
  BY <1>1 DEF OrderInv, ConsensusInv, FieldTypes, AppliesDecided, Prepared, PrepareStep,
         SameStages, SameRepl, SameIdx, SameTs, SameTerms, PrepTo, QueueShifts, Idle
<1>19. FinishesInOrder'
  BY <1>1 DEF OrderInv, ConsensusInv, FieldTypes, FinishesInOrder, PrepareStep, SameStages,
         SameRepl, SameIdx, SameTs, SameTerms, PrepTo, QueueShifts, Idle
<1>20. RestAreSent'
  BY <1>1 DEF OrderInv, RestInv, FieldTypes, RestAreSent, Rest, PrepareStep, SameStages,
         SameRepl, SameIdx, SameTs, SameTerms, PrepTo, QueueShifts, Idle
<1>21. RestAfterFinished'
  BY <1>1 DEF OrderInv, RestInv, FieldTypes, RestAfterFinished, Rest, PrepareStep,
         SameStages, SameRepl, SameIdx, SameTs, SameTerms, PrepTo, QueueShifts, Idle
<1>22. RestInOrder'
  BY <1>1 DEF OrderInv, RestInv, FieldTypes, RestInOrder, Rest, PrepareStep, SameStages,
         SameRepl, SameIdx, SameTs, SameTerms, PrepTo, QueueShifts, Idle
<1>23. PrevCommitted'
  BY <1>1 DEF OrderInv, LogOrderInv, FieldTypes, PrevCommitted, PrepareStep, SameStages,
         SameRepl, SameIdx, SameTs, SameTerms, PrepTo, QueueShifts, Idle
<1>24. LiveAbovePrev'
  BY <1>1 DEF OrderInv, LogOrderInv, FieldTypes, LiveAbovePrev, Live, PrepareStep,
         SameStages, SameRepl, SameIdx, SameTs, SameTerms, PrepTo, QueueShifts, Idle
<1>25. LiveDistinct'
  BY <1>1 DEF OrderInv, LogOrderInv, FieldTypes, LiveDistinct, Live, PrepareStep,
         SameStages, SameRepl, SameIdx, SameTs, SameTerms, PrepTo, QueueShifts, Idle
<1>26. QueueInOrder'
  BY <1>1 DEF OrderInv, LogOrderInv, FieldTypes, QueueInOrder, Live, PrepareStep,
         SameStages, SameRepl, SameIdx, SameTs, SameTerms, PrepTo, QueueShifts, Idle
<1>27. PreparedFirst'
  BY <1>1 DEF OrderInv, LogOrderInv, FieldTypes, PreparedFirst, Live, Prepared,
         QueueInOrder, PrepareStep, SameStages, SameRepl, SameIdx, SameTs, SameTerms,
         PrepTo, QueueShifts, Idle
<1>28. AppliesLast'
  BY <1>1 DEF OrderInv, LogOrderInv, FieldTypes, AppliesLast, Live, Prepared, PreparedFirst,
         PrepareStep, SameStages, SameRepl, SameIdx, SameTs, SameTerms, PrepTo, QueueShifts,
         Idle
<1>29. TermsKnown'
  BY <1>1 DEF OrderInv, TermInv, FieldTypes, TermsKnown, PrepareStep, SameStages, SameRepl,
         SameIdx, SameTs, SameTerms, PrepTo, QueueShifts, Idle
<1>30. TermsGrow'
  BY <1>1 DEF OrderInv, TermInv, FieldTypes, TermsGrow, PrepareStep, SameStages, SameRepl,
         SameIdx, SameTs, SameTerms, PrepTo, QueueShifts, Idle
<1>31. HeldTermFirst'
  BY <1>1 DEF OrderInv, TermInv, FieldTypes, HeldTermFirst, TermsGrow, PrepareStep,
         SameStages, SameRepl, SameIdx, SameTs, SameTerms, PrepTo, QueueShifts, Idle
<1>32. FollowedBefore'
  BY <1>1 DEF OrderInv, TermInv, FieldTypes, FollowedBefore, PrepareStep, SameStages,
         SameRepl, SameIdx, SameTs, SameTerms, PrepTo, QueueShifts, Idle
<1>33. NoOpByLeader'
  BY <1>1 DEF OrderInv, TermInv, FieldTypes, NoOpByLeader, PrepareStep, SameStages,
         SameRepl, SameIdx, SameTs, SameTerms, PrepTo, QueueShifts, Idle
<1> QED
  BY <1>4, <1>5, <1>6, <1>7, <1>8, <1>9, <1>10, <1>11, <1>12, <1>13, <1>14, <1>15, <1>16,
         <1>17, <1>18, <1>19, <1>20, <1>21, <1>22, <1>23, <1>24, <1>25, <1>26, <1>27, <1>28,
         <1>29, <1>30, <1>31, <1>32, <1>33
     DEF OrderInv, QueueInv, PrepareInv, HeldInv, PendingInv, ConsensusInv, RestInv,
            LogOrderInv, TermInv

\* ExecuteAsync(): a leader's driver joins the queue.
ExecuteStep(o) ==
    /\ op[o].stage = "new"
    /\ StageTo(o, "driven") /\ TermTo(o, term)
    /\ SameRepl /\ SamePrep /\ SameIdx /\ SameTs
    /\ PrepareJoins(o)
    /\ UNCHANGED <<prepare_thread, consensus_thread, prev_idx, pending, committed, term, role>>

LEMMA ExecuteKeepsOrder ==
    ASSUME OrderInv, ReplicaTypes', NEW o \in Ops, ExecuteStep(o)
    PROVE  OrderInv'
<1>1. FieldTypes
  BY FieldTypesHold DEF OrderInv
<1>2. /\ op[o].repl = "NOT_REPLICATING" /\ op[o].prep = "NOT_PREPARED"
      /\ op[o].idx = 0 /\ op[o].term = 0
  BY DEF OrderInv, FieldsInv, FieldsOf, ExecuteStep
<1>3. \A i \in DOMAIN prepare_queue : PreparesAt(i) => QueuedOp(i) # o
  BY <1>1 DEF OrderInv, QueueInv, QueuedUnprepared, ExecuteStep, Underway
<1>4. FieldsInv'
  BY <1>1 DEF OrderInv, FieldTypes, FieldsInv, FieldsOf, ExecuteStep, StageTo, TermTo,
         SameRepl, SamePrep, SameIdx, SameTs, PrepareJoins, QueueGrows
<1>5. QueuedUnprepared'
  BY <1>1, <1>2, <1>3 DEF OrderInv, QueueInv, FieldTypes, QueuedUnprepared, Underway,
         Prepared, ExecuteStep, StageTo, TermTo, SameRepl, SamePrep, SameIdx, SameTs,
         PrepareJoins, QueueGrows
<1>6. QueuedOnce'
  BY <1>1, <1>3 DEF OrderInv, QueueInv, FieldTypes, QueuedOnce, ExecuteStep, StageTo,
         TermTo, SameRepl, SamePrep, SameIdx, SameTs, PrepareJoins, QueueGrows
<1>7. UnpreparedQueued'
  BY <1>1 DEF OrderInv, QueueInv, FieldTypes, UnpreparedQueued, Underway, Prepared,
         ExecuteStep, StageTo, TermTo, SameRepl, SamePrep, SameIdx, SameTs, PrepareJoins,
         QueueGrows
<1>8. HoldsPrepared'
  BY <1>1 DEF OrderInv, PrepareInv, FieldTypes, HoldsPrepared, Prepared, ExecuteStep,
         StageTo, TermTo, SameRepl, SamePrep, SameIdx, SameTs, PrepareJoins, QueueGrows
<1>9. HoldsLocal'
  BY <1>1, <1>2 DEF OrderInv, PrepareInv, FieldTypes, HoldsLocal, ExecuteStep, StageTo,
         TermTo, SameRepl, SamePrep, SameIdx, SameTs, PrepareJoins, QueueGrows
<1>10. HoldsUnsent'
  BY <1>1 DEF OrderInv, PrepareInv, FieldTypes, HoldsUnsent, ExecuteStep, StageTo, TermTo,
         SameRepl, SamePrep, SameIdx, SameTs, PrepareJoins, QueueGrows
<1>11. HoldsDecided'
  BY <1>1 DEF OrderInv, PrepareInv, FieldTypes, HoldsDecided, OnConsensus, Underway,
         ExecuteStep, StageTo, TermTo, SameRepl, SamePrep, SameIdx, SameTs, PrepareJoins,
         QueueGrows
<1>12. LocalHeld'
  BY <1>1, <1>2 DEF OrderInv, HeldInv, FieldTypes, LocalHeld, OnPrepare, Underway, Prepared,
         ExecuteStep, StageTo, TermTo, SameRepl, SamePrep, SameIdx, SameTs, PrepareJoins,
         QueueGrows
<1>13. UnsentHeld'
  BY <1>1 DEF OrderInv, HeldInv, FieldTypes, UnsentHeld, OnPrepare, ExecuteStep, StageTo,
         TermTo, SameRepl, SamePrep, SameIdx, SameTs, PrepareJoins, QueueGrows
<1>14. DecidedHeld'
  BY <1>1, <1>2 DEF OrderInv, HeldInv, FieldTypes, DecidedHeld, OnPrepare, OnConsensus,
         Underway, Prepared, ExecuteStep, StageTo, TermTo, SameRepl, SamePrep, SameIdx,
         SameTs, PrepareJoins, QueueGrows
<1>15. PendingAreSent'
  BY <1>1, <1>2 DEF OrderInv, PendingInv, FieldTypes, PendingAreSent, ExecuteStep, StageTo,
         TermTo, SameRepl, SamePrep, SameIdx, SameTs, PrepareJoins, QueueGrows
<1>16. SentArePending'
  BY <1>1 DEF OrderInv, PendingInv, FieldTypes, SentArePending, PendingAt, InRest, Rest,
         OnConsensus, ExecuteStep, StageTo, TermTo, SameRepl, SamePrep, SameIdx, SameTs,
         PrepareJoins, QueueGrows
<1>17. FinishesSent'
  BY <1>1 DEF OrderInv, ConsensusInv, FieldTypes, FinishesSent, ExecuteStep, StageTo,
         TermTo, SameRepl, SamePrep, SameIdx, SameTs, PrepareJoins, QueueGrows
<1>18. AppliesDecided'
  BY <1>1 DEF OrderInv, ConsensusInv, FieldTypes, AppliesDecided, Prepared, ExecuteStep,
         StageTo, TermTo, SameRepl, SamePrep, SameIdx, SameTs, PrepareJoins, QueueGrows
<1>19. FinishesInOrder'
  BY <1>1, <1>2 DEF OrderInv, ConsensusInv, FieldTypes, FinishesInOrder, FinishesSent,
         AppliesDecided, Prepared, ExecuteStep, StageTo, TermTo, SameRepl, SamePrep,
         SameIdx, SameTs, PrepareJoins, QueueGrows
<1>20. RestAreSent'
  BY <1>1, <1>2 DEF OrderInv, RestInv, FieldTypes, RestAreSent, Rest, ExecuteStep, StageTo,
         TermTo, SameRepl, SamePrep, SameIdx, SameTs, PrepareJoins, QueueGrows
<1>21. RestAfterFinished'
  BY <1>1 DEF OrderInv, RestInv, FieldTypes, RestAfterFinished, Rest, ExecuteStep, StageTo,
         TermTo, SameRepl, SamePrep, SameIdx, SameTs, PrepareJoins, QueueGrows
<1>22. RestInOrder'
  BY <1>1 DEF OrderInv, RestInv, FieldTypes, RestInOrder, Rest, ExecuteStep, StageTo,
         TermTo, SameRepl, SamePrep, SameIdx, SameTs, PrepareJoins, QueueGrows
<1>23. PrevCommitted'
  BY <1>1 DEF OrderInv, LogOrderInv, FieldTypes, PrevCommitted, ExecuteStep, StageTo,
         TermTo, SameRepl, SamePrep, SameIdx, SameTs, PrepareJoins, QueueGrows
<1>24. LiveAbovePrev'
  BY <1>1, <1>2 DEF OrderInv, LogOrderInv, FieldTypes, LiveAbovePrev, Live, ExecuteStep,
         StageTo, TermTo, SameRepl, SamePrep, SameIdx, SameTs, PrepareJoins, QueueGrows
<1>25. LiveDistinct'
  BY <1>1, <1>2 DEF OrderInv, LogOrderInv, FieldTypes, LiveDistinct, Live, ExecuteStep,
         StageTo, TermTo, SameRepl, SamePrep, SameIdx, SameTs, PrepareJoins, QueueGrows
<1>26. QueueInOrder'
  BY <1>1, <1>2, <1>3 DEF OrderInv, LogOrderInv, FieldTypes, QueueInOrder, Live,
         ExecuteStep, StageTo, TermTo, SameRepl, SamePrep, SameIdx, SameTs, PrepareJoins,
         QueueGrows
<1>27. PreparedFirst'
  BY <1>1, <1>2 DEF OrderInv, LogOrderInv, FieldTypes, PreparedFirst, Live, Prepared,
         ExecuteStep, StageTo, TermTo, SameRepl, SamePrep, SameIdx, SameTs, PrepareJoins,
         QueueGrows
<1>28. AppliesLast'
  BY <1>1, <1>2 DEF OrderInv, LogOrderInv, FieldTypes, AppliesLast, Live, Prepared,
         ExecuteStep, StageTo, TermTo, SameRepl, SamePrep, SameIdx, SameTs, PrepareJoins,
         QueueGrows
<1>29. TermsKnown'
  BY <1>1 DEF OrderInv, TermInv, FieldTypes, TermsKnown, ExecuteStep, StageTo, TermTo,
         SameRepl, SamePrep, SameIdx, SameTs, PrepareJoins, QueueGrows
<1>30. TermsGrow'
  BY <1>1, <1>3 DEF OrderInv, TermInv, FieldTypes, TermsGrow, TermsKnown, ExecuteStep,
         StageTo, TermTo, SameRepl, SamePrep, SameIdx, SameTs, PrepareJoins, QueueGrows
<1>31. HeldTermFirst'
  BY <1>1, <1>2, <1>3 DEF OrderInv, TermInv, PrepareInv, FieldTypes, HeldTermFirst,
         TermsKnown, HoldsPrepared, Prepared, ExecuteStep, StageTo, TermTo, SameRepl,
         SamePrep, SameIdx, SameTs, PrepareJoins, QueueGrows
<1>32. FollowedBefore'
  BY <1>1, <1>2, <1>3 DEF OrderInv, TermInv, FieldTypes, FollowedBefore, ExecuteStep,
         StageTo, TermTo, SameRepl, SamePrep, SameIdx, SameTs, PrepareJoins, QueueGrows
<1>33. NoOpByLeader'
  BY <1>1 DEF OrderInv, TermInv, FieldTypes, NoOpByLeader, ExecuteStep, StageTo, TermTo,
         SameRepl, SamePrep, SameIdx, SameTs, PrepareJoins, QueueGrows
<1> QED
  BY <1>4, <1>5, <1>6, <1>7, <1>8, <1>9, <1>10, <1>11, <1>12, <1>13, <1>14, <1>15, <1>16,
         <1>17, <1>18, <1>19, <1>20, <1>21, <1>22, <1>23, <1>24, <1>25, <1>26, <1>27, <1>28,
         <1>29, <1>30, <1>31, <1>32, <1>33
     DEF OrderInv, QueueInv, PrepareInv, HeldInv, PendingInv, ConsensusInv, RestInv,
            LogOrderInv, TermInv

\* The op at the head fails before it is prepared.
RefuseStep(o) ==
    /\ op[o].repl = "NOT_REPLICATING"
    /\ StageTo(o, "failed")
    /\ SameRepl /\ SamePrep /\ SameIdx /\ SameTs /\ SameTerms
    /\ QueueShifts /\ PreparesAt(1) /\ QueuedOp(1) = o
    /\ prepare_thread.pc = "idle"
    /\ UNCHANGED <<prepare_thread, consensus_thread, prev_idx, pending, committed, term, role>>

LEMMA RefuseKeepsOrder ==
    ASSUME OrderInv, ReplicaTypes', NEW o \in Ops, RefuseStep(o)
    PROVE  OrderInv'
<1>1. FieldTypes
  BY FieldTypesHold DEF OrderInv
<1>2. Underway(o) /\ ~Prepared(o)
  BY <1>1 DEF OrderInv, QueueInv, QueuedUnprepared, RefuseStep, QueueShifts
<1>3. \A i \in DOMAIN prepare_queue : PreparesAt(i) /\ i # 1 => QueuedOp(i) # o
  BY <1>1 DEF OrderInv, QueueInv, QueuedOnce, RefuseStep, QueueShifts
<1>4. FieldsInv'
  BY <1>1, <1>2 DEF OrderInv, FieldTypes, FieldsInv, FieldsOf, RefuseStep, StageTo,
         SameTerms, SameRepl, SamePrep, SameIdx, SameTs, QueueShifts, Underway
<1>5. QueuedUnprepared'
  BY <1>1, <1>3 DEF OrderInv, QueueInv, FieldTypes, QueuedUnprepared, Underway, Prepared,
         RefuseStep, StageTo, SameTerms, SameRepl, SamePrep, SameIdx, SameTs, QueueShifts
<1>6. QueuedOnce'
  BY <1>1 DEF OrderInv, QueueInv, FieldTypes, QueuedOnce, RefuseStep, StageTo, SameTerms,
         SameRepl, SamePrep, SameIdx, SameTs, QueueShifts
<1>7. UnpreparedQueued'
  BY <1>1 DEF OrderInv, QueueInv, FieldTypes, UnpreparedQueued, Underway, Prepared,
         RefuseStep, StageTo, SameTerms, SameRepl, SamePrep, SameIdx, SameTs, QueueShifts
<1>8. HoldsPrepared'
  BY <1>1 DEF OrderInv, PrepareInv, FieldTypes, HoldsPrepared, Prepared, RefuseStep,
         StageTo, SameTerms, SameRepl, SamePrep, SameIdx, SameTs, QueueShifts
<1>9. HoldsLocal'
  BY <1>1 DEF OrderInv, PrepareInv, FieldTypes, HoldsLocal, RefuseStep, StageTo, SameTerms,
         SameRepl, SamePrep, SameIdx, SameTs, QueueShifts
<1>10. HoldsUnsent'
  BY <1>1 DEF OrderInv, PrepareInv, FieldTypes, HoldsUnsent, RefuseStep, StageTo, SameTerms,
         SameRepl, SamePrep, SameIdx, SameTs, QueueShifts
<1>11. HoldsDecided'
  BY <1>1 DEF OrderInv, PrepareInv, FieldTypes, HoldsDecided, OnConsensus, Underway,
         RefuseStep, StageTo, SameTerms, SameRepl, SamePrep, SameIdx, SameTs, QueueShifts
<1>12. LocalHeld'
  BY <1>1 DEF OrderInv, HeldInv, FieldTypes, LocalHeld, OnPrepare, Underway, Prepared,
         RefuseStep, StageTo, SameTerms, SameRepl, SamePrep, SameIdx, SameTs, QueueShifts
<1>13. UnsentHeld'
  BY <1>1 DEF OrderInv, HeldInv, FieldTypes, UnsentHeld, OnPrepare, RefuseStep, StageTo,
         SameTerms, SameRepl, SamePrep, SameIdx, SameTs, QueueShifts
<1>14. DecidedHeld'
  BY <1>1 DEF OrderInv, HeldInv, FieldTypes, DecidedHeld, OnPrepare, OnConsensus, Underway,
         Prepared, RefuseStep, StageTo, SameTerms, SameRepl, SamePrep, SameIdx, SameTs,
         QueueShifts
<1>15. PendingAreSent'
  BY <1>1 DEF OrderInv, PendingInv, FieldTypes, PendingAreSent, RefuseStep, StageTo,
         SameTerms, SameRepl, SamePrep, SameIdx, SameTs, QueueShifts
<1>16. SentArePending'
  BY <1>1 DEF OrderInv, PendingInv, FieldTypes, SentArePending, PendingAt, InRest, Rest,
         OnConsensus, RefuseStep, StageTo, SameTerms, SameRepl, SamePrep, SameIdx, SameTs,
         QueueShifts
<1>17. FinishesSent'
  BY <1>1 DEF OrderInv, ConsensusInv, FieldTypes, FinishesSent, RefuseStep, StageTo,
         SameTerms, SameRepl, SamePrep, SameIdx, SameTs, QueueShifts
<1>18. AppliesDecided'
  BY <1>1 DEF OrderInv, ConsensusInv, FieldTypes, AppliesDecided, Prepared, RefuseStep,
         StageTo, SameTerms, SameRepl, SamePrep, SameIdx, SameTs, QueueShifts
<1>19. FinishesInOrder'
  BY <1>1 DEF OrderInv, ConsensusInv, FieldTypes, FinishesInOrder, FinishesSent,
         AppliesDecided, Prepared, RefuseStep, StageTo, SameTerms, SameRepl, SamePrep,
         SameIdx, SameTs, QueueShifts
<1>20. RestAreSent'
  BY <1>1 DEF OrderInv, RestInv, FieldTypes, RestAreSent, Rest, RefuseStep, StageTo,
         SameTerms, SameRepl, SamePrep, SameIdx, SameTs, QueueShifts
<1>21. RestAfterFinished'
  BY <1>1 DEF OrderInv, RestInv, FieldTypes, RestAfterFinished, Rest, RefuseStep, StageTo,
         SameTerms, SameRepl, SamePrep, SameIdx, SameTs, QueueShifts
<1>22. RestInOrder'
  BY <1>1 DEF OrderInv, RestInv, FieldTypes, RestInOrder, Rest, RefuseStep, StageTo,
         SameTerms, SameRepl, SamePrep, SameIdx, SameTs, QueueShifts
<1>23. PrevCommitted'
  BY <1>1 DEF OrderInv, LogOrderInv, FieldTypes, PrevCommitted, RefuseStep, StageTo,
         SameTerms, SameRepl, SamePrep, SameIdx, SameTs, QueueShifts
<1>24. LiveAbovePrev'
  BY <1>1 DEF OrderInv, LogOrderInv, FieldTypes, LiveAbovePrev, Live, RefuseStep, StageTo,
         SameTerms, SameRepl, SamePrep, SameIdx, SameTs, QueueShifts
<1>25. LiveDistinct'
  BY <1>1 DEF OrderInv, LogOrderInv, FieldTypes, LiveDistinct, Live, RefuseStep, StageTo,
         SameTerms, SameRepl, SamePrep, SameIdx, SameTs, QueueShifts
<1>26. QueueInOrder'
  BY <1>1 DEF OrderInv, LogOrderInv, FieldTypes, QueueInOrder, Live, RefuseStep, StageTo,
         SameTerms, SameRepl, SamePrep, SameIdx, SameTs, QueueShifts
<1>27. PreparedFirst'
  BY <1>1 DEF OrderInv, LogOrderInv, FieldTypes, PreparedFirst, Live, Prepared, RefuseStep,
         StageTo, SameTerms, SameRepl, SamePrep, SameIdx, SameTs, QueueShifts
<1>28. AppliesLast'
  BY <1>1 DEF OrderInv, LogOrderInv, FieldTypes, AppliesLast, Live, Prepared, RefuseStep,
         StageTo, SameTerms, SameRepl, SamePrep, SameIdx, SameTs, QueueShifts
<1>29. TermsKnown'
  BY <1>1 DEF OrderInv, TermInv, FieldTypes, TermsKnown, RefuseStep, StageTo, SameTerms,
         SameRepl, SamePrep, SameIdx, SameTs, QueueShifts
<1>30. TermsGrow'
  BY <1>1 DEF OrderInv, TermInv, FieldTypes, TermsGrow, RefuseStep, StageTo, SameTerms,
         SameRepl, SamePrep, SameIdx, SameTs, QueueShifts
<1>31. HeldTermFirst'
  BY <1>1 DEF OrderInv, TermInv, FieldTypes, HeldTermFirst, RefuseStep, StageTo, SameTerms,
         SameRepl, SamePrep, SameIdx, SameTs, QueueShifts
<1>32. FollowedBefore'
  BY <1>1 DEF OrderInv, TermInv, FieldTypes, FollowedBefore, RefuseStep, StageTo, SameTerms,
         SameRepl, SamePrep, SameIdx, SameTs, QueueShifts
<1>33. NoOpByLeader'
  BY <1>1 DEF OrderInv, TermInv, FieldTypes, NoOpByLeader, RefuseStep, StageTo, SameTerms,
         SameRepl, SamePrep, SameIdx, SameTs, QueueShifts
<1> QED
  BY <1>4, <1>5, <1>6, <1>7, <1>8, <1>9, <1>10, <1>11, <1>12, <1>13, <1>14, <1>15, <1>16,
         <1>17, <1>18, <1>19, <1>20, <1>21, <1>22, <1>23, <1>24, <1>25, <1>26, <1>27, <1>28,
         <1>29, <1>30, <1>31, <1>32, <1>33
     DEF OrderInv, QueueInv, PrepareInv, HeldInv, PendingInv, ConsensusInv, RestInv,
            LogOrderInv, TermInv

\* The op on the prepare thread is given its timestamp.
AssignStep(o) ==
    /\ prepare_thread.pc = "assign" /\ prepare_thread.op = o
    /\ prepare_thread' = [pc |-> "start", op |-> o]
    /\ SameStages /\ SameRepl /\ SamePrep /\ SameIdx /\ SameTerms
    /\ \A x \in Ops : x # o => op'[x].ts = op[x].ts
    /\ UNCHANGED <<prepare_queue, consensus_thread, prev_idx, pending, committed, term, role>>

LEMMA AssignKeepsOrder ==
    ASSUME OrderInv, ReplicaTypes', NEW o \in Ops, AssignStep(o)
    PROVE  OrderInv'
<1>1. FieldTypes
  BY FieldTypesHold DEF OrderInv
<1>2. FieldsInv'
  BY <1>1 DEF OrderInv, PrepareInv, FieldTypes, FieldsInv, FieldsOf, HoldsLocal, AssignStep,
         SameStages, SameTerms, SameRepl, SamePrep, SameIdx
<1>3. QueuedUnprepared'
  BY <1>1 DEF OrderInv, QueueInv, FieldTypes, QueuedUnprepared, PreparesAt, QueuedOp,
         Underway, Prepared, AssignStep, SameStages, SameTerms, SameRepl, SamePrep, SameIdx
<1>4. QueuedOnce'
  BY <1>1 DEF OrderInv, QueueInv, FieldTypes, QueuedOnce, PreparesAt, QueuedOp, AssignStep,
         SameStages, SameTerms, SameRepl, SamePrep, SameIdx
<1>5. UnpreparedQueued'
  BY <1>1 DEF OrderInv, QueueInv, FieldTypes, UnpreparedQueued, PreparesAt, QueuedOp,
         Underway, Prepared, AssignStep, SameStages, SameTerms, SameRepl, SamePrep, SameIdx
<1>6. HoldsPrepared'
  BY <1>1 DEF OrderInv, PrepareInv, FieldTypes, HoldsPrepared, Prepared, AssignStep,
         SameStages, SameTerms, SameRepl, SamePrep, SameIdx
<1>7. HoldsLocal'
  BY <1>1 DEF OrderInv, PrepareInv, FieldTypes, HoldsLocal, AssignStep, SameStages,
         SameTerms, SameRepl, SamePrep, SameIdx
<1>8. HoldsUnsent'
  BY <1>1 DEF OrderInv, PrepareInv, FieldTypes, HoldsUnsent, AssignStep, SameStages,
         SameTerms, SameRepl, SamePrep, SameIdx
<1>9. HoldsDecided'
  BY <1>1 DEF OrderInv, PrepareInv, FieldTypes, HoldsDecided, OnConsensus, Underway,
         AssignStep, SameStages, SameTerms, SameRepl, SamePrep, SameIdx
<1>10. LocalHeld'
  BY <1>1 DEF OrderInv, HeldInv, FieldTypes, LocalHeld, OnPrepare, Underway, Prepared,
         AssignStep, SameStages, SameTerms, SameRepl, SamePrep, SameIdx
<1>11. UnsentHeld'
  BY <1>1 DEF OrderInv, HeldInv, FieldTypes, UnsentHeld, OnPrepare, AssignStep, SameStages,
         SameTerms, SameRepl, SamePrep, SameIdx
<1>12. DecidedHeld'
  BY <1>1 DEF OrderInv, HeldInv, FieldTypes, DecidedHeld, OnPrepare, OnConsensus, Underway,
         Prepared, AssignStep, SameStages, SameTerms, SameRepl, SamePrep, SameIdx
<1>13. PendingAreSent'
  BY <1>1 DEF OrderInv, PendingInv, FieldTypes, PendingAreSent, AssignStep, SameStages,
         SameTerms, SameRepl, SamePrep, SameIdx
<1>14. SentArePending'
  BY <1>1 DEF OrderInv, PendingInv, FieldTypes, SentArePending, PendingAt, InRest, Rest,
         OnConsensus, AssignStep, SameStages, SameTerms, SameRepl, SamePrep, SameIdx
<1>15. FinishesSent'
  BY <1>1 DEF OrderInv, ConsensusInv, FieldTypes, FinishesSent, AssignStep, SameStages,
         SameTerms, SameRepl, SamePrep, SameIdx
<1>16. AppliesDecided'
  BY <1>1 DEF OrderInv, ConsensusInv, FieldTypes, AppliesDecided, Prepared, AssignStep,
         SameStages, SameTerms, SameRepl, SamePrep, SameIdx
<1>17. FinishesInOrder'
  BY <1>1 DEF OrderInv, ConsensusInv, FieldTypes, FinishesInOrder, AssignStep, SameStages,
         SameTerms, SameRepl, SamePrep, SameIdx
<1>18. RestAreSent'
  BY <1>1 DEF OrderInv, RestInv, FieldTypes, RestAreSent, Rest, AssignStep, SameStages,
         SameTerms, SameRepl, SamePrep, SameIdx
<1>19. RestAfterFinished'
  BY <1>1 DEF OrderInv, RestInv, FieldTypes, RestAfterFinished, Rest, AssignStep,
         SameStages, SameTerms, SameRepl, SamePrep, SameIdx
<1>20. RestInOrder'
  BY <1>1 DEF OrderInv, RestInv, FieldTypes, RestInOrder, Rest, AssignStep, SameStages,
         SameTerms, SameRepl, SamePrep, SameIdx
<1>21. PrevCommitted'
  BY <1>1 DEF OrderInv, LogOrderInv, FieldTypes, PrevCommitted, AssignStep, SameStages,
         SameTerms, SameRepl, SamePrep, SameIdx
<1>22. LiveAbovePrev'
  BY <1>1 DEF OrderInv, LogOrderInv, FieldTypes, LiveAbovePrev, Live, AssignStep,
         SameStages, SameTerms, SameRepl, SamePrep, SameIdx
<1>23. LiveDistinct'
  BY <1>1 DEF OrderInv, LogOrderInv, FieldTypes, LiveDistinct, Live, AssignStep, SameStages,
         SameTerms, SameRepl, SamePrep, SameIdx
<1>24. QueueInOrder'
  BY <1>1 DEF OrderInv, LogOrderInv, FieldTypes, QueueInOrder, Live, PreparesAt, QueuedOp,
         AssignStep, SameStages, SameTerms, SameRepl, SamePrep, SameIdx
<1>25. PreparedFirst'
  BY <1>1 DEF OrderInv, LogOrderInv, FieldTypes, PreparedFirst, Live, Prepared, PreparesAt,
         QueuedOp, AssignStep, SameStages, SameTerms, SameRepl, SamePrep, SameIdx
<1>26. AppliesLast'
  BY <1>1 DEF OrderInv, LogOrderInv, FieldTypes, AppliesLast, Live, Prepared, AssignStep,
         SameStages, SameTerms, SameRepl, SamePrep, SameIdx
<1>27. TermsKnown'
  BY <1>1 DEF OrderInv, TermInv, FieldTypes, TermsKnown, AssignStep, SameStages, SameTerms,
         SameRepl, SamePrep, SameIdx
<1>28. TermsGrow'
  BY <1>1 DEF OrderInv, TermInv, FieldTypes, TermsGrow, PreparesAt, QueuedOp, AssignStep,
         SameStages, SameTerms, SameRepl, SamePrep, SameIdx
<1>29. HeldTermFirst'
  BY <1>1 DEF OrderInv, TermInv, FieldTypes, HeldTermFirst, PreparesAt, QueuedOp,
         AssignStep, SameStages, SameTerms, SameRepl, SamePrep, SameIdx
<1>30. FollowedBefore'
  BY <1>1 DEF OrderInv, TermInv, FieldTypes, FollowedBefore, PreparesAt, QueuedOp,
         AssignStep, SameStages, SameTerms, SameRepl, SamePrep, SameIdx
<1>31. NoOpByLeader'
  BY <1>1 DEF OrderInv, TermInv, FieldTypes, NoOpByLeader, AssignStep, SameStages,
         SameTerms, SameRepl, SamePrep, SameIdx
<1> QED
  BY <1>2, <1>3, <1>4, <1>5, <1>6, <1>7, <1>8, <1>9, <1>10, <1>11, <1>12, <1>13, <1>14,
         <1>15, <1>16, <1>17, <1>18, <1>19, <1>20, <1>21, <1>22, <1>23, <1>24, <1>25, <1>26,
         <1>27, <1>28, <1>29, <1>30, <1>31
     DEF OrderInv, QueueInv, PrepareInv, HeldInv, PendingInv, ConsensusInv, RestInv,
            LogOrderInv, TermInv

\* The replica leads no longer when the op is to be given a timestamp.
AssignFailStep(o) ==
    /\ prepare_thread.pc = "assign" /\ prepare_thread.op = o
    /\ prepare_thread' = Idle
    /\ StageTo(o, "failed") /\ SameRepl /\ SamePrep /\ SameIdx /\ SameTerms /\ SameTs
    /\ UNCHANGED <<prepare_queue, consensus_thread, prev_idx, pending, committed, term, role>>

LEMMA AssignFailKeepsOrder ==
    ASSUME OrderInv, ReplicaTypes', NEW o \in Ops, AssignFailStep(o)
    PROVE  OrderInv'
<1>1. FieldTypes
  BY FieldTypesHold DEF OrderInv
<1>2. /\ op[o].stage = "driven" /\ op[o].repl = "NOT_REPLICATING"
      /\ op[o].prep = "PREPARED"
  BY DEF OrderInv, PrepareInv, HoldsLocal, HoldsPrepared, Prepared, AssignFailStep
<1>3. FieldsInv'
  BY <1>1, <1>2 DEF OrderInv, FieldTypes, FieldsInv, FieldsOf, AssignFailStep, StageTo,
         SameTs, SameTerms, SameRepl, SamePrep, SameIdx, Idle
<1>4. QueuedUnprepared'
  BY <1>1, <1>2 DEF OrderInv, QueueInv, FieldTypes, QueuedUnprepared, PreparesAt, QueuedOp,
         Underway, Prepared, AssignFailStep, StageTo, SameTs, SameTerms, SameRepl, SamePrep,
         SameIdx, Idle
<1>5. QueuedOnce'
  BY <1>1 DEF OrderInv, QueueInv, FieldTypes, QueuedOnce, PreparesAt, QueuedOp,
         AssignFailStep, StageTo, SameTs, SameTerms, SameRepl, SamePrep, SameIdx, Idle
<1>6. UnpreparedQueued'
  BY <1>1 DEF OrderInv, QueueInv, FieldTypes, UnpreparedQueued, PreparesAt, QueuedOp,
         Underway, Prepared, AssignFailStep, StageTo, SameTs, SameTerms, SameRepl, SamePrep,
         SameIdx, Idle
<1>7. HoldsPrepared'
  BY <1>1 DEF OrderInv, PrepareInv, FieldTypes, HoldsPrepared, Prepared, AssignFailStep,
         StageTo, SameTs, SameTerms, SameRepl, SamePrep, SameIdx, Idle
<1>8. HoldsLocal'
  BY <1>1 DEF OrderInv, PrepareInv, FieldTypes, HoldsLocal, AssignFailStep, StageTo, SameTs,
         SameTerms, SameRepl, SamePrep, SameIdx, Idle
<1>9. HoldsUnsent'
  BY <1>1 DEF OrderInv, PrepareInv, FieldTypes, HoldsUnsent, AssignFailStep, StageTo,
         SameTs, SameTerms, SameRepl, SamePrep, SameIdx, Idle
<1>10. HoldsDecided'
  BY <1>1 DEF OrderInv, PrepareInv, FieldTypes, HoldsDecided, OnConsensus, Underway,
         AssignFailStep, StageTo, SameTs, SameTerms, SameRepl, SamePrep, SameIdx, Idle
<1>11. LocalHeld'
  BY <1>1, <1>2 DEF OrderInv, HeldInv, FieldTypes, LocalHeld, OnPrepare, Underway, Prepared,
         AssignFailStep, StageTo, SameTs, SameTerms, SameRepl, SamePrep, SameIdx, Idle
<1>12. UnsentHeld'
  BY <1>1, <1>2 DEF OrderInv, HeldInv, FieldTypes, UnsentHeld, OnPrepare, AssignFailStep,
         StageTo, SameTs, SameTerms, SameRepl, SamePrep, SameIdx, Idle
<1>13. DecidedHeld'
  BY <1>1, <1>2 DEF OrderInv, HeldInv, FieldTypes, DecidedHeld, OnPrepare, OnConsensus,
         Underway, Prepared, AssignFailStep, StageTo, SameTs, SameTerms, SameRepl, SamePrep,
         SameIdx, Idle
<1>14. PendingAreSent'
  BY <1>1, <1>2 DEF OrderInv, PendingInv, FieldTypes, PendingAreSent, AssignFailStep,
         StageTo, SameTs, SameTerms, SameRepl, SamePrep, SameIdx, Idle
<1>15. SentArePending'
  BY <1>1 DEF OrderInv, PendingInv, FieldTypes, SentArePending, PendingAt, InRest, Rest,
         OnConsensus, AssignFailStep, StageTo, SameTs, SameTerms, SameRepl, SamePrep,
         SameIdx, Idle
<1>16. FinishesSent'
  BY <1>1 DEF OrderInv, ConsensusInv, FieldTypes, FinishesSent, AssignFailStep, StageTo,
         SameTs, SameTerms, SameRepl, SamePrep, SameIdx, Idle
<1>17. AppliesDecided'
  BY <1>1 DEF OrderInv, ConsensusInv, FieldTypes, AppliesDecided, Prepared, AssignFailStep,
         StageTo, SameTs, SameTerms, SameRepl, SamePrep, SameIdx, Idle
<1>18. FinishesInOrder'
  BY <1>1, <1>2 DEF OrderInv, ConsensusInv, FieldTypes, FinishesInOrder, FinishesSent,
         AppliesDecided, Prepared, AssignFailStep, StageTo, SameTs, SameTerms, SameRepl,
         SamePrep, SameIdx, Idle
<1>19. RestAreSent'
  BY <1>1, <1>2 DEF OrderInv, RestInv, FieldTypes, RestAreSent, Rest, AssignFailStep,
         StageTo, SameTs, SameTerms, SameRepl, SamePrep, SameIdx, Idle
<1>20. RestAfterFinished'
  BY <1>1 DEF OrderInv, RestInv, FieldTypes, RestAfterFinished, Rest, AssignFailStep,
         StageTo, SameTs, SameTerms, SameRepl, SamePrep, SameIdx, Idle
<1>21. RestInOrder'
  BY <1>1 DEF OrderInv, RestInv, FieldTypes, RestInOrder, Rest, AssignFailStep, StageTo,
         SameTs, SameTerms, SameRepl, SamePrep, SameIdx, Idle
<1>22. PrevCommitted'
  BY <1>1 DEF OrderInv, LogOrderInv, FieldTypes, PrevCommitted, AssignFailStep, StageTo,
         SameTs, SameTerms, SameRepl, SamePrep, SameIdx, Idle
<1>23. LiveAbovePrev'
  BY <1>1, <1>2 DEF OrderInv, LogOrderInv, FieldTypes, LiveAbovePrev, Live, AssignFailStep,
         StageTo, SameTs, SameTerms, SameRepl, SamePrep, SameIdx, Idle
<1>24. LiveDistinct'
  BY <1>1 DEF OrderInv, LogOrderInv, FieldTypes, LiveDistinct, Live, AssignFailStep,
         StageTo, SameTs, SameTerms, SameRepl, SamePrep, SameIdx, Idle
<1>25. QueueInOrder'
  BY <1>1 DEF OrderInv, LogOrderInv, FieldTypes, QueueInOrder, Live, PreparesAt, QueuedOp,
         AssignFailStep, StageTo, SameTs, SameTerms, SameRepl, SamePrep, SameIdx, Idle
<1>26. PreparedFirst'
  BY <1>1 DEF OrderInv, LogOrderInv, FieldTypes, PreparedFirst, Live, Prepared, PreparesAt,
         QueuedOp, AssignFailStep, StageTo, SameTs, SameTerms, SameRepl, SamePrep, SameIdx,
         Idle
<1>27. AppliesLast'
  BY <1>1 DEF OrderInv, LogOrderInv, FieldTypes, AppliesLast, Live, Prepared,
         AssignFailStep, StageTo, SameTs, SameTerms, SameRepl, SamePrep, SameIdx, Idle
<1>28. TermsKnown'
  BY <1>1 DEF OrderInv, TermInv, FieldTypes, TermsKnown, AssignFailStep, StageTo, SameTs,
         SameTerms, SameRepl, SamePrep, SameIdx, Idle
<1>29. TermsGrow'
  BY <1>1 DEF OrderInv, TermInv, FieldTypes, TermsGrow, PreparesAt, QueuedOp,
         AssignFailStep, StageTo, SameTs, SameTerms, SameRepl, SamePrep, SameIdx, Idle
<1>30. HeldTermFirst'
  BY <1>1 DEF OrderInv, TermInv, FieldTypes, HeldTermFirst, PreparesAt, QueuedOp,
         AssignFailStep, StageTo, SameTs, SameTerms, SameRepl, SamePrep, SameIdx, Idle
<1>31. FollowedBefore'
  BY <1>1 DEF OrderInv, TermInv, FieldTypes, FollowedBefore, PreparesAt, QueuedOp,
         AssignFailStep, StageTo, SameTs, SameTerms, SameRepl, SamePrep, SameIdx, Idle
<1>32. NoOpByLeader'
  BY <1>1 DEF OrderInv, TermInv, FieldTypes, NoOpByLeader, AssignFailStep, StageTo, SameTs,
         SameTerms, SameRepl, SamePrep, SameIdx, Idle
<1> QED
  BY <1>3, <1>4, <1>5, <1>6, <1>7, <1>8, <1>9, <1>10, <1>11, <1>12, <1>13, <1>14, <1>15,
         <1>16, <1>17, <1>18, <1>19, <1>20, <1>21, <1>22, <1>23, <1>24, <1>25, <1>26, <1>27,
         <1>28, <1>29, <1>30, <1>31, <1>32
     DEF OrderInv, QueueInv, PrepareInv, HeldInv, PendingInv, ConsensusInv, RestInv,
            LogOrderInv, TermInv

\* Start(): the op on the prepare thread is now replicating.
StartStep(o) ==
    /\ prepare_thread.pc = "start" /\ prepare_thread.op = o
    /\ prepare_thread' = [pc |-> "replicate", op |-> o]
    /\ ReplTo(o, "REPLICATING")
    /\ SameStages /\ SamePrep /\ SameIdx /\ SameTerms /\ SameTs
    /\ UNCHANGED <<prepare_queue, consensus_thread, prev_idx, pending, committed, term, role>>

LEMMA StartKeepsOrder ==
    ASSUME OrderInv, ReplicaTypes', NEW o \in Ops, StartStep(o)
    PROVE  OrderInv'
<1>1. FieldTypes
  BY FieldTypesHold DEF OrderInv
<1>2. /\ op[o].stage = "driven" /\ op[o].repl = "NOT_REPLICATING"
      /\ op[o].prep = "PREPARED" /\ op[o].idx = 0
  BY DEF OrderInv, FieldsInv, FieldsOf, PrepareInv, HoldsLocal, HoldsPrepared, Prepared, StartStep
<1>3. FieldsInv'
  BY <1>1, <1>2 DEF OrderInv, FieldTypes, FieldsInv, FieldsOf, StartStep, ReplTo, SameTs,
         SameTerms, SameStages, SamePrep, SameIdx
<1>4. QueuedUnprepared'
  BY <1>1 DEF OrderInv, QueueInv, FieldTypes, QueuedUnprepared, PreparesAt, QueuedOp,
         Underway, Prepared, StartStep, ReplTo, SameTs, SameTerms, SameStages, SamePrep,
         SameIdx
<1>5. QueuedOnce'
  BY <1>1 DEF OrderInv, QueueInv, FieldTypes, QueuedOnce, PreparesAt, QueuedOp, StartStep,
         ReplTo, SameTs, SameTerms, SameStages, SamePrep, SameIdx
<1>6. UnpreparedQueued'
  BY <1>1 DEF OrderInv, QueueInv, FieldTypes, UnpreparedQueued, PreparesAt, QueuedOp,
         Underway, Prepared, StartStep, ReplTo, SameTs, SameTerms, SameStages, SamePrep,
         SameIdx
<1>7. HoldsPrepared'
  BY <1>1 DEF OrderInv, PrepareInv, FieldTypes, HoldsPrepared, Prepared, StartStep, ReplTo,
         SameTs, SameTerms, SameStages, SamePrep, SameIdx
<1>8. HoldsLocal'
  BY <1>1 DEF OrderInv, PrepareInv, FieldTypes, HoldsLocal, StartStep, ReplTo, SameTs,
         SameTerms, SameStages, SamePrep, SameIdx
<1>9. HoldsUnsent'
  BY <1>1, <1>2 DEF OrderInv, PrepareInv, FieldTypes, HoldsUnsent, StartStep, ReplTo,
         SameTs, SameTerms, SameStages, SamePrep, SameIdx
<1>10. HoldsDecided'
  BY <1>1 DEF OrderInv, PrepareInv, FieldTypes, HoldsDecided, OnConsensus, Underway,
         StartStep, ReplTo, SameTs, SameTerms, SameStages, SamePrep, SameIdx
<1>11. LocalHeld'
  BY <1>1, <1>2 DEF OrderInv, HeldInv, FieldTypes, LocalHeld, OnPrepare, Underway, Prepared,
         StartStep, ReplTo, SameTs, SameTerms, SameStages, SamePrep, SameIdx
<1>12. UnsentHeld'
  BY <1>1, <1>2 DEF OrderInv, HeldInv, FieldTypes, UnsentHeld, OnPrepare, StartStep, ReplTo,
         SameTs, SameTerms, SameStages, SamePrep, SameIdx
<1>13. DecidedHeld'
  BY <1>1, <1>2 DEF OrderInv, HeldInv, FieldTypes, DecidedHeld, OnPrepare, OnConsensus,
         Underway, Prepared, StartStep, ReplTo, SameTs, SameTerms, SameStages, SamePrep,
         SameIdx
<1>14. PendingAreSent'
  BY <1>1, <1>2 DEF OrderInv, PendingInv, FieldTypes, PendingAreSent, StartStep, ReplTo,
         SameTs, SameTerms, SameStages, SamePrep, SameIdx
<1>15. SentArePending'
  BY <1>1, <1>2 DEF OrderInv, PendingInv, FieldTypes, SentArePending, PendingAt, InRest,
         Rest, OnConsensus, StartStep, ReplTo, SameTs, SameTerms, SameStages, SamePrep,
         SameIdx
<1>16. FinishesSent'
  BY <1>1, <1>2 DEF OrderInv, ConsensusInv, FieldTypes, FinishesSent, StartStep, ReplTo,
         SameTs, SameTerms, SameStages, SamePrep, SameIdx
<1>17. AppliesDecided'
  BY <1>1, <1>2 DEF OrderInv, ConsensusInv, FieldTypes, AppliesDecided, Prepared, StartStep,
         ReplTo, SameTs, SameTerms, SameStages, SamePrep, SameIdx
<1>18. FinishesInOrder'
  BY <1>1 DEF OrderInv, ConsensusInv, FieldTypes, FinishesInOrder, StartStep, ReplTo,
         SameTs, SameTerms, SameStages, SamePrep, SameIdx
<1>19. RestAreSent'
  BY <1>1, <1>2 DEF OrderInv, RestInv, FieldTypes, RestAreSent, Rest, StartStep, ReplTo,
         SameTs, SameTerms, SameStages, SamePrep, SameIdx
<1>20. RestAfterFinished'
  BY <1>1 DEF OrderInv, RestInv, FieldTypes, RestAfterFinished, Rest, StartStep, ReplTo,
         SameTs, SameTerms, SameStages, SamePrep, SameIdx
<1>21. RestInOrder'
  BY <1>1 DEF OrderInv, RestInv, FieldTypes, RestInOrder, Rest, StartStep, ReplTo, SameTs,
         SameTerms, SameStages, SamePrep, SameIdx
<1>22. PrevCommitted'
  BY <1>1 DEF OrderInv, LogOrderInv, FieldTypes, PrevCommitted, StartStep, ReplTo, SameTs,
         SameTerms, SameStages, SamePrep, SameIdx
<1>23. LiveAbovePrev'
  BY <1>1, <1>2 DEF OrderInv, LogOrderInv, FieldTypes, LiveAbovePrev, Live, StartStep,
         ReplTo, SameTs, SameTerms, SameStages, SamePrep, SameIdx
<1>24. LiveDistinct'
  BY <1>1, <1>2 DEF OrderInv, LogOrderInv, FieldTypes, LiveDistinct, Live, StartStep,
         ReplTo, SameTs, SameTerms, SameStages, SamePrep, SameIdx
<1>25. QueueInOrder'
  BY <1>1, <1>2 DEF OrderInv, LogOrderInv, FieldTypes, QueueInOrder, Live, PreparesAt,
         QueuedOp, StartStep, ReplTo, SameTs, SameTerms, SameStages, SamePrep, SameIdx
<1>26. PreparedFirst'
  BY <1>1, <1>2 DEF OrderInv, LogOrderInv, FieldTypes, PreparedFirst, Live, Prepared,
         PreparesAt, QueuedOp, StartStep, ReplTo, SameTs, SameTerms, SameStages, SamePrep,
         SameIdx
<1>27. AppliesLast'
  BY <1>1, <1>2 DEF OrderInv, LogOrderInv, FieldTypes, AppliesLast, Live, Prepared,
         StartStep, ReplTo, SameTs, SameTerms, SameStages, SamePrep, SameIdx
<1>28. TermsKnown'
  BY <1>1 DEF OrderInv, TermInv, FieldTypes, TermsKnown, StartStep, ReplTo, SameTs,
         SameTerms, SameStages, SamePrep, SameIdx
<1>29. TermsGrow'
  BY <1>1 DEF OrderInv, TermInv, FieldTypes, TermsGrow, PreparesAt, QueuedOp, StartStep,
         ReplTo, SameTs, SameTerms, SameStages, SamePrep, SameIdx
<1>30. HeldTermFirst'
  BY <1>1 DEF OrderInv, TermInv, FieldTypes, HeldTermFirst, PreparesAt, QueuedOp, StartStep,
         ReplTo, SameTs, SameTerms, SameStages, SamePrep, SameIdx
<1>31. FollowedBefore'
  BY <1>1, <1>2 DEF OrderInv, TermInv, QueueInv, FieldTypes, FollowedBefore, PreparesAt,
         QueuedOp, QueuedUnprepared, Underway, Prepared, StartStep, ReplTo, SameTs,
         SameTerms, SameStages, SamePrep, SameIdx
<1>32. NoOpByLeader'
  BY <1>1 DEF OrderInv, TermInv, FieldTypes, NoOpByLeader, StartStep, ReplTo, SameTs,
         SameTerms, SameStages, SamePrep, SameIdx
<1> QED
  BY <1>3, <1>4, <1>5, <1>6, <1>7, <1>8, <1>9, <1>10, <1>11, <1>12, <1>13, <1>14, <1>15,
         <1>16, <1>17, <1>18, <1>19, <1>20, <1>21, <1>22, <1>23, <1>24, <1>25, <1>26, <1>27,
         <1>28, <1>29, <1>30, <1>31, <1>32
     DEF OrderInv, QueueInv, PrepareInv, HeldInv, PendingInv, ConsensusInv, RestInv,
            LogOrderInv, TermInv

\* Replicate(): the leader appends the op's round.
ReplicateStep(o) ==
    /\ prepare_thread.pc = "replicate" /\ prepare_thread.op = o
    /\ prepare_thread' = Idle
    /\ consensus_thread.pc = "idle"
    /\ CheckBoundTerm(o)
    /\ IdxTo(o, committed + PendingEnd)
    /\ PendingGrows(OpRound(o))
    /\ SameStages /\ SamePrep /\ SameRepl /\ SameTerms /\ SameTs
    /\ UNCHANGED <<prepare_queue, consensus_thread, prev_idx, committed, term, role>>

LEMMA ReplicateKeepsOrder ==
    ASSUME OrderInv, ReplicaTypes', NEW o \in Ops, ReplicateStep(o)
    PROVE  OrderInv'
<1>1. FieldTypes
  BY FieldTypesHold DEF OrderInv
<1>2. /\ op[o].stage = "driven" /\ op[o].repl = "REPLICATING"
      /\ op[o].prep = "PREPARED" /\ op[o].idx = 0
  BY DEF OrderInv, PrepareInv, HoldsUnsent, HoldsPrepared, Prepared, ReplicateStep
<1>3. \A x \in Ops : Live(x) => op[x].idx < committed + PendingEnd
  BY <1>1 DEF OrderInv, FieldTypes, FieldsInv, FieldsOf, PendingInv, SentArePending,
     PendingAt, InRest, Rest, OnConsensus, Live, ReplicateStep, PendingGrows
<1>4. \A i \in DOMAIN prepare_queue : PreparesAt(i) => ~Live(QueuedOp(i)) /\ QueuedOp(i) # o
  BY <1>1, <1>2 DEF OrderInv, FieldTypes, TermInv, HeldTermFirst, FollowedBefore, Live, ReplicateStep,
     CheckBoundTerm, QueueInv, QueuedUnprepared, Prepared
<1>5. FieldsInv'
  BY <1>1, <1>2 DEF OrderInv, FieldTypes, FieldsInv, FieldsOf, ReplicateStep, IdxTo, SameTs,
         SameTerms, SameStages, SamePrep, SameRepl, Idle, PendingGrows
<1>6. QueuedUnprepared'
  BY <1>1 DEF OrderInv, QueueInv, FieldTypes, QueuedUnprepared, PreparesAt, QueuedOp,
         Underway, Prepared, ReplicateStep, IdxTo, SameTs, SameTerms, SameStages, SamePrep,
         SameRepl, Idle, PendingGrows
<1>7. QueuedOnce'
  BY <1>1 DEF OrderInv, QueueInv, FieldTypes, QueuedOnce, PreparesAt, QueuedOp,
         ReplicateStep, IdxTo, SameTs, SameTerms, SameStages, SamePrep, SameRepl, Idle,
         PendingGrows
<1>8. UnpreparedQueued'
  BY <1>1 DEF OrderInv, QueueInv, FieldTypes, UnpreparedQueued, PreparesAt, QueuedOp,
         Underway, Prepared, ReplicateStep, IdxTo, SameTs, SameTerms, SameStages, SamePrep,
         SameRepl, Idle, PendingGrows
<1>9. HoldsPrepared'
  BY <1>1 DEF OrderInv, PrepareInv, FieldTypes, HoldsPrepared, Prepared, ReplicateStep,
         IdxTo, SameTs, SameTerms, SameStages, SamePrep, SameRepl, Idle, PendingGrows
<1>10. HoldsLocal'
  BY <1>1 DEF OrderInv, PrepareInv, FieldTypes, HoldsLocal, ReplicateStep, IdxTo, SameTs,
         SameTerms, SameStages, SamePrep, SameRepl, Idle, PendingGrows
<1>11. HoldsUnsent'
  BY <1>1 DEF OrderInv, PrepareInv, FieldTypes, HoldsUnsent, ReplicateStep, IdxTo, SameTs,
         SameTerms, SameStages, SamePrep, SameRepl, Idle, PendingGrows
<1>12. HoldsDecided'
  BY <1>1 DEF OrderInv, PrepareInv, FieldTypes, HoldsDecided, OnConsensus, Underway,
         ReplicateStep, IdxTo, SameTs, SameTerms, SameStages, SamePrep, SameRepl, Idle,
         PendingGrows
<1>13. LocalHeld'
  BY <1>1 DEF OrderInv, HeldInv, FieldTypes, LocalHeld, OnPrepare, Underway, Prepared,
         ReplicateStep, IdxTo, SameTs, SameTerms, SameStages, SamePrep, SameRepl, Idle,
         PendingGrows
<1>14. UnsentHeld'
  BY <1>1, <1>2 DEF OrderInv, HeldInv, FieldTypes, UnsentHeld, OnPrepare, ReplicateStep,
         IdxTo, SameTs, SameTerms, SameStages, SamePrep, SameRepl, Idle, PendingGrows
<1>15. DecidedHeld'
  BY <1>1 DEF OrderInv, HeldInv, FieldTypes, DecidedHeld, OnPrepare, OnConsensus, Underway,
         Prepared, ReplicateStep, IdxTo, SameTs, SameTerms, SameStages, SamePrep, SameRepl,
         Idle, PendingGrows
<1>16. PendingAreSent'
  BY <1>1, <1>2 DEF OrderInv, PendingInv, FieldTypes, PendingAreSent, ReplicateStep, IdxTo,
         SameTs, SameTerms, SameStages, SamePrep, SameRepl, Idle, PendingGrows, OpRound
<1>17. SentArePending'
  BY <1>1, <1>2 DEF OrderInv, PendingInv, FieldTypes, SentArePending, PendingAt, InRest,
         Rest, OnConsensus, ReplicateStep, IdxTo, SameTs, SameTerms, SameStages, SamePrep,
         SameRepl, Idle, PendingGrows, OpRound
<1>18. FinishesSent'
  BY <1>1 DEF OrderInv, ConsensusInv, FieldTypes, FinishesSent, ReplicateStep, IdxTo,
         SameTs, SameTerms, SameStages, SamePrep, SameRepl, Idle, PendingGrows
<1>19. AppliesDecided'
  BY <1>1 DEF OrderInv, ConsensusInv, FieldTypes, AppliesDecided, Prepared, ReplicateStep,
         IdxTo, SameTs, SameTerms, SameStages, SamePrep, SameRepl, Idle, PendingGrows
<1>20. FinishesInOrder'
  BY <1>1, <1>2 DEF OrderInv, ConsensusInv, FieldTypes, FinishesInOrder, FinishesSent,
         AppliesDecided, Prepared, ReplicateStep, IdxTo, SameTs, SameTerms, SameStages,
         SamePrep, SameRepl, Idle, PendingGrows
<1>21. RestAreSent'
  BY <1>1 DEF OrderInv, RestInv, FieldTypes, RestAreSent, Rest, ReplicateStep, IdxTo,
         SameTs, SameTerms, SameStages, SamePrep, SameRepl, Idle, PendingGrows
<1>22. RestAfterFinished'
  BY <1>1 DEF OrderInv, RestInv, FieldTypes, RestAfterFinished, Rest, ReplicateStep, IdxTo,
         SameTs, SameTerms, SameStages, SamePrep, SameRepl, Idle, PendingGrows
<1>23. RestInOrder'
  BY <1>1 DEF OrderInv, RestInv, FieldTypes, RestInOrder, Rest, ReplicateStep, IdxTo,
         SameTs, SameTerms, SameStages, SamePrep, SameRepl, Idle, PendingGrows
<1>24. PrevCommitted'
  BY <1>1 DEF OrderInv, LogOrderInv, FieldTypes, PrevCommitted, ReplicateStep, IdxTo,
         SameTs, SameTerms, SameStages, SamePrep, SameRepl, Idle, PendingGrows
<1>25. LiveAbovePrev'
  BY <1>1, <1>2 DEF OrderInv, LogOrderInv, FieldTypes, LiveAbovePrev, Live, PrevCommitted,
         ReplicateStep, IdxTo, SameTs, SameTerms, SameStages, SamePrep, SameRepl, Idle,
         PendingGrows
<1>26. LiveDistinct'
  BY <1>1, <1>2, <1>3 DEF OrderInv, LogOrderInv, FieldTypes, LiveDistinct, Live,
         ReplicateStep, IdxTo, SameTs, SameTerms, SameStages, SamePrep, SameRepl, Idle,
         PendingGrows
<1>27. QueueInOrder'
  BY <1>1, <1>2, <1>4 DEF OrderInv, LogOrderInv, FieldTypes, QueueInOrder, Live, PreparesAt,
         QueuedOp, ReplicateStep, IdxTo, SameTs, SameTerms, SameStages, SamePrep, SameRepl,
         Idle, PendingGrows
<1>28. PreparedFirst'
  BY <1>1, <1>2, <1>4 DEF OrderInv, LogOrderInv, FieldTypes, PreparedFirst, Live, Prepared,
         PreparesAt, QueuedOp, ReplicateStep, IdxTo, SameTs, SameTerms, SameStages,
         SamePrep, SameRepl, Idle, PendingGrows
<1>29. AppliesLast'
  BY <1>1 DEF OrderInv, LogOrderInv, FieldTypes, AppliesLast, Live, Prepared, ReplicateStep,
         IdxTo, SameTs, SameTerms, SameStages, SamePrep, SameRepl, Idle, PendingGrows
<1>30. TermsKnown'
  BY <1>1 DEF OrderInv, TermInv, FieldTypes, TermsKnown, ReplicateStep, IdxTo, SameTs,
         SameTerms, SameStages, SamePrep, SameRepl, Idle, PendingGrows
<1>31. TermsGrow'
  BY <1>1 DEF OrderInv, TermInv, FieldTypes, TermsGrow, PreparesAt, QueuedOp, ReplicateStep,
         IdxTo, SameTs, SameTerms, SameStages, SamePrep, SameRepl, Idle, PendingGrows
<1>32. HeldTermFirst'
  BY <1>1 DEF OrderInv, TermInv, FieldTypes, HeldTermFirst, PreparesAt, QueuedOp,
         ReplicateStep, IdxTo, SameTs, SameTerms, SameStages, SamePrep, SameRepl, Idle,
         PendingGrows
<1>33. FollowedBefore'
  BY <1>1 DEF OrderInv, TermInv, FieldTypes, FollowedBefore, PreparesAt, QueuedOp,
         ReplicateStep, IdxTo, SameTs, SameTerms, SameStages, SamePrep, SameRepl, Idle,
         PendingGrows
<1>34. NoOpByLeader'
  BY <1>1 DEF OrderInv, TermInv, FieldTypes, NoOpByLeader, ReplicateStep, IdxTo, SameTs,
         SameTerms, SameStages, SamePrep, SameRepl, Idle, PendingGrows
<1> QED
  BY <1>5, <1>6, <1>7, <1>8, <1>9, <1>10, <1>11, <1>12, <1>13, <1>14, <1>15, <1>16, <1>17,
         <1>18, <1>19, <1>20, <1>21, <1>22, <1>23, <1>24, <1>25, <1>26, <1>27, <1>28, <1>29,
         <1>30, <1>31, <1>32, <1>33, <1>34
     DEF OrderInv, QueueInv, PrepareInv, HeldInv, PendingInv, ConsensusInv, RestInv,
            LogOrderInv, TermInv

\* Replicate() refuses the op.
ReplicateFailStep(o) ==
    /\ prepare_thread.pc = "replicate" /\ prepare_thread.op = o
    /\ prepare_thread' = Idle
    /\ StageTo(o, "failed") /\ ReplTo(o, "REPLICATION_FAILED")
    /\ SamePrep /\ SameIdx /\ SameTerms /\ SameTs
    /\ UNCHANGED <<prepare_queue, consensus_thread, prev_idx, pending, committed, term, role>>

LEMMA ReplicateFailKeepsOrder ==
    ASSUME OrderInv, ReplicaTypes', NEW o \in Ops, ReplicateFailStep(o)
    PROVE  OrderInv'
<1>1. FieldTypes
  BY FieldTypesHold DEF OrderInv
<1>2. /\ op[o].stage = "driven" /\ op[o].repl = "REPLICATING"
      /\ op[o].prep = "PREPARED" /\ op[o].idx = 0
  BY DEF OrderInv, PrepareInv, HoldsUnsent, HoldsPrepared, Prepared, ReplicateFailStep
<1>3. FieldsInv'
  BY <1>1, <1>2 DEF OrderInv, FieldTypes, FieldsInv, FieldsOf, ReplicateFailStep, StageTo,
         ReplTo, SameTs, SameTerms, SamePrep, SameIdx, Idle
<1>4. QueuedUnprepared'
  BY <1>1, <1>2 DEF OrderInv, QueueInv, FieldTypes, QueuedUnprepared, PreparesAt, QueuedOp,
         Underway, Prepared, ReplicateFailStep, StageTo, ReplTo, SameTs, SameTerms,
         SamePrep, SameIdx, Idle
<1>5. QueuedOnce'
  BY <1>1 DEF OrderInv, QueueInv, FieldTypes, QueuedOnce, PreparesAt, QueuedOp,
         ReplicateFailStep, StageTo, ReplTo, SameTs, SameTerms, SamePrep, SameIdx, Idle
<1>6. UnpreparedQueued'
  BY <1>1, <1>2 DEF OrderInv, QueueInv, FieldTypes, UnpreparedQueued, PreparesAt, QueuedOp,
         Underway, Prepared, ReplicateFailStep, StageTo, ReplTo, SameTs, SameTerms,
         SamePrep, SameIdx, Idle
<1>7. HoldsPrepared'
  BY <1>1 DEF OrderInv, PrepareInv, FieldTypes, HoldsPrepared, Prepared, ReplicateFailStep,
         StageTo, ReplTo, SameTs, SameTerms, SamePrep, SameIdx, Idle
<1>8. HoldsLocal'
  BY <1>1 DEF OrderInv, PrepareInv, FieldTypes, HoldsLocal, ReplicateFailStep, StageTo,
         ReplTo, SameTs, SameTerms, SamePrep, SameIdx, Idle
<1>9. HoldsUnsent'
  BY <1>1 DEF OrderInv, PrepareInv, FieldTypes, HoldsUnsent, ReplicateFailStep, StageTo,
         ReplTo, SameTs, SameTerms, SamePrep, SameIdx, Idle
<1>10. HoldsDecided'
  BY <1>1 DEF OrderInv, PrepareInv, FieldTypes, HoldsDecided, OnConsensus, Underway,
         ReplicateFailStep, StageTo, ReplTo, SameTs, SameTerms, SamePrep, SameIdx, Idle
<1>11. LocalHeld'
  BY <1>1, <1>2 DEF OrderInv, HeldInv, FieldTypes, LocalHeld, OnPrepare, Underway, Prepared,
         ReplicateFailStep, StageTo, ReplTo, SameTs, SameTerms, SamePrep, SameIdx, Idle
<1>12. UnsentHeld'
  BY <1>1, <1>2 DEF OrderInv, HeldInv, FieldTypes, UnsentHeld, OnPrepare, ReplicateFailStep,
         StageTo, ReplTo, SameTs, SameTerms, SamePrep, SameIdx, Idle
<1>13. DecidedHeld'
  BY <1>1, <1>2 DEF OrderInv, HeldInv, FieldTypes, DecidedHeld, OnPrepare, OnConsensus,
         Underway, Prepared, ReplicateFailStep, StageTo, ReplTo, SameTs, SameTerms,
         SamePrep, SameIdx, Idle
<1>14. PendingAreSent'
  BY <1>1, <1>2 DEF OrderInv, PendingInv, FieldTypes, PendingAreSent, ReplicateFailStep,
         StageTo, ReplTo, SameTs, SameTerms, SamePrep, SameIdx, Idle
<1>15. SentArePending'
  BY <1>1, <1>2 DEF OrderInv, PendingInv, FieldTypes, SentArePending, PendingAt, InRest,
         Rest, OnConsensus, ReplicateFailStep, StageTo, ReplTo, SameTs, SameTerms, SamePrep,
         SameIdx, Idle
<1>16. FinishesSent'
  BY <1>1, <1>2 DEF OrderInv, ConsensusInv, FieldTypes, FinishesSent, ReplicateFailStep,
         StageTo, ReplTo, SameTs, SameTerms, SamePrep, SameIdx, Idle
<1>17. AppliesDecided'
  BY <1>1, <1>2 DEF OrderInv, ConsensusInv, FieldTypes, AppliesDecided, Prepared,
         ReplicateFailStep, StageTo, ReplTo, SameTs, SameTerms, SamePrep, SameIdx, Idle
<1>18. FinishesInOrder'
  BY <1>1, <1>2 DEF OrderInv, ConsensusInv, FieldTypes, FinishesInOrder, FinishesSent,
         AppliesDecided, Prepared, ReplicateFailStep, StageTo, ReplTo, SameTs, SameTerms,
         SamePrep, SameIdx, Idle
<1>19. RestAreSent'
  BY <1>1, <1>2 DEF OrderInv, RestInv, FieldTypes, RestAreSent, Rest, ReplicateFailStep,
         StageTo, ReplTo, SameTs, SameTerms, SamePrep, SameIdx, Idle
<1>20. RestAfterFinished'
  BY <1>1 DEF OrderInv, RestInv, FieldTypes, RestAfterFinished, Rest, ReplicateFailStep,
         StageTo, ReplTo, SameTs, SameTerms, SamePrep, SameIdx, Idle
<1>21. RestInOrder'
  BY <1>1 DEF OrderInv, RestInv, FieldTypes, RestInOrder, Rest, ReplicateFailStep, StageTo,
         ReplTo, SameTs, SameTerms, SamePrep, SameIdx, Idle
<1>22. PrevCommitted'
  BY <1>1 DEF OrderInv, LogOrderInv, FieldTypes, PrevCommitted, ReplicateFailStep, StageTo,
         ReplTo, SameTs, SameTerms, SamePrep, SameIdx, Idle
<1>23. LiveAbovePrev'
  BY <1>1, <1>2 DEF OrderInv, LogOrderInv, FieldTypes, LiveAbovePrev, Live,
         ReplicateFailStep, StageTo, ReplTo, SameTs, SameTerms, SamePrep, SameIdx, Idle
<1>24. LiveDistinct'
  BY <1>1 DEF OrderInv, LogOrderInv, FieldTypes, LiveDistinct, Live, ReplicateFailStep,
         StageTo, ReplTo, SameTs, SameTerms, SamePrep, SameIdx, Idle
<1>25. QueueInOrder'
  BY <1>1 DEF OrderInv, LogOrderInv, FieldTypes, QueueInOrder, Live, PreparesAt, QueuedOp,
         ReplicateFailStep, StageTo, ReplTo, SameTs, SameTerms, SamePrep, SameIdx, Idle
<1>26. PreparedFirst'
  BY <1>1 DEF OrderInv, LogOrderInv, FieldTypes, PreparedFirst, Live, Prepared, PreparesAt,
         QueuedOp, ReplicateFailStep, StageTo, ReplTo, SameTs, SameTerms, SamePrep, SameIdx,
         Idle
<1>27. AppliesLast'
  BY <1>1 DEF OrderInv, LogOrderInv, FieldTypes, AppliesLast, Live, Prepared,
         ReplicateFailStep, StageTo, ReplTo, SameTs, SameTerms, SamePrep, SameIdx, Idle
<1>28. TermsKnown'
  BY <1>1 DEF OrderInv, TermInv, FieldTypes, TermsKnown, ReplicateFailStep, StageTo, ReplTo,
         SameTs, SameTerms, SamePrep, SameIdx, Idle
<1>29. TermsGrow'
  BY <1>1 DEF OrderInv, TermInv, FieldTypes, TermsGrow, PreparesAt, QueuedOp,
         ReplicateFailStep, StageTo, ReplTo, SameTs, SameTerms, SamePrep, SameIdx, Idle
<1>30. HeldTermFirst'
  BY <1>1 DEF OrderInv, TermInv, FieldTypes, HeldTermFirst, PreparesAt, QueuedOp,
         ReplicateFailStep, StageTo, ReplTo, SameTs, SameTerms, SamePrep, SameIdx, Idle
<1>31. FollowedBefore'
  BY <1>1, <1>2 DEF OrderInv, TermInv, QueueInv, FieldTypes, FollowedBefore, PreparesAt,
         QueuedOp, QueuedUnprepared, Underway, Prepared, ReplicateFailStep, StageTo, ReplTo,
         SameTs, SameTerms, SamePrep, SameIdx, Idle
<1>32. NoOpByLeader'
  BY <1>1 DEF OrderInv, TermInv, FieldTypes, NoOpByLeader, ReplicateFailStep, StageTo,
         ReplTo, SameTs, SameTerms, SamePrep, SameIdx, Idle
<1> QED
  BY <1>3, <1>4, <1>5, <1>6, <1>7, <1>8, <1>9, <1>10, <1>11, <1>12, <1>13, <1>14, <1>15,
         <1>16, <1>17, <1>18, <1>19, <1>20, <1>21, <1>22, <1>23, <1>24, <1>25, <1>26, <1>27,
         <1>28, <1>29, <1>30, <1>31, <1>32
     DEF OrderInv, QueueInv, PrepareInv, HeldInv, PendingInv, ConsensusInv, RestInv,
            LogOrderInv, TermInv

\* ApplyAsync() of a replicated op on the prepare thread.
SubmitStep(o) ==
    /\ prepare_thread.pc = "apply" /\ prepare_thread.op = o
    /\ prepare_thread' = Idle
    /\ op[o].repl = "REPLICATED"
    /\ StageTo(o, "submitted") /\ prev_idx' = op[o].idx
    /\ SameRepl /\ SamePrep /\ SameIdx /\ SameTerms /\ SameTs
    /\ UNCHANGED <<prepare_queue, consensus_thread, pending, committed, term, role>>

LEMMA SubmitKeepsOrder ==
    ASSUME OrderInv, ReplicaTypes', NEW o \in Ops, SubmitStep(o)
    PROVE  OrderInv'
<1>1. FieldTypes
  BY FieldTypesHold DEF OrderInv
<1>2. /\ Underway(o) /\ op[o].prep = "PREPARED"
      /\ op[o].repl \in {"REPLICATED", "REPLICATION_FAILED"} /\ op[o].stage = "driven"
      /\ ~OnConsensus({"finish", "apply"}, o)
  BY DEF OrderInv, PrepareInv, HoldsDecided, HoldsPrepared, Prepared, SubmitStep, Underway, FieldsInv, FieldsOf
<1>3. \A x \in Ops : Live(x) /\ x # o => op[x].idx > op[o].idx
<2> SUFFICES ASSUME NEW x \in Ops, Live(x), x # o
             PROVE  op[x].idx > op[o].idx
    OBVIOUS
  <2>1. Live(o) /\ op[o].idx <= committed /\ op[o].idx # op[x].idx
    BY <1>1, <1>2 DEF OrderInv, FieldTypes, FieldsInv, FieldsOf, LogOrderInv, LiveDistinct, Live, SubmitStep
  <2>2. CASE op[x].repl = "REPLICATING"
    <3>1. op[x].idx > committed \/ op[x].idx = committed
      BY <1>1, <2>2 DEF OrderInv, FieldTypes, PendingInv, SentArePending, PendingAt, InRest,
         OnConsensus, Live, RestInv, RestAreSent, ConsensusInv, FinishesInOrder
    <3> QED
      BY <1>1, <2>1, <3>1 DEF FieldTypes
  <2>3. CASE op[x].repl = "REPLICATED" /\ Prepared(x)
    <3>1. OnConsensus({"apply"}, x)
      BY <2>3 DEF OrderInv, HeldInv, DecidedHeld, Live, Underway, OnPrepare, SubmitStep
    <3>2. op[x].idx = committed
      BY <2>3, <3>1 DEF OrderInv, ConsensusInv, FinishesInOrder, AppliesDecided, OnConsensus
    <3> QED
      BY <1>1, <2>1, <3>2 DEF FieldTypes
  <2>4. CASE op[x].repl = "REPLICATED" /\ ~Prepared(x)
    BY <1>1, <1>2, <2>1, <2>4 DEF OrderInv, FieldTypes, QueueInv, UnpreparedQueued, LogOrderInv,
       PreparedFirst, Live, Underway, Prepared
  <2> QED
    BY <2>2, <2>3, <2>4 DEF Live
<1>4. FieldsInv'
  BY <1>1, <1>2 DEF OrderInv, FieldTypes, FieldsInv, FieldsOf, SubmitStep, StageTo,
         SameRepl, SameTs, SameTerms, SamePrep, SameIdx, Idle
<1>5. QueuedUnprepared'
  BY <1>1, <1>2 DEF OrderInv, QueueInv, FieldTypes, QueuedUnprepared, PreparesAt, QueuedOp,
         Underway, Prepared, SubmitStep, StageTo, SameRepl, SameTs, SameTerms, SamePrep,
         SameIdx, Idle
<1>6. QueuedOnce'
  BY <1>1 DEF OrderInv, QueueInv, FieldTypes, QueuedOnce, PreparesAt, QueuedOp, SubmitStep,
         StageTo, SameRepl, SameTs, SameTerms, SamePrep, SameIdx, Idle
<1>7. UnpreparedQueued'
  BY <1>1 DEF OrderInv, QueueInv, FieldTypes, UnpreparedQueued, PreparesAt, QueuedOp,
         Underway, Prepared, SubmitStep, StageTo, SameRepl, SameTs, SameTerms, SamePrep,
         SameIdx, Idle
<1>8. HoldsPrepared'
  BY <1>1 DEF OrderInv, PrepareInv, FieldTypes, HoldsPrepared, Prepared, SubmitStep,
         StageTo, SameRepl, SameTs, SameTerms, SamePrep, SameIdx, Idle
<1>9. HoldsLocal'
  BY <1>1 DEF OrderInv, PrepareInv, FieldTypes, HoldsLocal, SubmitStep, StageTo, SameRepl,
         SameTs, SameTerms, SamePrep, SameIdx, Idle
<1>10. HoldsUnsent'
  BY <1>1 DEF OrderInv, PrepareInv, FieldTypes, HoldsUnsent, SubmitStep, StageTo, SameRepl,
         SameTs, SameTerms, SamePrep, SameIdx, Idle
<1>11. HoldsDecided'
  BY <1>1 DEF OrderInv, PrepareInv, FieldTypes, HoldsDecided, OnConsensus, Underway,
         SubmitStep, StageTo, SameRepl, SameTs, SameTerms, SamePrep, SameIdx, Idle
<1>12. LocalHeld'
  BY <1>1 DEF OrderInv, HeldInv, FieldTypes, LocalHeld, OnPrepare, Underway, Prepared,
         SubmitStep, StageTo, SameRepl, SameTs, SameTerms, SamePrep, SameIdx, Idle
<1>13. UnsentHeld'
  BY <1>1 DEF OrderInv, HeldInv, FieldTypes, UnsentHeld, OnPrepare, SubmitStep, StageTo,
         SameRepl, SameTs, SameTerms, SamePrep, SameIdx, Idle
<1>14. DecidedHeld'
  BY <1>1, <1>2 DEF OrderInv, HeldInv, FieldTypes, DecidedHeld, OnPrepare, OnConsensus,
         Underway, Prepared, SubmitStep, StageTo, SameRepl, SameTs, SameTerms, SamePrep,
         SameIdx, Idle
<1>15. PendingAreSent'
  BY <1>1 DEF OrderInv, PendingInv, FieldTypes, PendingAreSent, SubmitStep, StageTo,
         SameRepl, SameTs, SameTerms, SamePrep, SameIdx, Idle
<1>16. SentArePending'
  BY <1>1 DEF OrderInv, PendingInv, FieldTypes, SentArePending, PendingAt, InRest, Rest,
         OnConsensus, SubmitStep, StageTo, SameRepl, SameTs, SameTerms, SamePrep, SameIdx,
         Idle
<1>17. FinishesSent'
  BY <1>1 DEF OrderInv, ConsensusInv, FieldTypes, FinishesSent, SubmitStep, StageTo,
         SameRepl, SameTs, SameTerms, SamePrep, SameIdx, Idle
<1>18. AppliesDecided'
  BY <1>1 DEF OrderInv, ConsensusInv, FieldTypes, AppliesDecided, Prepared, SubmitStep,
         StageTo, SameRepl, SameTs, SameTerms, SamePrep, SameIdx, Idle
<1>19. FinishesInOrder'
  BY <1>1, <1>2 DEF OrderInv, ConsensusInv, FieldTypes, FinishesInOrder, SubmitStep,
         StageTo, SameRepl, SameTs, SameTerms, SamePrep, SameIdx, Idle, OnConsensus
<1>20. RestAreSent'
  BY <1>1 DEF OrderInv, RestInv, FieldTypes, RestAreSent, Rest, SubmitStep, StageTo,
         SameRepl, SameTs, SameTerms, SamePrep, SameIdx, Idle
<1>21. RestAfterFinished'
  BY <1>1 DEF OrderInv, RestInv, FieldTypes, RestAfterFinished, Rest, SubmitStep, StageTo,
         SameRepl, SameTs, SameTerms, SamePrep, SameIdx, Idle
<1>22. RestInOrder'
  BY <1>1 DEF OrderInv, RestInv, FieldTypes, RestInOrder, Rest, SubmitStep, StageTo,
         SameRepl, SameTs, SameTerms, SamePrep, SameIdx, Idle
<1>23. PrevCommitted'
  BY <1>1 DEF OrderInv, LogOrderInv, FieldTypes, PrevCommitted, FieldsInv, FieldsOf,
         SubmitStep, StageTo, SameRepl, SameTs, SameTerms, SamePrep, SameIdx, Idle
<1>24. LiveAbovePrev'
  BY <1>1, <1>2, <1>3 DEF OrderInv, LogOrderInv, FieldTypes, LiveAbovePrev, Live,
         SubmitStep, StageTo, SameRepl, SameTs, SameTerms, SamePrep, SameIdx, Idle
<1>25. LiveDistinct'
  BY <1>1 DEF OrderInv, LogOrderInv, FieldTypes, LiveDistinct, Live, SubmitStep, StageTo,
         SameRepl, SameTs, SameTerms, SamePrep, SameIdx, Idle
<1>26. QueueInOrder'
  BY <1>1 DEF OrderInv, LogOrderInv, FieldTypes, QueueInOrder, Live, PreparesAt, QueuedOp,
         SubmitStep, StageTo, SameRepl, SameTs, SameTerms, SamePrep, SameIdx, Idle
<1>27. PreparedFirst'
  BY <1>1 DEF OrderInv, LogOrderInv, FieldTypes, PreparedFirst, Live, Prepared, PreparesAt,
         QueuedOp, SubmitStep, StageTo, SameRepl, SameTs, SameTerms, SamePrep, SameIdx, Idle
<1>28. AppliesLast'
  BY <1>1 DEF OrderInv, LogOrderInv, FieldTypes, AppliesLast, Live, Prepared, SubmitStep,
         StageTo, SameRepl, SameTs, SameTerms, SamePrep, SameIdx, Idle
<1>29. TermsKnown'
  BY <1>1 DEF OrderInv, TermInv, FieldTypes, TermsKnown, SubmitStep, StageTo, SameRepl,
         SameTs, SameTerms, SamePrep, SameIdx, Idle
<1>30. TermsGrow'
  BY <1>1 DEF OrderInv, TermInv, FieldTypes, TermsGrow, PreparesAt, QueuedOp, SubmitStep,
         StageTo, SameRepl, SameTs, SameTerms, SamePrep, SameIdx, Idle
<1>31. HeldTermFirst'
  BY <1>1 DEF OrderInv, TermInv, FieldTypes, HeldTermFirst, PreparesAt, QueuedOp,
         SubmitStep, StageTo, SameRepl, SameTs, SameTerms, SamePrep, SameIdx, Idle
<1>32. FollowedBefore'
  BY <1>1 DEF OrderInv, TermInv, FieldTypes, FollowedBefore, PreparesAt, QueuedOp,
         SubmitStep, StageTo, SameRepl, SameTs, SameTerms, SamePrep, SameIdx, Idle
<1>33. NoOpByLeader'
  BY <1>1 DEF OrderInv, TermInv, FieldTypes, NoOpByLeader, SubmitStep, StageTo, SameRepl,
         SameTs, SameTerms, SamePrep, SameIdx, Idle
<1> QED
  BY <1>4, <1>5, <1>6, <1>7, <1>8, <1>9, <1>10, <1>11, <1>12, <1>13, <1>14, <1>15, <1>16,
         <1>17, <1>18, <1>19, <1>20, <1>21, <1>22, <1>23, <1>24, <1>25, <1>26, <1>27, <1>28,
         <1>29, <1>30, <1>31, <1>32, <1>33
     DEF OrderInv, QueueInv, PrepareInv, HeldInv, PendingInv, ConsensusInv, RestInv,
            LogOrderInv, TermInv

\* ApplyAsync() of an op that was not replicated, on the prepare thread.
ApplyFailStep(o) ==
    /\ prepare_thread.pc = "apply" /\ prepare_thread.op = o
    /\ prepare_thread' = Idle
    /\ op[o].repl # "REPLICATED"
    /\ StageTo(o, "failed")
    /\ SameRepl /\ SamePrep /\ SameIdx /\ SameTerms /\ SameTs
    /\ UNCHANGED <<prepare_queue, prev_idx, consensus_thread, pending, committed, term, role>>

LEMMA ApplyFailKeepsOrder ==
    ASSUME OrderInv, ReplicaTypes', NEW o \in Ops, ApplyFailStep(o)
    PROVE  OrderInv'
<1>1. FieldTypes
  BY FieldTypesHold DEF OrderInv
<1>2. /\ Underway(o) /\ op[o].prep = "PREPARED" /\ op[o].repl = "REPLICATION_FAILED"
      /\ ~OnConsensus({"finish", "apply"}, o)
  BY DEF OrderInv, PrepareInv, HoldsDecided, HoldsPrepared, Prepared, ApplyFailStep
<1>3. FieldsInv'
  BY <1>1, <1>2 DEF OrderInv, FieldTypes, FieldsInv, FieldsOf, ApplyFailStep, StageTo,
         SameRepl, SameTs, SameTerms, SamePrep, SameIdx, Idle
<1>4. QueuedUnprepared'
  BY <1>1, <1>2 DEF OrderInv, QueueInv, FieldTypes, QueuedUnprepared, PreparesAt, QueuedOp,
         Underway, Prepared, ApplyFailStep, StageTo, SameRepl, SameTs, SameTerms, SamePrep,
         SameIdx, Idle
<1>5. QueuedOnce'
  BY <1>1 DEF OrderInv, QueueInv, FieldTypes, QueuedOnce, PreparesAt, QueuedOp,
         ApplyFailStep, StageTo, SameRepl, SameTs, SameTerms, SamePrep, SameIdx, Idle
<1>6. UnpreparedQueued'
  BY <1>1 DEF OrderInv, QueueInv, FieldTypes, UnpreparedQueued, PreparesAt, QueuedOp,
         Underway, Prepared, ApplyFailStep, StageTo, SameRepl, SameTs, SameTerms, SamePrep,
         SameIdx, Idle
<1>7. HoldsPrepared'
  BY <1>1 DEF OrderInv, PrepareInv, FieldTypes, HoldsPrepared, Prepared, ApplyFailStep,
         StageTo, SameRepl, SameTs, SameTerms, SamePrep, SameIdx, Idle
<1>8. HoldsLocal'
  BY <1>1 DEF OrderInv, PrepareInv, FieldTypes, HoldsLocal, ApplyFailStep, StageTo,
         SameRepl, SameTs, SameTerms, SamePrep, SameIdx, Idle
<1>9. HoldsUnsent'
  BY <1>1 DEF OrderInv, PrepareInv, FieldTypes, HoldsUnsent, ApplyFailStep, StageTo,
         SameRepl, SameTs, SameTerms, SamePrep, SameIdx, Idle
<1>10. HoldsDecided'
  BY <1>1 DEF OrderInv, PrepareInv, FieldTypes, HoldsDecided, OnConsensus, Underway,
         ApplyFailStep, StageTo, SameRepl, SameTs, SameTerms, SamePrep, SameIdx, Idle
<1>11. LocalHeld'
  BY <1>1 DEF OrderInv, HeldInv, FieldTypes, LocalHeld, OnPrepare, Underway, Prepared,
         ApplyFailStep, StageTo, SameRepl, SameTs, SameTerms, SamePrep, SameIdx, Idle
<1>12. UnsentHeld'
  BY <1>1 DEF OrderInv, HeldInv, FieldTypes, UnsentHeld, OnPrepare, ApplyFailStep, StageTo,
         SameRepl, SameTs, SameTerms, SamePrep, SameIdx, Idle
<1>13. DecidedHeld'
  BY <1>1, <1>2 DEF OrderInv, HeldInv, FieldTypes, DecidedHeld, OnPrepare, OnConsensus,
         Underway, Prepared, ApplyFailStep, StageTo, SameRepl, SameTs, SameTerms, SamePrep,
         SameIdx, Idle
<1>14. PendingAreSent'
  BY <1>1, <1>2 DEF OrderInv, PendingInv, FieldTypes, PendingAreSent, ApplyFailStep,
         StageTo, SameRepl, SameTs, SameTerms, SamePrep, SameIdx, Idle
<1>15. SentArePending'
  BY <1>1 DEF OrderInv, PendingInv, FieldTypes, SentArePending, PendingAt, InRest, Rest,
         OnConsensus, ApplyFailStep, StageTo, SameRepl, SameTs, SameTerms, SamePrep,
         SameIdx, Idle
<1>16. FinishesSent'
  BY <1>1 DEF OrderInv, ConsensusInv, FieldTypes, FinishesSent, ApplyFailStep, StageTo,
         SameRepl, SameTs, SameTerms, SamePrep, SameIdx, Idle
<1>17. AppliesDecided'
  BY <1>1 DEF OrderInv, ConsensusInv, FieldTypes, AppliesDecided, Prepared, ApplyFailStep,
         StageTo, SameRepl, SameTs, SameTerms, SamePrep, SameIdx, Idle
<1>18. FinishesInOrder'
  BY <1>1, <1>2 DEF OrderInv, ConsensusInv, FieldTypes, FinishesInOrder, ApplyFailStep,
         StageTo, SameRepl, SameTs, SameTerms, SamePrep, SameIdx, Idle, OnConsensus
<1>19. RestAreSent'
  BY <1>1, <1>2 DEF OrderInv, RestInv, FieldTypes, RestAreSent, Rest, ApplyFailStep,
         StageTo, SameRepl, SameTs, SameTerms, SamePrep, SameIdx, Idle
<1>20. RestAfterFinished'
  BY <1>1 DEF OrderInv, RestInv, FieldTypes, RestAfterFinished, Rest, ApplyFailStep,
         StageTo, SameRepl, SameTs, SameTerms, SamePrep, SameIdx, Idle
<1>21. RestInOrder'
  BY <1>1 DEF OrderInv, RestInv, FieldTypes, RestInOrder, Rest, ApplyFailStep, StageTo,
         SameRepl, SameTs, SameTerms, SamePrep, SameIdx, Idle
<1>22. PrevCommitted'
  BY <1>1 DEF OrderInv, LogOrderInv, FieldTypes, PrevCommitted, ApplyFailStep, StageTo,
         SameRepl, SameTs, SameTerms, SamePrep, SameIdx, Idle
<1>23. LiveAbovePrev'
  BY <1>1 DEF OrderInv, LogOrderInv, FieldTypes, LiveAbovePrev, Live, ApplyFailStep,
         StageTo, SameRepl, SameTs, SameTerms, SamePrep, SameIdx, Idle
<1>24. LiveDistinct'
  BY <1>1 DEF OrderInv, LogOrderInv, FieldTypes, LiveDistinct, Live, ApplyFailStep, StageTo,
         SameRepl, SameTs, SameTerms, SamePrep, SameIdx, Idle
<1>25. QueueInOrder'
  BY <1>1 DEF OrderInv, LogOrderInv, FieldTypes, QueueInOrder, Live, PreparesAt, QueuedOp,
         ApplyFailStep, StageTo, SameRepl, SameTs, SameTerms, SamePrep, SameIdx, Idle
<1>26. PreparedFirst'
  BY <1>1 DEF OrderInv, LogOrderInv, FieldTypes, PreparedFirst, Live, Prepared, PreparesAt,
         QueuedOp, ApplyFailStep, StageTo, SameRepl, SameTs, SameTerms, SamePrep, SameIdx,
         Idle
<1>27. AppliesLast'
  BY <1>1 DEF OrderInv, LogOrderInv, FieldTypes, AppliesLast, Live, Prepared, ApplyFailStep,
         StageTo, SameRepl, SameTs, SameTerms, SamePrep, SameIdx, Idle
<1>28. TermsKnown'
  BY <1>1 DEF OrderInv, TermInv, FieldTypes, TermsKnown, ApplyFailStep, StageTo, SameRepl,
         SameTs, SameTerms, SamePrep, SameIdx, Idle
<1>29. TermsGrow'
  BY <1>1 DEF OrderInv, TermInv, FieldTypes, TermsGrow, PreparesAt, QueuedOp, ApplyFailStep,
         StageTo, SameRepl, SameTs, SameTerms, SamePrep, SameIdx, Idle
<1>30. HeldTermFirst'
  BY <1>1 DEF OrderInv, TermInv, FieldTypes, HeldTermFirst, PreparesAt, QueuedOp,
         ApplyFailStep, StageTo, SameRepl, SameTs, SameTerms, SamePrep, SameIdx, Idle
<1>31. FollowedBefore'
  BY <1>1 DEF OrderInv, TermInv, FieldTypes, FollowedBefore, PreparesAt, QueuedOp,
         ApplyFailStep, StageTo, SameRepl, SameTs, SameTerms, SamePrep, SameIdx, Idle
<1>32. NoOpByLeader'
  BY <1>1 DEF OrderInv, TermInv, FieldTypes, NoOpByLeader, ApplyFailStep, StageTo, SameRepl,
         SameTs, SameTerms, SamePrep, SameIdx, Idle
<1> QED
  BY <1>3, <1>4, <1>5, <1>6, <1>7, <1>8, <1>9, <1>10, <1>11, <1>12, <1>13, <1>14, <1>15,
         <1>16, <1>17, <1>18, <1>19, <1>20, <1>21, <1>22, <1>23, <1>24, <1>25, <1>26, <1>27,
         <1>28, <1>29, <1>30, <1>31, <1>32
     DEF OrderInv, QueueInv, PrepareInv, HeldInv, PendingInv, ConsensusInv, RestInv,
            LogOrderInv, TermInv

\* ApplyAsync() of a replicated op on the consensus thread.
FinishSubmitStep(o) ==
    /\ consensus_thread.pc = "apply" /\ consensus_thread.op = o
    /\ consensus_thread'.pc \in {"idle", "aborting"} /\ Rest' = Rest
    /\ op[o].repl = "REPLICATED"
    /\ StageTo(o, "submitted") /\ prev_idx' = op[o].idx
    /\ SameRepl /\ SamePrep /\ SameIdx /\ SameTerms /\ SameTs
    /\ UNCHANGED <<prepare_queue, prepare_thread, pending, committed, term, role>>

LEMMA FinishSubmitKeepsOrder ==
    ASSUME OrderInv, ReplicaTypes', NEW o \in Ops, FinishSubmitStep(o)
    PROVE  OrderInv'
<1>1. FieldTypes
  BY FieldTypesHold DEF OrderInv
<1>2. /\ op[o].stage = "driven" /\ op[o].prep = "PREPARED" /\ op[o].idx = committed
      /\ consensus_thread.ok
  BY DEF OrderInv, ConsensusInv, AppliesDecided, FinishesInOrder, Prepared, FinishSubmitStep
<1>3. prepare_thread.pc # "idle" => prepare_thread.op # o
  BY <1>2 DEF OrderInv, PrepareInv, HoldsLocal, HoldsUnsent, HoldsDecided, OnConsensus,
     FinishSubmitStep, ReplicaTypes, DriverTypes, OnPrepareThread, Idle
<1>4. \A x \in Ops : Live(x) /\ x # o => op[x].idx > op[o].idx
<2> SUFFICES ASSUME NEW x \in Ops, Live(x), x # o
             PROVE  op[x].idx > op[o].idx
    OBVIOUS
  <2>1. Live(o)
    BY <1>1, <1>2 DEF OrderInv, FieldTypes, FieldsInv, FieldsOf, Live, FinishSubmitStep
  <2>2. CASE op[x].repl = "REPLICATING"
    BY <1>1, <1>2, <2>2 DEF OrderInv, FieldTypes, PendingInv, SentArePending, PendingAt, InRest,
       OnConsensus, Live, RestInv, RestAreSent, FinishSubmitStep
  <2>3. CASE op[x].repl = "REPLICATED" /\ Prepared(x)
    <3>1. OnPrepare({"apply"}, x)
      BY <2>3 DEF OrderInv, HeldInv, DecidedHeld, Live, Underway, OnConsensus, FinishSubmitStep
    <3> QED
      BY <1>1, <1>2, <2>1, <3>1 DEF OrderInv, FieldTypes, LogOrderInv, AppliesLast, OnPrepare, Prepared
  <2>4. CASE op[x].repl = "REPLICATED" /\ ~Prepared(x)
    BY <1>1, <1>2, <2>1, <2>4 DEF OrderInv, FieldTypes, QueueInv, UnpreparedQueued, LogOrderInv,
       PreparedFirst, Live, Underway, Prepared
  <2> QED
    BY <2>2, <2>3, <2>4 DEF Live
<1>5. FieldsInv'
  BY <1>1, <1>2 DEF OrderInv, FieldTypes, FieldsInv, FieldsOf, FinishSubmitStep, StageTo,
         SameRepl, SameTs, SameTerms, SamePrep, SameIdx
<1>6. QueuedUnprepared'
  BY <1>1, <1>2 DEF OrderInv, QueueInv, FieldTypes, QueuedUnprepared, PreparesAt, QueuedOp,
         Underway, Prepared, FinishSubmitStep, StageTo, SameRepl, SameTs, SameTerms,
         SamePrep, SameIdx
<1>7. QueuedOnce'
  BY <1>1 DEF OrderInv, QueueInv, FieldTypes, QueuedOnce, PreparesAt, QueuedOp,
         FinishSubmitStep, StageTo, SameRepl, SameTs, SameTerms, SamePrep, SameIdx
<1>8. UnpreparedQueued'
  BY <1>1 DEF OrderInv, QueueInv, FieldTypes, UnpreparedQueued, PreparesAt, QueuedOp,
         Underway, Prepared, FinishSubmitStep, StageTo, SameRepl, SameTs, SameTerms,
         SamePrep, SameIdx
<1>9. HoldsPrepared'
  BY <1>1 DEF OrderInv, PrepareInv, FieldTypes, HoldsPrepared, Prepared, FinishSubmitStep,
         StageTo, SameRepl, SameTs, SameTerms, SamePrep, SameIdx
<1>10. HoldsLocal'
  BY <1>1, <1>3 DEF OrderInv, PrepareInv, FieldTypes, HoldsLocal, FinishSubmitStep, StageTo,
         SameRepl, SameTs, SameTerms, SamePrep, SameIdx
<1>11. HoldsUnsent'
  BY <1>1, <1>3 DEF OrderInv, PrepareInv, FieldTypes, HoldsUnsent, FinishSubmitStep,
         StageTo, SameRepl, SameTs, SameTerms, SamePrep, SameIdx
<1>12. HoldsDecided'
  BY <1>1, <1>3 DEF OrderInv, PrepareInv, FieldTypes, HoldsDecided, OnConsensus, Underway,
         FinishSubmitStep, StageTo, SameRepl, SameTs, SameTerms, SamePrep, SameIdx
<1>13. LocalHeld'
  BY <1>1 DEF OrderInv, HeldInv, FieldTypes, LocalHeld, OnPrepare, Underway, Prepared,
         FinishSubmitStep, StageTo, SameRepl, SameTs, SameTerms, SamePrep, SameIdx
<1>14. UnsentHeld'
  BY <1>1 DEF OrderInv, HeldInv, FieldTypes, UnsentHeld, OnPrepare, FinishSubmitStep,
         StageTo, SameRepl, SameTs, SameTerms, SamePrep, SameIdx
<1>15. DecidedHeld'
  BY <1>1, <1>2 DEF OrderInv, HeldInv, FieldTypes, DecidedHeld, OnPrepare, OnConsensus,
         Underway, Prepared, FinishSubmitStep, StageTo, SameRepl, SameTs, SameTerms,
         SamePrep, SameIdx
<1>16. PendingAreSent'
  BY <1>1 DEF OrderInv, PendingInv, FieldTypes, PendingAreSent, FinishSubmitStep, StageTo,
         SameRepl, SameTs, SameTerms, SamePrep, SameIdx
<1>17. SentArePending'
  BY <1>1 DEF OrderInv, PendingInv, FieldTypes, SentArePending, PendingAt, InRest,
         OnConsensus, FinishSubmitStep, StageTo, SameRepl, SameTs, SameTerms, SamePrep,
         SameIdx
<1>18. FinishesSent'
  BY <1>1 DEF OrderInv, ConsensusInv, FieldTypes, FinishesSent, FinishSubmitStep, StageTo,
         SameRepl, SameTs, SameTerms, SamePrep, SameIdx
<1>19. AppliesDecided'
  BY <1>1 DEF OrderInv, ConsensusInv, FieldTypes, AppliesDecided, Prepared,
         FinishSubmitStep, StageTo, SameRepl, SameTs, SameTerms, SamePrep, SameIdx
<1>20. FinishesInOrder'
  BY <1>1 DEF OrderInv, ConsensusInv, FieldTypes, FinishesInOrder, FinishSubmitStep,
         StageTo, SameRepl, SameTs, SameTerms, SamePrep, SameIdx
<1>21. RestAreSent'
  BY <1>1 DEF OrderInv, RestInv, FieldTypes, RestAreSent, FinishSubmitStep, StageTo,
         SameRepl, SameTs, SameTerms, SamePrep, SameIdx
<1>22. RestAfterFinished'
  BY <1>1 DEF OrderInv, RestInv, FieldTypes, RestAfterFinished, FinishSubmitStep, StageTo,
         SameRepl, SameTs, SameTerms, SamePrep, SameIdx
<1>23. RestInOrder'
  BY <1>1 DEF OrderInv, RestInv, FieldTypes, RestInOrder, FinishSubmitStep, StageTo,
         SameRepl, SameTs, SameTerms, SamePrep, SameIdx
<1>24. PrevCommitted'
  BY <1>1, <1>2 DEF OrderInv, LogOrderInv, FieldTypes, PrevCommitted, FinishSubmitStep,
         StageTo, SameRepl, SameTs, SameTerms, SamePrep, SameIdx
<1>25. LiveAbovePrev'
  BY <1>1, <1>2, <1>4 DEF OrderInv, LogOrderInv, FieldTypes, LiveAbovePrev, Live,
         FinishSubmitStep, StageTo, SameRepl, SameTs, SameTerms, SamePrep, SameIdx
<1>26. LiveDistinct'
  BY <1>1 DEF OrderInv, LogOrderInv, FieldTypes, LiveDistinct, Live, FinishSubmitStep,
         StageTo, SameRepl, SameTs, SameTerms, SamePrep, SameIdx
<1>27. QueueInOrder'
  BY <1>1 DEF OrderInv, LogOrderInv, FieldTypes, QueueInOrder, Live, PreparesAt, QueuedOp,
         FinishSubmitStep, StageTo, SameRepl, SameTs, SameTerms, SamePrep, SameIdx
<1>28. PreparedFirst'
  BY <1>1 DEF OrderInv, LogOrderInv, FieldTypes, PreparedFirst, Live, Prepared, PreparesAt,
         QueuedOp, FinishSubmitStep, StageTo, SameRepl, SameTs, SameTerms, SamePrep, SameIdx
<1>29. AppliesLast'
  BY <1>1 DEF OrderInv, LogOrderInv, FieldTypes, AppliesLast, Live, Prepared,
         FinishSubmitStep, StageTo, SameRepl, SameTs, SameTerms, SamePrep, SameIdx
<1>30. TermsKnown'
  BY <1>1 DEF OrderInv, TermInv, FieldTypes, TermsKnown, FinishSubmitStep, StageTo,
         SameRepl, SameTs, SameTerms, SamePrep, SameIdx
<1>31. TermsGrow'
  BY <1>1 DEF OrderInv, TermInv, FieldTypes, TermsGrow, PreparesAt, QueuedOp,
         FinishSubmitStep, StageTo, SameRepl, SameTs, SameTerms, SamePrep, SameIdx
<1>32. HeldTermFirst'
  BY <1>1 DEF OrderInv, TermInv, FieldTypes, HeldTermFirst, PreparesAt, QueuedOp,
         FinishSubmitStep, StageTo, SameRepl, SameTs, SameTerms, SamePrep, SameIdx
<1>33. FollowedBefore'
  BY <1>1 DEF OrderInv, TermInv, FieldTypes, FollowedBefore, PreparesAt, QueuedOp,
         FinishSubmitStep, StageTo, SameRepl, SameTs, SameTerms, SamePrep, SameIdx
<1>34. NoOpByLeader'
  BY <1>1 DEF OrderInv, TermInv, FieldTypes, NoOpByLeader, FinishSubmitStep, StageTo,
         SameRepl, SameTs, SameTerms, SamePrep, SameIdx
<1> QED
  BY <1>5, <1>6, <1>7, <1>8, <1>9, <1>10, <1>11, <1>12, <1>13, <1>14, <1>15, <1>16, <1>17,
         <1>18, <1>19, <1>20, <1>21, <1>22, <1>23, <1>24, <1>25, <1>26, <1>27, <1>28, <1>29,
         <1>30, <1>31, <1>32, <1>33, <1>34
     DEF OrderInv, QueueInv, PrepareInv, HeldInv, PendingInv, ConsensusInv, RestInv,
            LogOrderInv, TermInv

\* ApplyAsync() of an op that was not replicated, on the consensus thread.
FinishFailStep(o) ==
    /\ consensus_thread.pc = "apply" /\ consensus_thread.op = o
    /\ consensus_thread'.pc \in {"idle", "aborting"} /\ Rest' = Rest
    /\ op[o].repl # "REPLICATED"
    /\ StageTo(o, "failed")
    /\ SameRepl /\ SamePrep /\ SameIdx /\ SameTerms /\ SameTs
    /\ UNCHANGED <<prepare_queue, prepare_thread, prev_idx, pending, committed, term, role>>

LEMMA FinishFailKeepsOrder ==
    ASSUME OrderInv, ReplicaTypes', NEW o \in Ops, FinishFailStep(o)
    PROVE  OrderInv'
<1>1. FieldTypes
  BY FieldTypesHold DEF OrderInv
<1>2. op[o].prep = "PREPARED" /\ op[o].repl = "REPLICATION_FAILED"
  BY DEF OrderInv, ConsensusInv, AppliesDecided, FinishesInOrder, Prepared, FinishFailStep
<1>3. prepare_thread.pc # "idle" => prepare_thread.op # o
  BY <1>2 DEF OrderInv, PrepareInv, HoldsLocal, HoldsUnsent, HoldsDecided, OnConsensus,
     FinishFailStep, ReplicaTypes, DriverTypes, OnPrepareThread, Idle
<1>4. FieldsInv'
  BY <1>1, <1>2 DEF OrderInv, FieldTypes, FieldsInv, FieldsOf, FinishFailStep, StageTo,
         SameRepl, SameTs, SameTerms, SamePrep, SameIdx
<1>5. QueuedUnprepared'
  BY <1>1, <1>2 DEF OrderInv, QueueInv, FieldTypes, QueuedUnprepared, PreparesAt, QueuedOp,
         Underway, Prepared, FinishFailStep, StageTo, SameRepl, SameTs, SameTerms, SamePrep,
         SameIdx
<1>6. QueuedOnce'
  BY <1>1 DEF OrderInv, QueueInv, FieldTypes, QueuedOnce, PreparesAt, QueuedOp,
         FinishFailStep, StageTo, SameRepl, SameTs, SameTerms, SamePrep, SameIdx
<1>7. UnpreparedQueued'
  BY <1>1 DEF OrderInv, QueueInv, FieldTypes, UnpreparedQueued, PreparesAt, QueuedOp,
         Underway, Prepared, FinishFailStep, StageTo, SameRepl, SameTs, SameTerms, SamePrep,
         SameIdx
<1>8. HoldsPrepared'
  BY <1>1 DEF OrderInv, PrepareInv, FieldTypes, HoldsPrepared, Prepared, FinishFailStep,
         StageTo, SameRepl, SameTs, SameTerms, SamePrep, SameIdx
<1>9. HoldsLocal'
  BY <1>1, <1>3 DEF OrderInv, PrepareInv, FieldTypes, HoldsLocal, FinishFailStep, StageTo,
         SameRepl, SameTs, SameTerms, SamePrep, SameIdx
<1>10. HoldsUnsent'
  BY <1>1, <1>3 DEF OrderInv, PrepareInv, FieldTypes, HoldsUnsent, FinishFailStep, StageTo,
         SameRepl, SameTs, SameTerms, SamePrep, SameIdx
<1>11. HoldsDecided'
  BY <1>1, <1>3 DEF OrderInv, PrepareInv, FieldTypes, HoldsDecided, OnConsensus, Underway,
         FinishFailStep, StageTo, SameRepl, SameTs, SameTerms, SamePrep, SameIdx
<1>12. LocalHeld'
  BY <1>1 DEF OrderInv, HeldInv, FieldTypes, LocalHeld, OnPrepare, Underway, Prepared,
         FinishFailStep, StageTo, SameRepl, SameTs, SameTerms, SamePrep, SameIdx
<1>13. UnsentHeld'
  BY <1>1 DEF OrderInv, HeldInv, FieldTypes, UnsentHeld, OnPrepare, FinishFailStep, StageTo,
         SameRepl, SameTs, SameTerms, SamePrep, SameIdx
<1>14. DecidedHeld'
  BY <1>1, <1>2 DEF OrderInv, HeldInv, FieldTypes, DecidedHeld, OnPrepare, OnConsensus,
         Underway, Prepared, FinishFailStep, StageTo, SameRepl, SameTs, SameTerms, SamePrep,
         SameIdx
<1>15. PendingAreSent'
  BY <1>1, <1>2 DEF OrderInv, PendingInv, FieldTypes, PendingAreSent, FinishFailStep,
         StageTo, SameRepl, SameTs, SameTerms, SamePrep, SameIdx
<1>16. SentArePending'
  BY <1>1 DEF OrderInv, PendingInv, FieldTypes, SentArePending, PendingAt, InRest,
         OnConsensus, FinishFailStep, StageTo, SameRepl, SameTs, SameTerms, SamePrep,
         SameIdx
<1>17. FinishesSent'
  BY <1>1 DEF OrderInv, ConsensusInv, FieldTypes, FinishesSent, FinishFailStep, StageTo,
         SameRepl, SameTs, SameTerms, SamePrep, SameIdx
<1>18. AppliesDecided'
  BY <1>1 DEF OrderInv, ConsensusInv, FieldTypes, AppliesDecided, Prepared, FinishFailStep,
         StageTo, SameRepl, SameTs, SameTerms, SamePrep, SameIdx
<1>19. FinishesInOrder'
  BY <1>1 DEF OrderInv, ConsensusInv, FieldTypes, FinishesInOrder, FinishFailStep, StageTo,
         SameRepl, SameTs, SameTerms, SamePrep, SameIdx
<1>20. RestAreSent'
  BY <1>1, <1>2 DEF OrderInv, RestInv, FieldTypes, RestAreSent, FinishFailStep, StageTo,
         SameRepl, SameTs, SameTerms, SamePrep, SameIdx
<1>21. RestAfterFinished'
  BY <1>1 DEF OrderInv, RestInv, FieldTypes, RestAfterFinished, FinishFailStep, StageTo,
         SameRepl, SameTs, SameTerms, SamePrep, SameIdx
<1>22. RestInOrder'
  BY <1>1 DEF OrderInv, RestInv, FieldTypes, RestInOrder, FinishFailStep, StageTo, SameRepl,
         SameTs, SameTerms, SamePrep, SameIdx
<1>23. PrevCommitted'
  BY <1>1 DEF OrderInv, LogOrderInv, FieldTypes, PrevCommitted, FinishFailStep, StageTo,
         SameRepl, SameTs, SameTerms, SamePrep, SameIdx
<1>24. LiveAbovePrev'
  BY <1>1 DEF OrderInv, LogOrderInv, FieldTypes, LiveAbovePrev, Live, FinishFailStep,
         StageTo, SameRepl, SameTs, SameTerms, SamePrep, SameIdx
<1>25. LiveDistinct'
  BY <1>1 DEF OrderInv, LogOrderInv, FieldTypes, LiveDistinct, Live, FinishFailStep,
         StageTo, SameRepl, SameTs, SameTerms, SamePrep, SameIdx
<1>26. QueueInOrder'
  BY <1>1 DEF OrderInv, LogOrderInv, FieldTypes, QueueInOrder, Live, PreparesAt, QueuedOp,
         FinishFailStep, StageTo, SameRepl, SameTs, SameTerms, SamePrep, SameIdx
<1>27. PreparedFirst'
  BY <1>1 DEF OrderInv, LogOrderInv, FieldTypes, PreparedFirst, Live, Prepared, PreparesAt,
         QueuedOp, FinishFailStep, StageTo, SameRepl, SameTs, SameTerms, SamePrep, SameIdx
<1>28. AppliesLast'
  BY <1>1 DEF OrderInv, LogOrderInv, FieldTypes, AppliesLast, Live, Prepared,
         FinishFailStep, StageTo, SameRepl, SameTs, SameTerms, SamePrep, SameIdx
<1>29. TermsKnown'
  BY <1>1 DEF OrderInv, TermInv, FieldTypes, TermsKnown, FinishFailStep, StageTo, SameRepl,
         SameTs, SameTerms, SamePrep, SameIdx
<1>30. TermsGrow'
  BY <1>1 DEF OrderInv, TermInv, FieldTypes, TermsGrow, PreparesAt, QueuedOp,
         FinishFailStep, StageTo, SameRepl, SameTs, SameTerms, SamePrep, SameIdx
<1>31. HeldTermFirst'
  BY <1>1 DEF OrderInv, TermInv, FieldTypes, HeldTermFirst, PreparesAt, QueuedOp,
         FinishFailStep, StageTo, SameRepl, SameTs, SameTerms, SamePrep, SameIdx
<1>32. FollowedBefore'
  BY <1>1 DEF OrderInv, TermInv, FieldTypes, FollowedBefore, PreparesAt, QueuedOp,
         FinishFailStep, StageTo, SameRepl, SameTs, SameTerms, SamePrep, SameIdx
<1>33. NoOpByLeader'
  BY <1>1 DEF OrderInv, TermInv, FieldTypes, NoOpByLeader, FinishFailStep, StageTo,
         SameRepl, SameTs, SameTerms, SamePrep, SameIdx
<1> QED
  BY <1>4, <1>5, <1>6, <1>7, <1>8, <1>9, <1>10, <1>11, <1>12, <1>13, <1>14, <1>15, <1>16,
         <1>17, <1>18, <1>19, <1>20, <1>21, <1>22, <1>23, <1>24, <1>25, <1>26, <1>27, <1>28,
         <1>29, <1>30, <1>31, <1>32, <1>33
     DEF OrderInv, QueueInv, PrepareInv, HeldInv, PendingInv, ConsensusInv, RestInv,
            LogOrderInv, TermInv

\* A task that only moves the lower bound of MVCC leaves the queue.
LowerBoundStep ==
    /\ QueueShifts /\ ~PreparesAt(1)
    /\ UNCHANGED <<op, prepare_thread, consensus_thread, prev_idx, pending, committed, term, role>>

LEMMA LowerBoundKeepsOrder ==
    ASSUME OrderInv, ReplicaTypes', LowerBoundStep
    PROVE  OrderInv'
<1>1. FieldTypes
  BY FieldTypesHold DEF OrderInv
<1>2. FieldsInv'
  BY <1>1 DEF OrderInv, FieldTypes, FieldsInv, FieldsOf, LowerBoundStep, QueueShifts
<1>3. QueuedUnprepared'
  BY <1>1 DEF OrderInv, QueueInv, FieldTypes, QueuedUnprepared, Underway, Prepared,
         LowerBoundStep, QueueShifts
<1>4. QueuedOnce'
  BY <1>1 DEF OrderInv, QueueInv, FieldTypes, QueuedOnce, LowerBoundStep, QueueShifts
<1>5. UnpreparedQueued'
  BY <1>1 DEF OrderInv, QueueInv, FieldTypes, UnpreparedQueued, Underway, Prepared,
         LowerBoundStep, QueueShifts
<1>6. HoldsPrepared'
  BY <1>1 DEF OrderInv, PrepareInv, FieldTypes, HoldsPrepared, Prepared, LowerBoundStep,
         QueueShifts
<1>7. HoldsLocal'
  BY <1>1 DEF OrderInv, PrepareInv, FieldTypes, HoldsLocal, LowerBoundStep, QueueShifts
<1>8. HoldsUnsent'
  BY <1>1 DEF OrderInv, PrepareInv, FieldTypes, HoldsUnsent, LowerBoundStep, QueueShifts
<1>9. HoldsDecided'
  BY <1>1 DEF OrderInv, PrepareInv, FieldTypes, HoldsDecided, OnConsensus, Underway,
         LowerBoundStep, QueueShifts
<1>10. LocalHeld'
  BY <1>1 DEF OrderInv, HeldInv, FieldTypes, LocalHeld, OnPrepare, Underway, Prepared,
         LowerBoundStep, QueueShifts
<1>11. UnsentHeld'
  BY <1>1 DEF OrderInv, HeldInv, FieldTypes, UnsentHeld, OnPrepare, LowerBoundStep,
         QueueShifts
<1>12. DecidedHeld'
  BY <1>1 DEF OrderInv, HeldInv, FieldTypes, DecidedHeld, OnPrepare, OnConsensus, Underway,
         Prepared, LowerBoundStep, QueueShifts
<1>13. PendingAreSent'
  BY <1>1 DEF OrderInv, PendingInv, FieldTypes, PendingAreSent, LowerBoundStep, QueueShifts
<1>14. SentArePending'
  BY <1>1 DEF OrderInv, PendingInv, FieldTypes, SentArePending, PendingAt, InRest, Rest,
         OnConsensus, LowerBoundStep, QueueShifts
<1>15. FinishesSent'
  BY <1>1 DEF OrderInv, ConsensusInv, FieldTypes, FinishesSent, LowerBoundStep, QueueShifts
<1>16. AppliesDecided'
  BY <1>1 DEF OrderInv, ConsensusInv, FieldTypes, AppliesDecided, Prepared, LowerBoundStep,
         QueueShifts
<1>17. FinishesInOrder'
  BY <1>1 DEF OrderInv, ConsensusInv, FieldTypes, FinishesInOrder, LowerBoundStep,
         QueueShifts
<1>18. RestAreSent'
  BY <1>1 DEF OrderInv, RestInv, FieldTypes, RestAreSent, Rest, LowerBoundStep, QueueShifts
<1>19. RestAfterFinished'
  BY <1>1 DEF OrderInv, RestInv, FieldTypes, RestAfterFinished, Rest, LowerBoundStep,
         QueueShifts
<1>20. RestInOrder'
  BY <1>1 DEF OrderInv, RestInv, FieldTypes, RestInOrder, Rest, LowerBoundStep, QueueShifts
<1>21. PrevCommitted'
  BY <1>1 DEF OrderInv, LogOrderInv, FieldTypes, PrevCommitted, LowerBoundStep, QueueShifts
<1>22. LiveAbovePrev'
  BY <1>1 DEF OrderInv, LogOrderInv, FieldTypes, LiveAbovePrev, Live, LowerBoundStep,
         QueueShifts
<1>23. LiveDistinct'
  BY <1>1 DEF OrderInv, LogOrderInv, FieldTypes, LiveDistinct, Live, LowerBoundStep,
         QueueShifts
<1>24. QueueInOrder'
  BY <1>1 DEF OrderInv, LogOrderInv, FieldTypes, QueueInOrder, Live, LowerBoundStep,
         QueueShifts
<1>25. PreparedFirst'
  BY <1>1 DEF OrderInv, LogOrderInv, FieldTypes, PreparedFirst, Live, Prepared,
         LowerBoundStep, QueueShifts
<1>26. AppliesLast'
  BY <1>1 DEF OrderInv, LogOrderInv, FieldTypes, AppliesLast, Live, Prepared,
         LowerBoundStep, QueueShifts
<1>27. TermsKnown'
  BY <1>1 DEF OrderInv, TermInv, FieldTypes, TermsKnown, LowerBoundStep, QueueShifts
<1>28. TermsGrow'
  BY <1>1 DEF OrderInv, TermInv, FieldTypes, TermsGrow, LowerBoundStep, QueueShifts
<1>29. HeldTermFirst'
  BY <1>1 DEF OrderInv, TermInv, FieldTypes, HeldTermFirst, LowerBoundStep, QueueShifts
<1>30. FollowedBefore'
  BY <1>1 DEF OrderInv, TermInv, FieldTypes, FollowedBefore, LowerBoundStep, QueueShifts
<1>31. NoOpByLeader'
  BY <1>1 DEF OrderInv, TermInv, FieldTypes, NoOpByLeader, LowerBoundStep, QueueShifts
<1> QED
  BY <1>2, <1>3, <1>4, <1>5, <1>6, <1>7, <1>8, <1>9, <1>10, <1>11, <1>12, <1>13, <1>14,
         <1>15, <1>16, <1>17, <1>18, <1>19, <1>20, <1>21, <1>22, <1>23, <1>24, <1>25, <1>26,
         <1>27, <1>28, <1>29, <1>30, <1>31
     DEF OrderInv, QueueInv, PrepareInv, HeldInv, PendingInv, ConsensusInv, RestInv,
            LogOrderInv, TermInv

\* A step of the apply pool.
PoolStep(o) ==
    /\ op[o].stage \in {"submitted", "applying"}
    /\ op'[o].stage \in {"applying", "applied"}
    /\ \A x \in Ops : x # o => op'[x].stage = op[x].stage
    /\ SameRepl /\ SamePrep /\ SameIdx /\ SameTerms /\ SameTs
    /\ UNCHANGED <<prepare_queue, prepare_thread, consensus_thread, prev_idx, pending, committed,
                   term, role>>

LEMMA PoolKeepsOrder ==
    ASSUME OrderInv, ReplicaTypes', NEW o \in Ops, PoolStep(o)
    PROVE  OrderInv'
<1>1. FieldTypes
  BY FieldTypesHold DEF OrderInv
<1>2. FieldsInv'
  BY <1>1 DEF OrderInv, FieldTypes, FieldsInv, FieldsOf, PoolStep, SameRepl, SamePrep,
         SameIdx, SameTerms, SameTs
<1>3. QueuedUnprepared'
  BY <1>1 DEF OrderInv, QueueInv, FieldTypes, QueuedUnprepared, PreparesAt, QueuedOp,
         Underway, Prepared, PoolStep, SameRepl, SamePrep, SameIdx, SameTerms, SameTs
<1>4. QueuedOnce'
  BY <1>1 DEF OrderInv, QueueInv, FieldTypes, QueuedOnce, PreparesAt, QueuedOp, PoolStep,
         SameRepl, SamePrep, SameIdx, SameTerms, SameTs
<1>5. UnpreparedQueued'
  BY <1>1 DEF OrderInv, QueueInv, FieldTypes, UnpreparedQueued, PreparesAt, QueuedOp,
         Underway, Prepared, PoolStep, SameRepl, SamePrep, SameIdx, SameTerms, SameTs
<1>6. HoldsPrepared'
  BY <1>1 DEF OrderInv, PrepareInv, FieldTypes, HoldsPrepared, Prepared, PoolStep, SameRepl,
         SamePrep, SameIdx, SameTerms, SameTs
<1>7. HoldsLocal'
  BY <1>1 DEF OrderInv, PrepareInv, FieldTypes, HoldsLocal, PoolStep, SameRepl, SamePrep,
         SameIdx, SameTerms, SameTs
<1>8. HoldsUnsent'
  BY <1>1 DEF OrderInv, PrepareInv, FieldTypes, HoldsUnsent, PoolStep, SameRepl, SamePrep,
         SameIdx, SameTerms, SameTs
<1>9. HoldsDecided'
  BY <1>1 DEF OrderInv, PrepareInv, FieldTypes, HoldsDecided, OnConsensus, Underway,
         PoolStep, SameRepl, SamePrep, SameIdx, SameTerms, SameTs
<1>10. LocalHeld'
  BY <1>1 DEF OrderInv, HeldInv, FieldTypes, LocalHeld, OnPrepare, Underway, Prepared,
         PoolStep, SameRepl, SamePrep, SameIdx, SameTerms, SameTs
<1>11. UnsentHeld'
  BY <1>1 DEF OrderInv, HeldInv, FieldTypes, UnsentHeld, OnPrepare, PoolStep, SameRepl,
         SamePrep, SameIdx, SameTerms, SameTs
<1>12. DecidedHeld'
  BY <1>1 DEF OrderInv, HeldInv, FieldTypes, DecidedHeld, OnPrepare, OnConsensus, Underway,
         Prepared, PoolStep, SameRepl, SamePrep, SameIdx, SameTerms, SameTs
<1>13. PendingAreSent'
  BY <1>1 DEF OrderInv, PendingInv, FieldTypes, PendingAreSent, PoolStep, SameRepl,
         SamePrep, SameIdx, SameTerms, SameTs
<1>14. SentArePending'
  BY <1>1 DEF OrderInv, PendingInv, FieldTypes, SentArePending, PendingAt, InRest, Rest,
         OnConsensus, PoolStep, SameRepl, SamePrep, SameIdx, SameTerms, SameTs
<1>15. FinishesSent'
  BY <1>1 DEF OrderInv, ConsensusInv, FieldTypes, FinishesSent, PoolStep, SameRepl,
         SamePrep, SameIdx, SameTerms, SameTs
<1>16. AppliesDecided'
  BY <1>1 DEF OrderInv, ConsensusInv, FieldTypes, AppliesDecided, Prepared, PoolStep,
         SameRepl, SamePrep, SameIdx, SameTerms, SameTs
<1>17. FinishesInOrder'
  BY <1>1 DEF OrderInv, ConsensusInv, FieldTypes, FinishesInOrder, PoolStep, SameRepl,
         SamePrep, SameIdx, SameTerms, SameTs
<1>18. RestAreSent'
  BY <1>1 DEF OrderInv, RestInv, FieldTypes, RestAreSent, Rest, PoolStep, SameRepl,
         SamePrep, SameIdx, SameTerms, SameTs
<1>19. RestAfterFinished'
  BY <1>1 DEF OrderInv, RestInv, FieldTypes, RestAfterFinished, Rest, PoolStep, SameRepl,
         SamePrep, SameIdx, SameTerms, SameTs
<1>20. RestInOrder'
  BY <1>1 DEF OrderInv, RestInv, FieldTypes, RestInOrder, Rest, PoolStep, SameRepl,
         SamePrep, SameIdx, SameTerms, SameTs
<1>21. PrevCommitted'
  BY <1>1 DEF OrderInv, LogOrderInv, FieldTypes, PrevCommitted, PoolStep, SameRepl,
         SamePrep, SameIdx, SameTerms, SameTs
<1>22. LiveAbovePrev'
  BY <1>1 DEF OrderInv, LogOrderInv, FieldTypes, LiveAbovePrev, Live, PoolStep, SameRepl,
         SamePrep, SameIdx, SameTerms, SameTs
<1>23. LiveDistinct'
  BY <1>1 DEF OrderInv, LogOrderInv, FieldTypes, LiveDistinct, Live, PoolStep, SameRepl,
         SamePrep, SameIdx, SameTerms, SameTs
<1>24. QueueInOrder'
  BY <1>1 DEF OrderInv, LogOrderInv, FieldTypes, QueueInOrder, Live, PreparesAt, QueuedOp,
         PoolStep, SameRepl, SamePrep, SameIdx, SameTerms, SameTs
<1>25. PreparedFirst'
  BY <1>1 DEF OrderInv, LogOrderInv, FieldTypes, PreparedFirst, Live, Prepared, PreparesAt,
         QueuedOp, PoolStep, SameRepl, SamePrep, SameIdx, SameTerms, SameTs
<1>26. AppliesLast'
  BY <1>1 DEF OrderInv, LogOrderInv, FieldTypes, AppliesLast, Live, Prepared, PoolStep,
         SameRepl, SamePrep, SameIdx, SameTerms, SameTs
<1>27. TermsKnown'
  BY <1>1 DEF OrderInv, TermInv, FieldTypes, TermsKnown, PoolStep, SameRepl, SamePrep,
         SameIdx, SameTerms, SameTs
<1>28. TermsGrow'
  BY <1>1 DEF OrderInv, TermInv, FieldTypes, TermsGrow, PreparesAt, QueuedOp, PoolStep,
         SameRepl, SamePrep, SameIdx, SameTerms, SameTs
<1>29. HeldTermFirst'
  BY <1>1 DEF OrderInv, TermInv, FieldTypes, HeldTermFirst, PreparesAt, QueuedOp, PoolStep,
         SameRepl, SamePrep, SameIdx, SameTerms, SameTs
<1>30. FollowedBefore'
  BY <1>1 DEF OrderInv, TermInv, FieldTypes, FollowedBefore, PreparesAt, QueuedOp, PoolStep,
         SameRepl, SamePrep, SameIdx, SameTerms, SameTs
<1>31. NoOpByLeader'
  BY <1>1 DEF OrderInv, TermInv, FieldTypes, NoOpByLeader, PoolStep, SameRepl, SamePrep,
         SameIdx, SameTerms, SameTs
<1> QED
  BY <1>2, <1>3, <1>4, <1>5, <1>6, <1>7, <1>8, <1>9, <1>10, <1>11, <1>12, <1>13, <1>14,
         <1>15, <1>16, <1>17, <1>18, <1>19, <1>20, <1>21, <1>22, <1>23, <1>24, <1>25, <1>26,
         <1>27, <1>28, <1>29, <1>30, <1>31
     DEF OrderInv, QueueInv, PrepareInv, HeldInv, PendingInv, ConsensusInv, RestInv,
            LogOrderInv, TermInv

\* The first pending round is an op's, and is committed.
CommitOpStep(o) ==
    /\ consensus_thread.pc = "idle"
    /\ pending[1].kind = "OP" /\ pending[1].op = o
    /\ PendingShifts
    /\ committed' = committed + 1
    /\ consensus_thread' = [pc |-> "finish", op |-> o, ok |-> TRUE, rest |-> <<>>]
    /\ UNCHANGED <<op, prepare_queue, prepare_thread, prev_idx, term, role>>

LEMMA CommitOpKeepsOrder ==
    ASSUME OrderInv, ReplicaTypes', NEW o \in Ops, CommitOpStep(o)
    PROVE  OrderInv'
<1>1. FieldTypes
  BY FieldTypesHold DEF OrderInv
<1>2. op[o].repl = "REPLICATING" /\ op[o].stage = "driven" /\ op[o].idx = committed + 1
  BY <1>1 DEF OrderInv, FieldTypes, PendingInv, PendingAreSent, PendingShifts, CommitOpStep
<1>3. FieldsInv'
  BY <1>1 DEF OrderInv, FieldTypes, FieldsInv, FieldsOf, CommitOpStep, PendingShifts
<1>4. QueuedUnprepared'
  BY <1>1 DEF OrderInv, QueueInv, FieldTypes, QueuedUnprepared, PreparesAt, QueuedOp,
         Underway, Prepared, CommitOpStep, PendingShifts
<1>5. QueuedOnce'
  BY <1>1 DEF OrderInv, QueueInv, FieldTypes, QueuedOnce, PreparesAt, QueuedOp,
         CommitOpStep, PendingShifts
<1>6. UnpreparedQueued'
  BY <1>1 DEF OrderInv, QueueInv, FieldTypes, UnpreparedQueued, PreparesAt, QueuedOp,
         Underway, Prepared, CommitOpStep, PendingShifts
<1>7. HoldsPrepared'
  BY <1>1 DEF OrderInv, PrepareInv, FieldTypes, HoldsPrepared, Prepared, CommitOpStep,
         PendingShifts
<1>8. HoldsLocal'
  BY <1>1 DEF OrderInv, PrepareInv, FieldTypes, HoldsLocal, CommitOpStep, PendingShifts
<1>9. HoldsUnsent'
  BY <1>1 DEF OrderInv, PrepareInv, FieldTypes, HoldsUnsent, CommitOpStep, PendingShifts
<1>10. HoldsDecided'
  BY <1>1, <1>2 DEF OrderInv, PrepareInv, FieldTypes, HoldsDecided, OnConsensus, Underway,
         CommitOpStep, PendingShifts
<1>11. LocalHeld'
  BY <1>1 DEF OrderInv, HeldInv, FieldTypes, LocalHeld, OnPrepare, Underway, Prepared,
         CommitOpStep, PendingShifts
<1>12. UnsentHeld'
  BY <1>1 DEF OrderInv, HeldInv, FieldTypes, UnsentHeld, OnPrepare, CommitOpStep,
         PendingShifts
<1>13. DecidedHeld'
  BY <1>1 DEF OrderInv, HeldInv, FieldTypes, DecidedHeld, OnPrepare, OnConsensus, Underway,
         Prepared, CommitOpStep, PendingShifts
<1>14. PendingAreSent'
  BY <1>1 DEF OrderInv, PendingInv, FieldTypes, PendingAreSent, CommitOpStep, PendingShifts
<1>15. SentArePending'
  <2> SUFFICES ASSUME NEW x \in Ops, op[x].repl = "REPLICATING", op[x].idx # 0
               PROVE  PendingAt(x)' \/ OnConsensus({"finish"}, x)'
    BY DEF SentArePending, CommitOpStep
  <2> DEFINE n == op[x].idx - committed
  <2>1. n \in DOMAIN pending /\ pending[n].kind = "OP" /\ pending[n].op = x
    BY DEF OrderInv, PendingInv, SentArePending, PendingAt, InRest, Rest, OnConsensus, CommitOpStep
  <2>2. CASE n = 1
    BY <2>1, <2>2 DEF OnConsensus, CommitOpStep
  <2>3. CASE n # 1
    <3>1. n - 1 \in DOMAIN pending' /\ pending'[n - 1] = pending[n]
      BY <2>1, <2>3 DEF CommitOpStep, PendingShifts
    <3>2. n - 1 = op'[x].idx - committed'
      BY <1>1 DEF CommitOpStep, FieldTypes
    <3> QED
      BY <2>1, <3>1, <3>2 DEF PendingAt, CommitOpStep
  <2> QED
    BY <2>2, <2>3
<1>16. FinishesSent'
  BY <1>1, <1>2 DEF OrderInv, ConsensusInv, FieldTypes, FinishesSent, CommitOpStep,
         PendingShifts
<1>17. AppliesDecided'
  BY <1>1 DEF OrderInv, ConsensusInv, FieldTypes, AppliesDecided, Prepared, CommitOpStep,
         PendingShifts
<1>18. FinishesInOrder'
  BY <1>1, <1>2 DEF OrderInv, ConsensusInv, FieldTypes, FinishesInOrder, CommitOpStep,
         PendingShifts
<1>19. RestAreSent'
  BY <1>1 DEF OrderInv, RestInv, FieldTypes, RestAreSent, Rest, CommitOpStep, PendingShifts
<1>20. RestAfterFinished'
  BY <1>1 DEF OrderInv, RestInv, FieldTypes, RestAfterFinished, Rest, CommitOpStep,
         PendingShifts
<1>21. RestInOrder'
  BY <1>1 DEF OrderInv, RestInv, FieldTypes, RestInOrder, Rest, CommitOpStep, PendingShifts
<1>22. PrevCommitted'
  BY <1>1 DEF OrderInv, LogOrderInv, FieldTypes, PrevCommitted, CommitOpStep, PendingShifts
<1>23. LiveAbovePrev'
  BY <1>1 DEF OrderInv, LogOrderInv, FieldTypes, LiveAbovePrev, Live, CommitOpStep,
         PendingShifts
<1>24. LiveDistinct'
  BY <1>1 DEF OrderInv, LogOrderInv, FieldTypes, LiveDistinct, Live, CommitOpStep,
         PendingShifts
<1>25. QueueInOrder'
  BY <1>1 DEF OrderInv, LogOrderInv, FieldTypes, QueueInOrder, Live, PreparesAt, QueuedOp,
         CommitOpStep, PendingShifts
<1>26. PreparedFirst'
  BY <1>1 DEF OrderInv, LogOrderInv, FieldTypes, PreparedFirst, Live, Prepared, PreparesAt,
         QueuedOp, CommitOpStep, PendingShifts
<1>27. AppliesLast'
  BY <1>1 DEF OrderInv, LogOrderInv, FieldTypes, AppliesLast, Live, Prepared, CommitOpStep,
         PendingShifts
<1>28. TermsKnown'
  BY <1>1 DEF OrderInv, TermInv, FieldTypes, TermsKnown, CommitOpStep, PendingShifts
<1>29. TermsGrow'
  BY <1>1 DEF OrderInv, TermInv, FieldTypes, TermsGrow, PreparesAt, QueuedOp, CommitOpStep,
         PendingShifts
<1>30. HeldTermFirst'
  BY <1>1 DEF OrderInv, TermInv, FieldTypes, HeldTermFirst, PreparesAt, QueuedOp,
         CommitOpStep, PendingShifts
<1>31. FollowedBefore'
  BY <1>1 DEF OrderInv, TermInv, FieldTypes, FollowedBefore, PreparesAt, QueuedOp,
         CommitOpStep, PendingShifts
<1>32. NoOpByLeader'
  BY <1>1 DEF OrderInv, TermInv, FieldTypes, NoOpByLeader, CommitOpStep, PendingShifts
<1> QED
  BY <1>3, <1>4, <1>5, <1>6, <1>7, <1>8, <1>9, <1>10, <1>11, <1>12, <1>13, <1>14, <1>15,
         <1>16, <1>17, <1>18, <1>19, <1>20, <1>21, <1>22, <1>23, <1>24, <1>25, <1>26, <1>27,
         <1>28, <1>29, <1>30, <1>31, <1>32
     DEF OrderInv, QueueInv, PrepareInv, HeldInv, PendingInv, ConsensusInv, RestInv,
            LogOrderInv, TermInv

\* The first pending round is not an op's, and is committed.
CommitOtherStep ==
    /\ NotAtRound
    /\ pending[1].kind # "OP"
    /\ PendingShifts
    /\ committed' = committed + 1
    /\ \A i \in DOMAIN prepare_queue :
          /\ i \in DOMAIN prepare_queue'
          /\ PreparesAt(i)' <=> PreparesAt(i)
          /\ QueuedOp(i)' = QueuedOp(i)
    /\ \A i \in DOMAIN prepare_queue' : i \notin DOMAIN prepare_queue => ~PreparesAt(i)'
    /\ UNCHANGED <<op, prepare_thread, consensus_thread, prev_idx, term, role>>

LEMMA CommitOtherKeepsOrder ==
    ASSUME OrderInv, ReplicaTypes', CommitOtherStep
    PROVE  OrderInv'
<1>1. FieldTypes
  BY FieldTypesHold DEF OrderInv
<1>2. FieldsInv'
  BY <1>1 DEF OrderInv, FieldTypes, FieldsInv, FieldsOf, CommitOtherStep, PendingShifts
<1>3. QueuedUnprepared'
  BY <1>1 DEF OrderInv, QueueInv, FieldTypes, QueuedUnprepared, Underway, Prepared,
         CommitOtherStep, PendingShifts
<1>4. QueuedOnce'
  BY <1>1 DEF OrderInv, QueueInv, FieldTypes, QueuedOnce, CommitOtherStep, PendingShifts
<1>5. UnpreparedQueued'
  BY <1>1 DEF OrderInv, QueueInv, FieldTypes, UnpreparedQueued, Underway, Prepared,
         CommitOtherStep, PendingShifts
<1>6. HoldsPrepared'
  BY <1>1 DEF OrderInv, PrepareInv, FieldTypes, HoldsPrepared, Prepared, CommitOtherStep,
         PendingShifts
<1>7. HoldsLocal'
  BY <1>1 DEF OrderInv, PrepareInv, FieldTypes, HoldsLocal, CommitOtherStep, PendingShifts
<1>8. HoldsUnsent'
  BY <1>1 DEF OrderInv, PrepareInv, FieldTypes, HoldsUnsent, CommitOtherStep, PendingShifts
<1>9. HoldsDecided'
  BY <1>1 DEF OrderInv, PrepareInv, FieldTypes, HoldsDecided, OnConsensus, Underway,
         CommitOtherStep, PendingShifts
<1>10. LocalHeld'
  BY <1>1 DEF OrderInv, HeldInv, FieldTypes, LocalHeld, OnPrepare, Underway, Prepared,
         CommitOtherStep, PendingShifts
<1>11. UnsentHeld'
  BY <1>1 DEF OrderInv, HeldInv, FieldTypes, UnsentHeld, OnPrepare, CommitOtherStep,
         PendingShifts
<1>12. DecidedHeld'
  BY <1>1 DEF OrderInv, HeldInv, FieldTypes, DecidedHeld, OnPrepare, OnConsensus, Underway,
         Prepared, CommitOtherStep, PendingShifts
<1>13. PendingAreSent'
  BY <1>1 DEF OrderInv, PendingInv, FieldTypes, PendingAreSent, CommitOtherStep,
         PendingShifts
<1>14. SentArePending'
  BY <1>1 DEF OrderInv, PendingInv, FieldTypes, SentArePending, PendingAt, InRest, Rest,
         OnConsensus, CommitOtherStep, PendingShifts
<1>15. FinishesSent'
  BY <1>1 DEF OrderInv, ConsensusInv, FieldTypes, FinishesSent, CommitOtherStep,
         PendingShifts
<1>16. AppliesDecided'
  BY <1>1 DEF OrderInv, ConsensusInv, FieldTypes, AppliesDecided, Prepared, CommitOtherStep,
         PendingShifts
<1>17. FinishesInOrder'
  BY <1>1 DEF OrderInv, ConsensusInv, FieldTypes, FinishesInOrder, CommitOtherStep,
         PendingShifts, NotAtRound
<1>18. RestAreSent'
  BY <1>1 DEF OrderInv, RestInv, FieldTypes, RestAreSent, Rest, CommitOtherStep,
         PendingShifts, NotAtRound
<1>19. RestAfterFinished'
  BY <1>1 DEF OrderInv, RestInv, FieldTypes, RestAfterFinished, Rest, CommitOtherStep,
         PendingShifts
<1>20. RestInOrder'
  BY <1>1 DEF OrderInv, RestInv, FieldTypes, RestInOrder, Rest, CommitOtherStep,
         PendingShifts
<1>21. PrevCommitted'
  BY <1>1 DEF OrderInv, LogOrderInv, FieldTypes, PrevCommitted, CommitOtherStep,
         PendingShifts
<1>22. LiveAbovePrev'
  BY <1>1 DEF OrderInv, LogOrderInv, FieldTypes, LiveAbovePrev, Live, CommitOtherStep,
         PendingShifts
<1>23. LiveDistinct'
  BY <1>1 DEF OrderInv, LogOrderInv, FieldTypes, LiveDistinct, Live, CommitOtherStep,
         PendingShifts
<1>24. QueueInOrder'
  BY <1>1 DEF OrderInv, LogOrderInv, FieldTypes, QueueInOrder, Live, CommitOtherStep,
         PendingShifts
<1>25. PreparedFirst'
  BY <1>1 DEF OrderInv, LogOrderInv, FieldTypes, PreparedFirst, Live, Prepared,
         CommitOtherStep, PendingShifts
<1>26. AppliesLast'
  BY <1>1 DEF OrderInv, LogOrderInv, FieldTypes, AppliesLast, Live, Prepared,
         CommitOtherStep, PendingShifts
<1>27. TermsKnown'
  BY <1>1 DEF OrderInv, TermInv, FieldTypes, TermsKnown, CommitOtherStep, PendingShifts
<1>28. TermsGrow'
  BY <1>1 DEF OrderInv, TermInv, FieldTypes, TermsGrow, CommitOtherStep, PendingShifts
<1>29. HeldTermFirst'
  BY <1>1 DEF OrderInv, TermInv, FieldTypes, HeldTermFirst, CommitOtherStep, PendingShifts
<1>30. FollowedBefore'
  BY <1>1 DEF OrderInv, TermInv, FieldTypes, FollowedBefore, CommitOtherStep, PendingShifts
<1>31. NoOpByLeader'
  BY <1>1 DEF OrderInv, TermInv, FieldTypes, NoOpByLeader, CommitOtherStep, PendingShifts
<1> QED
  BY <1>2, <1>3, <1>4, <1>5, <1>6, <1>7, <1>8, <1>9, <1>10, <1>11, <1>12, <1>13, <1>14,
         <1>15, <1>16, <1>17, <1>18, <1>19, <1>20, <1>21, <1>22, <1>23, <1>24, <1>25, <1>26,
         <1>27, <1>28, <1>29, <1>30, <1>31
     DEF OrderInv, QueueInv, PrepareInv, HeldInv, PendingInv, ConsensusInv, RestInv,
            LogOrderInv, TermInv

\* AbortOpsAfter(): the pending rounds from the k-th on are to be aborted.
AbortAfterStep(k) ==
    /\ consensus_thread.pc = "idle" /\ consensus_thread'.pc = "aborting"
    /\ \A i \in DOMAIN Rest' : i \in Nat /\ i + k \in DOMAIN pending /\ Rest'[i] = pending[i + k]
    /\ \A i \in DOMAIN pending' : /\ i \in DOMAIN pending /\ pending'[i] = pending[i]
                                  /\ \A j \in DOMAIN Rest' : i < j + k
    /\ \A i \in DOMAIN pending :
          i \in DOMAIN pending' \/ (i - k \in DOMAIN Rest' /\ Rest'[i - k] = pending[i])
    /\ UNCHANGED <<op, prepare_queue, prepare_thread, prev_idx, committed, term, role>>

LEMMA AbortAfterKeepsOrder ==
    ASSUME OrderInv, ReplicaTypes', NEW k \in Nat, AbortAfterStep(k)
    PROVE  OrderInv'
<1>1. FieldTypes
  BY FieldTypesHold DEF OrderInv
<1>2. Rest = <<>>
  BY DEF Rest, AbortAfterStep
<1>3. FieldsInv'
  BY <1>1 DEF OrderInv, FieldTypes, FieldsInv, FieldsOf, AbortAfterStep
<1>4. QueuedUnprepared'
  BY <1>1 DEF OrderInv, QueueInv, FieldTypes, QueuedUnprepared, PreparesAt, QueuedOp,
         Underway, Prepared, AbortAfterStep
<1>5. QueuedOnce'
  BY <1>1 DEF OrderInv, QueueInv, FieldTypes, QueuedOnce, PreparesAt, QueuedOp,
         AbortAfterStep
<1>6. UnpreparedQueued'
  BY <1>1 DEF OrderInv, QueueInv, FieldTypes, UnpreparedQueued, PreparesAt, QueuedOp,
         Underway, Prepared, AbortAfterStep
<1>7. HoldsPrepared'
  BY <1>1 DEF OrderInv, PrepareInv, FieldTypes, HoldsPrepared, Prepared, AbortAfterStep
<1>8. HoldsLocal'
  BY <1>1 DEF OrderInv, PrepareInv, FieldTypes, HoldsLocal, AbortAfterStep
<1>9. HoldsUnsent'
  BY <1>1 DEF OrderInv, PrepareInv, FieldTypes, HoldsUnsent, AbortAfterStep
<1>10. HoldsDecided'
  BY <1>1 DEF OrderInv, PrepareInv, FieldTypes, HoldsDecided, OnConsensus, Underway,
         AbortAfterStep
<1>11. LocalHeld'
  BY <1>1 DEF OrderInv, HeldInv, FieldTypes, LocalHeld, OnPrepare, Underway, Prepared,
         AbortAfterStep
<1>12. UnsentHeld'
  BY <1>1 DEF OrderInv, HeldInv, FieldTypes, UnsentHeld, OnPrepare, AbortAfterStep
<1>13. DecidedHeld'
  BY <1>1 DEF OrderInv, HeldInv, FieldTypes, DecidedHeld, OnPrepare, OnConsensus, Underway,
         Prepared, AbortAfterStep
<1>14. PendingAreSent'
  BY <1>1 DEF OrderInv, PendingInv, FieldTypes, PendingAreSent, AbortAfterStep
<1>15. SentArePending'
  <2> SUFFICES ASSUME NEW x \in Ops, op[x].repl = "REPLICATING", op[x].idx # 0
               PROVE  PendingAt(x)' \/ InRest(x)'
    BY DEF SentArePending, AbortAfterStep
  <2> DEFINE n == op[x].idx - committed
  <2>1. n \in DOMAIN pending /\ pending[n].kind = "OP" /\ pending[n].op = x
    BY <1>2 DEF OrderInv, PendingInv, SentArePending, PendingAt, InRest, OnConsensus, AbortAfterStep
  <2>2. CASE n \in DOMAIN pending'
    BY <2>1, <2>2 DEF PendingAt, AbortAfterStep
  <2>3. CASE n - k \in DOMAIN Rest' /\ Rest'[n - k] = pending[n]
    BY <2>1, <2>3 DEF InRest, AbortAfterStep
  <2> QED
    BY <2>1, <2>2, <2>3 DEF AbortAfterStep
<1>16. FinishesSent'
  BY <1>1 DEF OrderInv, ConsensusInv, FieldTypes, FinishesSent, AbortAfterStep
<1>17. AppliesDecided'
  BY <1>1 DEF OrderInv, ConsensusInv, FieldTypes, AppliesDecided, Prepared, AbortAfterStep
<1>18. FinishesInOrder'
  BY <1>1 DEF OrderInv, ConsensusInv, FieldTypes, FinishesInOrder, AbortAfterStep
<1>19. RestAreSent'
  BY <1>1 DEF OrderInv, RestInv, PendingInv, FieldTypes, RestAreSent, PendingAreSent,
         AbortAfterStep
<1>20. RestAfterFinished'
  BY <1>1 DEF OrderInv, RestInv, FieldTypes, RestAfterFinished, AbortAfterStep
<1>21. RestInOrder'
  BY <1>1 DEF OrderInv, RestInv, PendingInv, FieldTypes, RestInOrder, PendingAreSent,
         AbortAfterStep
<1>22. PrevCommitted'
  BY <1>1 DEF OrderInv, LogOrderInv, FieldTypes, PrevCommitted, AbortAfterStep
<1>23. LiveAbovePrev'
  BY <1>1 DEF OrderInv, LogOrderInv, FieldTypes, LiveAbovePrev, Live, AbortAfterStep
<1>24. LiveDistinct'
  BY <1>1 DEF OrderInv, LogOrderInv, FieldTypes, LiveDistinct, Live, AbortAfterStep
<1>25. QueueInOrder'
  BY <1>1 DEF OrderInv, LogOrderInv, FieldTypes, QueueInOrder, Live, PreparesAt, QueuedOp,
         AbortAfterStep
<1>26. PreparedFirst'
  BY <1>1 DEF OrderInv, LogOrderInv, FieldTypes, PreparedFirst, Live, Prepared, PreparesAt,
         QueuedOp, AbortAfterStep
<1>27. AppliesLast'
  BY <1>1 DEF OrderInv, LogOrderInv, FieldTypes, AppliesLast, Live, Prepared, AbortAfterStep
<1>28. TermsKnown'
  BY <1>1 DEF OrderInv, TermInv, FieldTypes, TermsKnown, AbortAfterStep
<1>29. TermsGrow'
  BY <1>1 DEF OrderInv, TermInv, FieldTypes, TermsGrow, PreparesAt, QueuedOp, AbortAfterStep
<1>30. HeldTermFirst'
  BY <1>1 DEF OrderInv, TermInv, FieldTypes, HeldTermFirst, PreparesAt, QueuedOp,
         AbortAfterStep
<1>31. FollowedBefore'
  BY <1>1 DEF OrderInv, TermInv, FieldTypes, FollowedBefore, PreparesAt, QueuedOp,
         AbortAfterStep
<1>32. NoOpByLeader'
  BY <1>1 DEF OrderInv, TermInv, FieldTypes, NoOpByLeader, AbortAfterStep
<1> QED
  BY <1>3, <1>4, <1>5, <1>6, <1>7, <1>8, <1>9, <1>10, <1>11, <1>12, <1>13, <1>14, <1>15,
         <1>16, <1>17, <1>18, <1>19, <1>20, <1>21, <1>22, <1>23, <1>24, <1>25, <1>26, <1>27,
         <1>28, <1>29, <1>30, <1>31, <1>32
     DEF OrderInv, QueueInv, PrepareInv, HeldInv, PendingInv, ConsensusInv, RestInv,
            LogOrderInv, TermInv

\* AbortPrepare() of the first round that is to be aborted, an op's.
AbortOpStep(o) ==
    /\ consensus_thread.pc = "aborting"
    /\ Rest[1].kind = "OP" /\ Rest[1].op = o
    /\ RestShifts
    /\ consensus_thread'.pc = "finish" /\ consensus_thread'.op = o /\ consensus_thread'.ok = FALSE
    /\ op'[o].stage = IF o \in RowOps THEN "mvcc_aborted" ELSE op[o].stage
    /\ \A x \in Ops : x # o => op'[x].stage = op[x].stage
    /\ SameRepl /\ SamePrep /\ SameIdx /\ SameTerms /\ SameTs
    /\ UNCHANGED <<prepare_queue, prepare_thread, prev_idx, pending, committed, term, role>>

LEMMA AbortOpKeepsOrder ==
    ASSUME OrderInv, ReplicaTypes', NEW o \in Ops, AbortOpStep(o)
    PROVE  OrderInv'
<1>1. FieldTypes
  BY FieldTypesHold DEF OrderInv
<1>2. /\ op[o].repl = "REPLICATING" /\ op[o].stage = "driven" /\ op[o].idx > committed
      /\ \A j \in DOMAIN pending : op[o].idx > committed + j
  BY <1>1 DEF OrderInv, FieldTypes, RestInv, RestAreSent, RestShifts, AbortOpStep
<1>3. \A i \in DOMAIN Rest : i # 1 /\ Rest[i].kind = "OP" => Rest[i].op # o /\ op[o].idx < op[Rest[i].op].idx
  BY <1>1 DEF OrderInv, FieldTypes, RestInv, RestInOrder, RestShifts, AbortOpStep
<1>4. \A i \in DOMAIN pending : pending[i].kind = "OP" => pending[i].op # o
  BY <1>1 DEF OrderInv, FieldTypes, PendingInv, PendingAreSent, RestInv, RestAreSent, RestShifts, AbortOpStep
<1>5. prepare_thread.pc # "idle" /\ prepare_thread.pc # "replicate" => prepare_thread.op # o
  BY <1>2 DEF OrderInv, PrepareInv, HoldsLocal, HoldsDecided, OnConsensus,
     AbortOpStep, ReplicaTypes, DriverTypes, OnPrepareThread, Idle
<1>6. FieldsInv'
  BY <1>1, <1>2 DEF OrderInv, FieldTypes, FieldsInv, FieldsOf, AbortOpStep, RestShifts,
         SameRepl, SamePrep, SameIdx, SameTerms, SameTs
<1>7. QueuedUnprepared'
  BY <1>1, <1>2 DEF OrderInv, QueueInv, FieldTypes, QueuedUnprepared, PreparesAt, QueuedOp,
         Underway, Prepared, AbortOpStep, RestShifts, SameRepl, SamePrep, SameIdx,
         SameTerms, SameTs
<1>8. QueuedOnce'
  BY <1>1 DEF OrderInv, QueueInv, FieldTypes, QueuedOnce, PreparesAt, QueuedOp, AbortOpStep,
         RestShifts, SameRepl, SamePrep, SameIdx, SameTerms, SameTs
<1>9. UnpreparedQueued'
  BY <1>1, <1>2 DEF OrderInv, QueueInv, FieldTypes, UnpreparedQueued, PreparesAt, QueuedOp,
         Underway, Prepared, AbortOpStep, RestShifts, SameRepl, SamePrep, SameIdx,
         SameTerms, SameTs
<1>10. HoldsPrepared'
  BY <1>1 DEF OrderInv, PrepareInv, FieldTypes, HoldsPrepared, Prepared, AbortOpStep,
         RestShifts, SameRepl, SamePrep, SameIdx, SameTerms, SameTs
<1>11. HoldsLocal'
  BY <1>1, <1>2, <1>5 DEF OrderInv, PrepareInv, FieldTypes, HoldsLocal, AbortOpStep,
         RestShifts, SameRepl, SamePrep, SameIdx, SameTerms, SameTs
<1>12. HoldsUnsent'
  BY <1>1, <1>2 DEF OrderInv, PrepareInv, FieldTypes, HoldsUnsent, AbortOpStep, RestShifts,
         SameRepl, SamePrep, SameIdx, SameTerms, SameTs
<1>13. HoldsDecided'
  BY <1>1, <1>2, <1>5 DEF OrderInv, PrepareInv, FieldTypes, HoldsDecided, OnConsensus,
         Underway, AbortOpStep, RestShifts, SameRepl, SamePrep, SameIdx, SameTerms, SameTs
<1>14. LocalHeld'
  BY <1>1, <1>2 DEF OrderInv, HeldInv, FieldTypes, LocalHeld, OnPrepare, Underway, Prepared,
         AbortOpStep, RestShifts, SameRepl, SamePrep, SameIdx, SameTerms, SameTs
<1>15. UnsentHeld'
  BY <1>1, <1>2 DEF OrderInv, HeldInv, FieldTypes, UnsentHeld, OnPrepare, AbortOpStep,
         RestShifts, SameRepl, SamePrep, SameIdx, SameTerms, SameTs
<1>16. DecidedHeld'
  BY <1>1, <1>2 DEF OrderInv, HeldInv, FieldTypes, DecidedHeld, OnPrepare, OnConsensus,
         Underway, Prepared, AbortOpStep, RestShifts, SameRepl, SamePrep, SameIdx,
         SameTerms, SameTs
<1>17. PendingAreSent'
  BY <1>1, <1>2, <1>4 DEF OrderInv, PendingInv, FieldTypes, PendingAreSent, AbortOpStep,
         RestShifts, SameRepl, SamePrep, SameIdx, SameTerms, SameTs
<1>18. SentArePending'
  BY <1>1, <1>2 DEF OrderInv, PendingInv, FieldTypes, SentArePending, PendingAt, InRest,
         OnConsensus, AbortOpStep, RestShifts, SameRepl, SamePrep, SameIdx, SameTerms,
         SameTs
<1>19. FinishesSent'
  BY <1>1, <1>2 DEF OrderInv, ConsensusInv, FieldTypes, FinishesSent, AbortOpStep,
         RestShifts, SameRepl, SamePrep, SameIdx, SameTerms, SameTs
<1>20. AppliesDecided'
  BY <1>1 DEF OrderInv, ConsensusInv, FieldTypes, AppliesDecided, Prepared, AbortOpStep,
         RestShifts, SameRepl, SamePrep, SameIdx, SameTerms, SameTs
<1>21. FinishesInOrder'
  BY <1>1, <1>2 DEF OrderInv, ConsensusInv, FieldTypes, FinishesInOrder, AbortOpStep,
         RestShifts, SameRepl, SamePrep, SameIdx, SameTerms, SameTs
<1>22. RestAreSent'
  BY <1>1, <1>3 DEF OrderInv, RestInv, FieldTypes, RestAreSent, AbortOpStep, RestShifts,
         SameRepl, SamePrep, SameIdx, SameTerms, SameTs
<1>23. RestAfterFinished'
  BY <1>1, <1>3 DEF OrderInv, RestInv, FieldTypes, RestAfterFinished, AbortOpStep,
         RestShifts, SameRepl, SamePrep, SameIdx, SameTerms, SameTs
<1>24. RestInOrder'
  BY <1>1 DEF OrderInv, RestInv, FieldTypes, RestInOrder, AbortOpStep, RestShifts, SameRepl,
         SamePrep, SameIdx, SameTerms, SameTs
<1>25. PrevCommitted'
  BY <1>1 DEF OrderInv, LogOrderInv, FieldTypes, PrevCommitted, AbortOpStep, RestShifts,
         SameRepl, SamePrep, SameIdx, SameTerms, SameTs
<1>26. LiveAbovePrev'
  BY <1>1, <1>2 DEF OrderInv, LogOrderInv, FieldTypes, LiveAbovePrev, Live, AbortOpStep,
         RestShifts, SameRepl, SamePrep, SameIdx, SameTerms, SameTs
<1>27. LiveDistinct'
  BY <1>1 DEF OrderInv, LogOrderInv, FieldTypes, LiveDistinct, Live, AbortOpStep,
         RestShifts, SameRepl, SamePrep, SameIdx, SameTerms, SameTs
<1>28. QueueInOrder'
  BY <1>1 DEF OrderInv, LogOrderInv, FieldTypes, QueueInOrder, Live, PreparesAt, QueuedOp,
         AbortOpStep, RestShifts, SameRepl, SamePrep, SameIdx, SameTerms, SameTs
<1>29. PreparedFirst'
  BY <1>1 DEF OrderInv, LogOrderInv, FieldTypes, PreparedFirst, Live, Prepared, PreparesAt,
         QueuedOp, AbortOpStep, RestShifts, SameRepl, SamePrep, SameIdx, SameTerms, SameTs
<1>30. AppliesLast'
  BY <1>1 DEF OrderInv, LogOrderInv, FieldTypes, AppliesLast, Live, Prepared, AbortOpStep,
         RestShifts, SameRepl, SamePrep, SameIdx, SameTerms, SameTs
<1>31. TermsKnown'
  BY <1>1 DEF OrderInv, TermInv, FieldTypes, TermsKnown, AbortOpStep, RestShifts, SameRepl,
         SamePrep, SameIdx, SameTerms, SameTs
<1>32. TermsGrow'
  BY <1>1 DEF OrderInv, TermInv, FieldTypes, TermsGrow, PreparesAt, QueuedOp, AbortOpStep,
         RestShifts, SameRepl, SamePrep, SameIdx, SameTerms, SameTs
<1>33. HeldTermFirst'
  BY <1>1 DEF OrderInv, TermInv, FieldTypes, HeldTermFirst, PreparesAt, QueuedOp,
         AbortOpStep, RestShifts, SameRepl, SamePrep, SameIdx, SameTerms, SameTs
<1>34. FollowedBefore'
  BY <1>1 DEF OrderInv, TermInv, FieldTypes, FollowedBefore, PreparesAt, QueuedOp,
         AbortOpStep, RestShifts, SameRepl, SamePrep, SameIdx, SameTerms, SameTs
<1>35. NoOpByLeader'
  BY <1>1 DEF OrderInv, TermInv, FieldTypes, NoOpByLeader, AbortOpStep, RestShifts,
         SameRepl, SamePrep, SameIdx, SameTerms, SameTs
<1> QED
  BY <1>6, <1>7, <1>8, <1>9, <1>10, <1>11, <1>12, <1>13, <1>14, <1>15, <1>16, <1>17, <1>18,
         <1>19, <1>20, <1>21, <1>22, <1>23, <1>24, <1>25, <1>26, <1>27, <1>28, <1>29, <1>30,
         <1>31, <1>32, <1>33, <1>34, <1>35
     DEF OrderInv, QueueInv, PrepareInv, HeldInv, PendingInv, ConsensusInv, RestInv,
            LogOrderInv, TermInv

\* The first round that is to be aborted is not an op's.
AbortOtherStep ==
    /\ consensus_thread.pc = "aborting" /\ consensus_thread'.pc \in {"idle", "aborting"}
    /\ Rest[1].kind # "OP"
    /\ RestShifts
    /\ UNCHANGED <<op, prepare_queue, prepare_thread, prev_idx, pending, committed, term, role>>

LEMMA AbortOtherKeepsOrder ==
    ASSUME OrderInv, ReplicaTypes', AbortOtherStep
    PROVE  OrderInv'
<1>1. FieldTypes
  BY FieldTypesHold DEF OrderInv
<1>2. FieldsInv'
  BY <1>1 DEF OrderInv, FieldTypes, FieldsInv, FieldsOf, AbortOtherStep, RestShifts
<1>3. QueuedUnprepared'
  BY <1>1 DEF OrderInv, QueueInv, FieldTypes, QueuedUnprepared, PreparesAt, QueuedOp,
         Underway, Prepared, AbortOtherStep, RestShifts
<1>4. QueuedOnce'
  BY <1>1 DEF OrderInv, QueueInv, FieldTypes, QueuedOnce, PreparesAt, QueuedOp,
         AbortOtherStep, RestShifts
<1>5. UnpreparedQueued'
  BY <1>1 DEF OrderInv, QueueInv, FieldTypes, UnpreparedQueued, PreparesAt, QueuedOp,
         Underway, Prepared, AbortOtherStep, RestShifts
<1>6. HoldsPrepared'
  BY <1>1 DEF OrderInv, PrepareInv, FieldTypes, HoldsPrepared, Prepared, AbortOtherStep,
         RestShifts
<1>7. HoldsLocal'
  BY <1>1 DEF OrderInv, PrepareInv, FieldTypes, HoldsLocal, AbortOtherStep, RestShifts
<1>8. HoldsUnsent'
  BY <1>1 DEF OrderInv, PrepareInv, FieldTypes, HoldsUnsent, AbortOtherStep, RestShifts
<1>9. HoldsDecided'
  BY <1>1 DEF OrderInv, PrepareInv, FieldTypes, HoldsDecided, OnConsensus, Underway,
         AbortOtherStep, RestShifts
<1>10. LocalHeld'
  BY <1>1 DEF OrderInv, HeldInv, FieldTypes, LocalHeld, OnPrepare, Underway, Prepared,
         AbortOtherStep, RestShifts
<1>11. UnsentHeld'
  BY <1>1 DEF OrderInv, HeldInv, FieldTypes, UnsentHeld, OnPrepare, AbortOtherStep,
         RestShifts
<1>12. DecidedHeld'
  BY <1>1 DEF OrderInv, HeldInv, FieldTypes, DecidedHeld, OnPrepare, OnConsensus, Underway,
         Prepared, AbortOtherStep, RestShifts
<1>13. PendingAreSent'
  BY <1>1 DEF OrderInv, PendingInv, FieldTypes, PendingAreSent, AbortOtherStep, RestShifts
<1>14. SentArePending'
  BY <1>1 DEF OrderInv, PendingInv, FieldTypes, SentArePending, PendingAt, InRest,
         OnConsensus, AbortOtherStep, RestShifts
<1>15. FinishesSent'
  BY <1>1 DEF OrderInv, ConsensusInv, FieldTypes, FinishesSent, AbortOtherStep, RestShifts
<1>16. AppliesDecided'
  BY <1>1 DEF OrderInv, ConsensusInv, FieldTypes, AppliesDecided, Prepared, AbortOtherStep,
         RestShifts
<1>17. FinishesInOrder'
  BY <1>1 DEF OrderInv, ConsensusInv, FieldTypes, FinishesInOrder, AbortOtherStep,
         RestShifts
<1>18. RestAreSent'
  BY <1>1 DEF OrderInv, RestInv, FieldTypes, RestAreSent, AbortOtherStep, RestShifts
<1>19. RestAfterFinished'
  BY <1>1 DEF OrderInv, RestInv, FieldTypes, RestAfterFinished, AbortOtherStep, RestShifts
<1>20. RestInOrder'
  BY <1>1 DEF OrderInv, RestInv, FieldTypes, RestInOrder, AbortOtherStep, RestShifts
<1>21. PrevCommitted'
  BY <1>1 DEF OrderInv, LogOrderInv, FieldTypes, PrevCommitted, AbortOtherStep, RestShifts
<1>22. LiveAbovePrev'
  BY <1>1 DEF OrderInv, LogOrderInv, FieldTypes, LiveAbovePrev, Live, AbortOtherStep,
         RestShifts
<1>23. LiveDistinct'
  BY <1>1 DEF OrderInv, LogOrderInv, FieldTypes, LiveDistinct, Live, AbortOtherStep,
         RestShifts
<1>24. QueueInOrder'
  BY <1>1 DEF OrderInv, LogOrderInv, FieldTypes, QueueInOrder, Live, PreparesAt, QueuedOp,
         AbortOtherStep, RestShifts
<1>25. PreparedFirst'
  BY <1>1 DEF OrderInv, LogOrderInv, FieldTypes, PreparedFirst, Live, Prepared, PreparesAt,
         QueuedOp, AbortOtherStep, RestShifts
<1>26. AppliesLast'
  BY <1>1 DEF OrderInv, LogOrderInv, FieldTypes, AppliesLast, Live, Prepared,
         AbortOtherStep, RestShifts
<1>27. TermsKnown'
  BY <1>1 DEF OrderInv, TermInv, FieldTypes, TermsKnown, AbortOtherStep, RestShifts
<1>28. TermsGrow'
  BY <1>1 DEF OrderInv, TermInv, FieldTypes, TermsGrow, PreparesAt, QueuedOp,
         AbortOtherStep, RestShifts
<1>29. HeldTermFirst'
  BY <1>1 DEF OrderInv, TermInv, FieldTypes, HeldTermFirst, PreparesAt, QueuedOp,
         AbortOtherStep, RestShifts
<1>30. FollowedBefore'
  BY <1>1 DEF OrderInv, TermInv, FieldTypes, FollowedBefore, PreparesAt, QueuedOp,
         AbortOtherStep, RestShifts
<1>31. NoOpByLeader'
  BY <1>1 DEF OrderInv, TermInv, FieldTypes, NoOpByLeader, AbortOtherStep, RestShifts
<1> QED
  BY <1>2, <1>3, <1>4, <1>5, <1>6, <1>7, <1>8, <1>9, <1>10, <1>11, <1>12, <1>13, <1>14,
         <1>15, <1>16, <1>17, <1>18, <1>19, <1>20, <1>21, <1>22, <1>23, <1>24, <1>25, <1>26,
         <1>27, <1>28, <1>29, <1>30, <1>31
     DEF OrderInv, QueueInv, PrepareInv, HeldInv, PendingInv, ConsensusInv, RestInv,
            LogOrderInv, TermInv

\* ReplicationFinished(): the apply is this thread's if the op is prepared.
FinishStep(o) ==
    /\ consensus_thread.pc = "finish" /\ consensus_thread.op = o
    /\ ReplTo(o, IF consensus_thread.ok THEN "REPLICATED" ELSE "REPLICATION_FAILED")
    /\ IF Prepared(o)
       THEN /\ consensus_thread'.pc = "apply"
            /\ consensus_thread'.op = o
            /\ consensus_thread'.ok = consensus_thread.ok
            /\ consensus_thread'.rest = consensus_thread.rest
       ELSE consensus_thread'.pc \in {"idle", "aborting"}
    /\ Rest' = Rest
    /\ SameStages /\ SamePrep /\ SameIdx /\ SameTerms /\ SameTs
    /\ UNCHANGED <<prepare_queue, prepare_thread, prev_idx, pending, committed, term, role>>

LEMMA FinishKeepsOrder ==
    ASSUME OrderInv, ReplicaTypes', NEW o \in Ops, FinishStep(o)
    PROVE  OrderInv'
<1>1. FieldTypes
  BY FieldTypesHold DEF OrderInv
<1>2. /\ op[o].repl = "REPLICATING" /\ op[o].idx # 0
      /\ consensus_thread.ok \in BOOLEAN
  BY ThreadFields DEF OrderInv, ReplicaTypes, ConsensusInv, FinishesSent, FinishStep
<1>3. IF consensus_thread.ok
      THEN Rest = <<>> /\ op[o].idx = committed /\ op[o].stage = "driven"
      ELSE /\ op[o].idx > committed /\ \A i \in DOMAIN pending : op[o].idx > committed + i
           /\ op[o].stage = IF o \in RowOps THEN "mvcc_aborted" ELSE "driven"
  BY DEF OrderInv, ConsensusInv, FinishesInOrder, FinishStep, Rest
<1>4. prepare_thread.pc # "idle" /\ prepare_thread.pc # "replicate" => prepare_thread.op # o
  BY <1>2 DEF OrderInv, PrepareInv, HoldsLocal, HoldsDecided, OnConsensus,
     FinishStep, ReplicaTypes, DriverTypes, OnPrepareThread, Idle
<1>5. prepare_thread.pc = "replicate" => prepare_thread.op # o
  BY <1>2 DEF OrderInv, PrepareInv, HoldsUnsent
<1>6. FieldsInv'
  BY <1>1, <1>2, <1>3 DEF OrderInv, FieldTypes, FieldsInv, FieldsOf, FinishStep, ReplTo,
         SameStages, SamePrep, SameIdx, SameTerms, SameTs
<1>7. QueuedUnprepared'
  BY <1>1 DEF OrderInv, QueueInv, FieldTypes, QueuedUnprepared, PreparesAt, QueuedOp,
         Underway, Prepared, FinishStep, ReplTo, SameStages, SamePrep, SameIdx, SameTerms,
         SameTs
<1>8. QueuedOnce'
  BY <1>1 DEF OrderInv, QueueInv, FieldTypes, QueuedOnce, PreparesAt, QueuedOp, FinishStep,
         ReplTo, SameStages, SamePrep, SameIdx, SameTerms, SameTs
<1>9. UnpreparedQueued'
  BY <1>1 DEF OrderInv, QueueInv, FieldTypes, UnpreparedQueued, PreparesAt, QueuedOp,
         Underway, Prepared, FinishStep, ReplTo, SameStages, SamePrep, SameIdx, SameTerms,
         SameTs
<1>10. HoldsPrepared'
  BY <1>1 DEF OrderInv, PrepareInv, FieldTypes, HoldsPrepared, Prepared, FinishStep, ReplTo,
         SameStages, SamePrep, SameIdx, SameTerms, SameTs
<1>11. HoldsLocal'
  BY <1>1, <1>4 DEF OrderInv, PrepareInv, FieldTypes, HoldsLocal, FinishStep, ReplTo,
         SameStages, SamePrep, SameIdx, SameTerms, SameTs
<1>12. HoldsUnsent'
  BY <1>1, <1>5 DEF OrderInv, PrepareInv, FieldTypes, HoldsUnsent, FinishStep, ReplTo,
         SameStages, SamePrep, SameIdx, SameTerms, SameTs
<1>13. HoldsDecided'
  BY <1>1, <1>4 DEF OrderInv, PrepareInv, FieldTypes, HoldsDecided, OnConsensus, Underway,
         FinishStep, ReplTo, SameStages, SamePrep, SameIdx, SameTerms, SameTs
<1>14. LocalHeld'
  BY <1>1, <1>2, <1>3 DEF OrderInv, HeldInv, FieldTypes, LocalHeld, OnPrepare, Underway,
         Prepared, FinishStep, ReplTo, SameStages, SamePrep, SameIdx, SameTerms, SameTs
<1>15. UnsentHeld'
  BY <1>1, <1>2, <1>3 DEF OrderInv, HeldInv, FieldTypes, UnsentHeld, OnPrepare, FinishStep,
         ReplTo, SameStages, SamePrep, SameIdx, SameTerms, SameTs
<1>16. DecidedHeld'
  BY <1>1, <1>2, <1>3 DEF OrderInv, HeldInv, FieldTypes, DecidedHeld, OnPrepare,
         OnConsensus, Underway, Prepared, FinishStep, ReplTo, SameStages, SamePrep, SameIdx,
         SameTerms, SameTs
<1>17. PendingAreSent'
  BY <1>1, <1>2, <1>3 DEF OrderInv, PendingInv, FieldTypes, PendingAreSent, FinishStep,
         ReplTo, SameStages, SamePrep, SameIdx, SameTerms, SameTs
<1>18. SentArePending'
  BY <1>1, <1>2, <1>3 DEF OrderInv, PendingInv, FieldTypes, SentArePending, PendingAt,
         InRest, OnConsensus, FinishStep, ReplTo, SameStages, SamePrep, SameIdx, SameTerms,
         SameTs
<1>19. FinishesSent'
  BY <1>1, <1>2, <1>3 DEF OrderInv, ConsensusInv, FieldTypes, FinishesSent, FinishStep,
         ReplTo, SameStages, SamePrep, SameIdx, SameTerms, SameTs
<1>20. AppliesDecided'
  BY <1>1, <1>2, <1>3 DEF OrderInv, ConsensusInv, FieldTypes, AppliesDecided, Prepared,
         FinishStep, ReplTo, SameStages, SamePrep, SameIdx, SameTerms, SameTs
<1>21. FinishesInOrder'
  BY <1>1, <1>2, <1>3 DEF OrderInv, ConsensusInv, FieldTypes, FinishesInOrder, FinishStep,
         ReplTo, SameStages, SamePrep, SameIdx, SameTerms, SameTs
<1>22. RestAreSent'
  BY <1>1, <1>2 DEF OrderInv, RestInv, FieldTypes, RestAreSent, RestAfterFinished,
         FinishStep, ReplTo, SameStages, SamePrep, SameIdx, SameTerms, SameTs
<1>23. RestAfterFinished'
  BY <1>1 DEF OrderInv, RestInv, FieldTypes, RestAfterFinished, FinishStep, ReplTo,
         SameStages, SamePrep, SameIdx, SameTerms, SameTs
<1>24. RestInOrder'
  BY <1>1 DEF OrderInv, RestInv, FieldTypes, RestInOrder, FinishStep, ReplTo, SameStages,
         SamePrep, SameIdx, SameTerms, SameTs
<1>25. PrevCommitted'
  BY <1>1 DEF OrderInv, LogOrderInv, FieldTypes, PrevCommitted, FinishStep, ReplTo,
         SameStages, SamePrep, SameIdx, SameTerms, SameTs
<1>26. LiveAbovePrev'
  BY <1>1, <1>2, <1>3 DEF OrderInv, LogOrderInv, FieldTypes, LiveAbovePrev, Live,
         FinishStep, ReplTo, SameStages, SamePrep, SameIdx, SameTerms, SameTs
<1>27. LiveDistinct'
  BY <1>1, <1>2, <1>3 DEF OrderInv, LogOrderInv, FieldTypes, LiveDistinct, Live, FinishStep,
         ReplTo, SameStages, SamePrep, SameIdx, SameTerms, SameTs
<1>28. QueueInOrder'
  BY <1>1, <1>2, <1>3 DEF OrderInv, LogOrderInv, FieldTypes, QueueInOrder, Live, PreparesAt,
         QueuedOp, FinishStep, ReplTo, SameStages, SamePrep, SameIdx, SameTerms, SameTs
<1>29. PreparedFirst'
  BY <1>1, <1>2, <1>3 DEF OrderInv, LogOrderInv, FieldTypes, PreparedFirst, Live, Prepared,
         PreparesAt, QueuedOp, FinishStep, ReplTo, SameStages, SamePrep, SameIdx, SameTerms,
         SameTs
<1>30. AppliesLast'
  BY <1>1, <1>2, <1>3 DEF OrderInv, LogOrderInv, FieldTypes, AppliesLast, Live, Prepared,
         FinishStep, ReplTo, SameStages, SamePrep, SameIdx, SameTerms, SameTs
<1>31. TermsKnown'
  BY <1>1 DEF OrderInv, TermInv, FieldTypes, TermsKnown, FinishStep, ReplTo, SameStages,
         SamePrep, SameIdx, SameTerms, SameTs
<1>32. TermsGrow'
  BY <1>1 DEF OrderInv, TermInv, FieldTypes, TermsGrow, PreparesAt, QueuedOp, FinishStep,
         ReplTo, SameStages, SamePrep, SameIdx, SameTerms, SameTs
<1>33. HeldTermFirst'
  BY <1>1 DEF OrderInv, TermInv, FieldTypes, HeldTermFirst, PreparesAt, QueuedOp,
         FinishStep, ReplTo, SameStages, SamePrep, SameIdx, SameTerms, SameTs
<1>34. FollowedBefore'
  BY <1>1, <1>2, <1>3 DEF OrderInv, TermInv, FieldTypes, FollowedBefore, PreparesAt,
         QueuedOp, FinishStep, ReplTo, SameStages, SamePrep, SameIdx, SameTerms, SameTs
<1>35. NoOpByLeader'
  BY <1>1 DEF OrderInv, TermInv, FieldTypes, NoOpByLeader, FinishStep, ReplTo, SameStages,
         SamePrep, SameIdx, SameTerms, SameTs
<1> QED
  BY <1>6, <1>7, <1>8, <1>9, <1>10, <1>11, <1>12, <1>13, <1>14, <1>15, <1>16, <1>17, <1>18,
         <1>19, <1>20, <1>21, <1>22, <1>23, <1>24, <1>25, <1>26, <1>27, <1>28, <1>29, <1>30,
         <1>31, <1>32, <1>33, <1>34, <1>35
     DEF OrderInv, QueueInv, PrepareInv, HeldInv, PendingInv, ConsensusInv, RestInv,
            LogOrderInv, TermInv

\* A step that leaves the drivers, the queue and the rounds alone.
RaftStep ==
    /\ \/ consensus_thread' = consensus_thread
       \/ NotAtRound /\ NotAtRound'
    /\ consensus_thread'.pc \in {"noop", "noop_append"} => role' = "LEADER"
    /\ term' \in Nat /\ term' >= term
    /\ role' = "LEADER" => term' > term \/ (role = "LEADER" /\ term' = term)
    /\ UNCHANGED <<op, prepare_queue, prepare_thread, prev_idx, pending, committed>>

LEMMA RaftKeepsOrder ==
    ASSUME OrderInv, ReplicaTypes', RaftStep
    PROVE  OrderInv'
<1>1. FieldTypes
  BY FieldTypesHold DEF OrderInv
<1>2. FieldsInv'
  BY <1>1 DEF OrderInv, FieldTypes, FieldsInv, FieldsOf, RaftStep
<1>3. QueuedUnprepared'
  BY <1>1 DEF OrderInv, QueueInv, FieldTypes, QueuedUnprepared, PreparesAt, QueuedOp,
         Underway, Prepared, RaftStep
<1>4. QueuedOnce'
  BY <1>1 DEF OrderInv, QueueInv, FieldTypes, QueuedOnce, PreparesAt, QueuedOp, RaftStep
<1>5. UnpreparedQueued'
  BY <1>1 DEF OrderInv, QueueInv, FieldTypes, UnpreparedQueued, PreparesAt, QueuedOp,
         Underway, Prepared, RaftStep
<1>6. HoldsPrepared'
  BY <1>1 DEF OrderInv, PrepareInv, FieldTypes, HoldsPrepared, Prepared, RaftStep
<1>7. HoldsLocal'
  BY <1>1 DEF OrderInv, PrepareInv, FieldTypes, HoldsLocal, RaftStep
<1>8. HoldsUnsent'
  BY <1>1 DEF OrderInv, PrepareInv, FieldTypes, HoldsUnsent, RaftStep
<1>9. HoldsDecided'
  BY <1>1 DEF OrderInv, PrepareInv, FieldTypes, HoldsDecided, OnConsensus, Underway,
         RaftStep, NotAtRound
<1>10. LocalHeld'
  BY <1>1 DEF OrderInv, HeldInv, FieldTypes, LocalHeld, OnPrepare, Underway, Prepared,
         RaftStep
<1>11. UnsentHeld'
  BY <1>1 DEF OrderInv, HeldInv, FieldTypes, UnsentHeld, OnPrepare, RaftStep
<1>12. DecidedHeld'
  BY <1>1 DEF OrderInv, HeldInv, FieldTypes, DecidedHeld, OnPrepare, OnConsensus, Underway,
         Prepared, RaftStep, NotAtRound
<1>13. PendingAreSent'
  BY <1>1 DEF OrderInv, PendingInv, FieldTypes, PendingAreSent, RaftStep
<1>14. SentArePending'
  BY <1>1 DEF OrderInv, PendingInv, FieldTypes, SentArePending, PendingAt, InRest, Rest,
         OnConsensus, RaftStep, NotAtRound
<1>15. FinishesSent'
  BY <1>1 DEF OrderInv, ConsensusInv, FieldTypes, FinishesSent, RaftStep, NotAtRound
<1>16. AppliesDecided'
  BY <1>1 DEF OrderInv, ConsensusInv, FieldTypes, AppliesDecided, Prepared, RaftStep,
         NotAtRound
<1>17. FinishesInOrder'
  BY <1>1 DEF OrderInv, ConsensusInv, FieldTypes, FinishesInOrder, RaftStep, NotAtRound
<1>18. RestAreSent'
  BY <1>1 DEF OrderInv, RestInv, FieldTypes, RestAreSent, Rest, RaftStep, NotAtRound
<1>19. RestAfterFinished'
  BY <1>1 DEF OrderInv, RestInv, FieldTypes, RestAfterFinished, Rest, RaftStep, NotAtRound
<1>20. RestInOrder'
  BY <1>1 DEF OrderInv, RestInv, FieldTypes, RestInOrder, Rest, RaftStep, NotAtRound
<1>21. PrevCommitted'
  BY <1>1 DEF OrderInv, LogOrderInv, FieldTypes, PrevCommitted, RaftStep
<1>22. LiveAbovePrev'
  BY <1>1 DEF OrderInv, LogOrderInv, FieldTypes, LiveAbovePrev, Live, RaftStep
<1>23. LiveDistinct'
  BY <1>1 DEF OrderInv, LogOrderInv, FieldTypes, LiveDistinct, Live, RaftStep
<1>24. QueueInOrder'
  BY <1>1 DEF OrderInv, LogOrderInv, FieldTypes, QueueInOrder, Live, PreparesAt, QueuedOp,
         RaftStep
<1>25. PreparedFirst'
  BY <1>1 DEF OrderInv, LogOrderInv, FieldTypes, PreparedFirst, Live, Prepared, PreparesAt,
         QueuedOp, RaftStep
<1>26. AppliesLast'
  BY <1>1 DEF OrderInv, LogOrderInv, FieldTypes, AppliesLast, Live, Prepared, RaftStep
<1>27. TermsKnown'
  BY <1>1 DEF OrderInv, TermInv, FieldTypes, TermsKnown, RaftStep
<1>28. TermsGrow'
  BY <1>1 DEF OrderInv, TermInv, FieldTypes, TermsGrow, PreparesAt, QueuedOp, RaftStep
<1>29. HeldTermFirst'
  BY <1>1 DEF OrderInv, TermInv, FieldTypes, HeldTermFirst, PreparesAt, QueuedOp, RaftStep
<1>30. FollowedBefore'
  BY <1>1 DEF OrderInv, TermInv, FieldTypes, FollowedBefore, PreparesAt, QueuedOp,
         TermsKnown, RaftStep
<1>31. NoOpByLeader'
  BY <1>1 DEF OrderInv, TermInv, FieldTypes, NoOpByLeader, RaftStep
<1> QED
  BY <1>2, <1>3, <1>4, <1>5, <1>6, <1>7, <1>8, <1>9, <1>10, <1>11, <1>12, <1>13, <1>14,
         <1>15, <1>16, <1>17, <1>18, <1>19, <1>20, <1>21, <1>22, <1>23, <1>24, <1>25, <1>26,
         <1>27, <1>28, <1>29, <1>30, <1>31
     DEF OrderInv, QueueInv, PrepareInv, HeldInv, PendingInv, ConsensusInv, RestInv,
            LogOrderInv, TermInv

\* A NO_OP or a config change becomes a pending round.
AppendOtherStep(r) ==
    /\ NotAtRound /\ NotAtRound' /\ consensus_thread'.pc = "idle"
    /\ r.kind # "OP"
    /\ PendingGrows(r)
    /\ UNCHANGED <<op, prepare_queue, prepare_thread, prev_idx, committed, term, role>>

LEMMA AppendOtherKeepsOrder ==
    ASSUME OrderInv, ReplicaTypes', NEW r \in Round, AppendOtherStep(r)
    PROVE  OrderInv'
<1>1. FieldTypes
  BY FieldTypesHold DEF OrderInv
<1>2. FieldsInv'
  BY <1>1 DEF OrderInv, FieldTypes, FieldsInv, FieldsOf, AppendOtherStep, PendingGrows
<1>3. QueuedUnprepared'
  BY <1>1 DEF OrderInv, QueueInv, FieldTypes, QueuedUnprepared, PreparesAt, QueuedOp,
         Underway, Prepared, AppendOtherStep, PendingGrows
<1>4. QueuedOnce'
  BY <1>1 DEF OrderInv, QueueInv, FieldTypes, QueuedOnce, PreparesAt, QueuedOp,
         AppendOtherStep, PendingGrows
<1>5. UnpreparedQueued'
  BY <1>1 DEF OrderInv, QueueInv, FieldTypes, UnpreparedQueued, PreparesAt, QueuedOp,
         Underway, Prepared, AppendOtherStep, PendingGrows
<1>6. HoldsPrepared'
  BY <1>1 DEF OrderInv, PrepareInv, FieldTypes, HoldsPrepared, Prepared, AppendOtherStep,
         PendingGrows
<1>7. HoldsLocal'
  BY <1>1 DEF OrderInv, PrepareInv, FieldTypes, HoldsLocal, AppendOtherStep, PendingGrows
<1>8. HoldsUnsent'
  BY <1>1 DEF OrderInv, PrepareInv, FieldTypes, HoldsUnsent, AppendOtherStep, PendingGrows
<1>9. HoldsDecided'
  BY <1>1 DEF OrderInv, PrepareInv, FieldTypes, HoldsDecided, OnConsensus, Underway,
         AppendOtherStep, PendingGrows, NotAtRound
<1>10. LocalHeld'
  BY <1>1 DEF OrderInv, HeldInv, FieldTypes, LocalHeld, OnPrepare, Underway, Prepared,
         AppendOtherStep, PendingGrows
<1>11. UnsentHeld'
  BY <1>1 DEF OrderInv, HeldInv, FieldTypes, UnsentHeld, OnPrepare, AppendOtherStep,
         PendingGrows
<1>12. DecidedHeld'
  BY <1>1 DEF OrderInv, HeldInv, FieldTypes, DecidedHeld, OnPrepare, OnConsensus, Underway,
         Prepared, AppendOtherStep, PendingGrows, NotAtRound
<1>13. PendingAreSent'
  BY <1>1 DEF OrderInv, PendingInv, FieldTypes, PendingAreSent, AppendOtherStep,
         PendingGrows
<1>14. SentArePending'
  BY <1>1 DEF OrderInv, PendingInv, FieldTypes, SentArePending, PendingAt, InRest, Rest,
         OnConsensus, AppendOtherStep, PendingGrows, NotAtRound
<1>15. FinishesSent'
  BY <1>1 DEF OrderInv, ConsensusInv, FieldTypes, FinishesSent, AppendOtherStep,
         PendingGrows, NotAtRound
<1>16. AppliesDecided'
  BY <1>1 DEF OrderInv, ConsensusInv, FieldTypes, AppliesDecided, Prepared, AppendOtherStep,
         PendingGrows, NotAtRound
<1>17. FinishesInOrder'
  BY <1>1 DEF OrderInv, ConsensusInv, FieldTypes, FinishesInOrder, AppendOtherStep,
         PendingGrows, NotAtRound
<1>18. RestAreSent'
  BY <1>1 DEF OrderInv, RestInv, FieldTypes, RestAreSent, Rest, AppendOtherStep,
         PendingGrows, NotAtRound
<1>19. RestAfterFinished'
  BY <1>1 DEF OrderInv, RestInv, FieldTypes, RestAfterFinished, Rest, AppendOtherStep,
         PendingGrows, NotAtRound
<1>20. RestInOrder'
  BY <1>1 DEF OrderInv, RestInv, FieldTypes, RestInOrder, Rest, AppendOtherStep,
         PendingGrows, NotAtRound
<1>21. PrevCommitted'
  BY <1>1 DEF OrderInv, LogOrderInv, FieldTypes, PrevCommitted, AppendOtherStep,
         PendingGrows
<1>22. LiveAbovePrev'
  BY <1>1 DEF OrderInv, LogOrderInv, FieldTypes, LiveAbovePrev, Live, AppendOtherStep,
         PendingGrows
<1>23. LiveDistinct'
  BY <1>1 DEF OrderInv, LogOrderInv, FieldTypes, LiveDistinct, Live, AppendOtherStep,
         PendingGrows
<1>24. QueueInOrder'
  BY <1>1 DEF OrderInv, LogOrderInv, FieldTypes, QueueInOrder, Live, PreparesAt, QueuedOp,
         AppendOtherStep, PendingGrows
<1>25. PreparedFirst'
  BY <1>1 DEF OrderInv, LogOrderInv, FieldTypes, PreparedFirst, Live, Prepared, PreparesAt,
         QueuedOp, AppendOtherStep, PendingGrows
<1>26. AppliesLast'
  BY <1>1 DEF OrderInv, LogOrderInv, FieldTypes, AppliesLast, Live, Prepared,
         AppendOtherStep, PendingGrows
<1>27. TermsKnown'
  BY <1>1 DEF OrderInv, TermInv, FieldTypes, TermsKnown, AppendOtherStep, PendingGrows
<1>28. TermsGrow'
  BY <1>1 DEF OrderInv, TermInv, FieldTypes, TermsGrow, PreparesAt, QueuedOp,
         AppendOtherStep, PendingGrows
<1>29. HeldTermFirst'
  BY <1>1 DEF OrderInv, TermInv, FieldTypes, HeldTermFirst, PreparesAt, QueuedOp,
         AppendOtherStep, PendingGrows
<1>30. FollowedBefore'
  BY <1>1 DEF OrderInv, TermInv, FieldTypes, FollowedBefore, PreparesAt, QueuedOp,
         AppendOtherStep, PendingGrows
<1>31. NoOpByLeader'
  BY <1>1 DEF OrderInv, TermInv, FieldTypes, NoOpByLeader, AppendOtherStep, PendingGrows
<1> QED
  BY <1>2, <1>3, <1>4, <1>5, <1>6, <1>7, <1>8, <1>9, <1>10, <1>11, <1>12, <1>13, <1>14,
         <1>15, <1>16, <1>17, <1>18, <1>19, <1>20, <1>21, <1>22, <1>23, <1>24, <1>25, <1>26,
         <1>27, <1>28, <1>29, <1>30, <1>31
     DEF OrderInv, QueueInv, PrepareInv, HeldInv, PendingInv, ConsensusInv, RestInv,
            LogOrderInv, TermInv

\* StartFollowerOp(): a leader's op becomes a pending round and joins the queue.
FollowStep(o) ==
    /\ op[o].stage = "new"
    /\ role # "LEADER"
    /\ consensus_thread.pc = "idle"
    /\ StageTo(o, "driven") /\ ReplTo(o, "REPLICATING") /\ TermTo(o, term)
    /\ IdxTo(o, committed + PendingEnd)
    /\ SamePrep
    /\ PrepareJoins(o)
    /\ PendingGrows(OpRound(o))
    /\ \A x \in Ops : x # o => op'[x].ts = op[x].ts
    /\ UNCHANGED <<prepare_thread, consensus_thread, prev_idx, committed, term, role>>

LEMMA FollowKeepsOrder ==
    ASSUME OrderInv, ReplicaTypes', NEW o \in Ops, FollowStep(o)
    PROVE  OrderInv'
<1>1. FieldTypes
  BY FieldTypesHold DEF OrderInv
<1>2. /\ op[o].repl = "NOT_REPLICATING" /\ op[o].prep = "NOT_PREPARED"
      /\ op[o].idx = 0 /\ op[o].term = 0
  BY DEF OrderInv, FieldsInv, FieldsOf, FollowStep
<1>3. \A i \in DOMAIN prepare_queue : PreparesAt(i) => QueuedOp(i) # o
  BY <1>1 DEF OrderInv, QueueInv, QueuedUnprepared, FollowStep, Underway
<1>4. \A x \in Ops : Live(x) => op[x].idx < committed + PendingEnd
  BY <1>1 DEF OrderInv, FieldTypes, FieldsInv, FieldsOf, PendingInv, SentArePending,
     PendingAt, InRest, Rest, OnConsensus, Live, FollowStep, PendingGrows
<1>5. prepare_thread.pc # "idle" => prepare_thread.op # o
  BY <1>2 DEF OrderInv, PrepareInv, HoldsPrepared, Prepared
<1>6. FieldsInv'
  BY <1>1, <1>2 DEF OrderInv, FieldTypes, FieldsInv, FieldsOf, FollowStep, StageTo, ReplTo,
         IdxTo, TermTo, SamePrep, PrepareJoins, QueueGrows, PendingGrows
<1>7. QueuedUnprepared'
  BY <1>1, <1>2, <1>3 DEF OrderInv, QueueInv, FieldTypes, QueuedUnprepared, Underway,
         Prepared, FollowStep, StageTo, ReplTo, IdxTo, TermTo, SamePrep, PrepareJoins,
         QueueGrows, PendingGrows
<1>8. QueuedOnce'
  BY <1>1, <1>3 DEF OrderInv, QueueInv, FieldTypes, QueuedOnce, FollowStep, StageTo, ReplTo,
         IdxTo, TermTo, SamePrep, PrepareJoins, QueueGrows, PendingGrows
<1>9. UnpreparedQueued'
  BY <1>1 DEF OrderInv, QueueInv, FieldTypes, UnpreparedQueued, Underway, Prepared,
         FollowStep, StageTo, ReplTo, IdxTo, TermTo, SamePrep, PrepareJoins, QueueGrows,
         PendingGrows
<1>10. HoldsPrepared'
  BY <1>1, <1>5 DEF OrderInv, PrepareInv, FieldTypes, HoldsPrepared, Prepared, FollowStep,
         StageTo, ReplTo, IdxTo, TermTo, SamePrep, PrepareJoins, QueueGrows, PendingGrows
<1>11. HoldsLocal'
  BY <1>1, <1>5 DEF OrderInv, PrepareInv, FieldTypes, HoldsLocal, FollowStep, StageTo,
         ReplTo, IdxTo, TermTo, SamePrep, PrepareJoins, QueueGrows, PendingGrows
<1>12. HoldsUnsent'
  BY <1>1, <1>5 DEF OrderInv, PrepareInv, FieldTypes, HoldsUnsent, FollowStep, StageTo,
         ReplTo, IdxTo, TermTo, SamePrep, PrepareJoins, QueueGrows, PendingGrows
<1>13. HoldsDecided'
  BY <1>1, <1>5 DEF OrderInv, PrepareInv, FieldTypes, HoldsDecided, OnConsensus, Underway,
         FollowStep, StageTo, ReplTo, IdxTo, TermTo, SamePrep, PrepareJoins, QueueGrows,
         PendingGrows
<1>14. LocalHeld'
  BY <1>1, <1>2 DEF OrderInv, HeldInv, FieldTypes, LocalHeld, OnPrepare, Underway, Prepared,
         FollowStep, StageTo, ReplTo, IdxTo, TermTo, SamePrep, PrepareJoins, QueueGrows,
         PendingGrows
<1>15. UnsentHeld'
  BY <1>1 DEF OrderInv, HeldInv, FieldTypes, UnsentHeld, OnPrepare, FollowStep, StageTo,
         ReplTo, IdxTo, TermTo, SamePrep, PrepareJoins, QueueGrows, PendingGrows
<1>16. DecidedHeld'
  BY <1>1, <1>2 DEF OrderInv, HeldInv, FieldTypes, DecidedHeld, OnPrepare, OnConsensus,
         Underway, Prepared, FollowStep, StageTo, ReplTo, IdxTo, TermTo, SamePrep,
         PrepareJoins, QueueGrows, PendingGrows
<1>17. PendingAreSent'
  BY <1>1, <1>2 DEF OrderInv, PendingInv, FieldTypes, PendingAreSent, FollowStep, StageTo,
         ReplTo, IdxTo, TermTo, SamePrep, PrepareJoins, QueueGrows, PendingGrows, OpRound
<1>18. SentArePending'
  BY <1>1, <1>2 DEF OrderInv, PendingInv, FieldTypes, SentArePending, PendingAt, InRest,
         Rest, OnConsensus, FollowStep, StageTo, ReplTo, IdxTo, TermTo, SamePrep,
         PrepareJoins, QueueGrows, PendingGrows, OpRound
<1>19. FinishesSent'
  BY <1>1 DEF OrderInv, ConsensusInv, FieldTypes, FinishesSent, FollowStep, StageTo, ReplTo,
         IdxTo, TermTo, SamePrep, PrepareJoins, QueueGrows, PendingGrows
<1>20. AppliesDecided'
  BY <1>1 DEF OrderInv, ConsensusInv, FieldTypes, AppliesDecided, Prepared, FollowStep,
         StageTo, ReplTo, IdxTo, TermTo, SamePrep, PrepareJoins, QueueGrows, PendingGrows
<1>21. FinishesInOrder'
  BY <1>1 DEF OrderInv, ConsensusInv, FieldTypes, FinishesInOrder, FollowStep, StageTo,
         ReplTo, IdxTo, TermTo, SamePrep, PrepareJoins, QueueGrows, PendingGrows
<1>22. RestAreSent'
  BY <1>1 DEF OrderInv, RestInv, FieldTypes, RestAreSent, Rest, FollowStep, StageTo, ReplTo,
         IdxTo, TermTo, SamePrep, PrepareJoins, QueueGrows, PendingGrows
<1>23. RestAfterFinished'
  BY <1>1 DEF OrderInv, RestInv, FieldTypes, RestAfterFinished, Rest, FollowStep, StageTo,
         ReplTo, IdxTo, TermTo, SamePrep, PrepareJoins, QueueGrows, PendingGrows
<1>24. RestInOrder'
  BY <1>1 DEF OrderInv, RestInv, FieldTypes, RestInOrder, Rest, FollowStep, StageTo, ReplTo,
         IdxTo, TermTo, SamePrep, PrepareJoins, QueueGrows, PendingGrows
<1>25. PrevCommitted'
  BY <1>1 DEF OrderInv, LogOrderInv, FieldTypes, PrevCommitted, FollowStep, StageTo, ReplTo,
         IdxTo, TermTo, SamePrep, PrepareJoins, QueueGrows, PendingGrows
<1>26. LiveAbovePrev'
  BY <1>1, <1>2 DEF OrderInv, LogOrderInv, FieldTypes, LiveAbovePrev, Live, PrevCommitted,
         FollowStep, StageTo, ReplTo, IdxTo, TermTo, SamePrep, PrepareJoins, QueueGrows,
         PendingGrows
<1>27. LiveDistinct'
  BY <1>1, <1>2, <1>4 DEF OrderInv, LogOrderInv, FieldTypes, LiveDistinct, Live, FollowStep,
         StageTo, ReplTo, IdxTo, TermTo, SamePrep, PrepareJoins, QueueGrows, PendingGrows
<1>28. QueueInOrder'
  BY <1>1, <1>2, <1>3, <1>4 DEF OrderInv, LogOrderInv, FieldTypes, QueueInOrder, Live,
         FollowStep, StageTo, ReplTo, IdxTo, TermTo, SamePrep, PrepareJoins, QueueGrows,
         PendingGrows
<1>29. PreparedFirst'
  BY <1>1, <1>2, <1>3, <1>4 DEF OrderInv, LogOrderInv, FieldTypes, PreparedFirst, Live,
         Prepared, FollowStep, StageTo, ReplTo, IdxTo, TermTo, SamePrep, PrepareJoins,
         QueueGrows, PendingGrows
<1>30. AppliesLast'
  BY <1>1, <1>2, <1>5 DEF OrderInv, LogOrderInv, FieldTypes, AppliesLast, Live, Prepared,
         FollowStep, StageTo, ReplTo, IdxTo, TermTo, SamePrep, PrepareJoins, QueueGrows,
         PendingGrows
<1>31. TermsKnown'
  BY <1>1 DEF OrderInv, TermInv, FieldTypes, TermsKnown, FollowStep, StageTo, ReplTo, IdxTo,
         TermTo, SamePrep, PrepareJoins, QueueGrows, PendingGrows
<1>32. TermsGrow'
  BY <1>1, <1>3 DEF OrderInv, TermInv, FieldTypes, TermsGrow, TermsKnown, FollowStep,
         StageTo, ReplTo, IdxTo, TermTo, SamePrep, PrepareJoins, QueueGrows, PendingGrows
<1>33. HeldTermFirst'
  BY <1>1, <1>5, <1>3 DEF OrderInv, TermInv, FieldTypes, HeldTermFirst, TermsKnown,
         FollowStep, StageTo, ReplTo, IdxTo, TermTo, SamePrep, PrepareJoins, QueueGrows,
         PendingGrows
<1>34. FollowedBefore'
  BY <1>1, <1>2, <1>3 DEF OrderInv, TermInv, FieldTypes, FollowedBefore, FollowStep,
         StageTo, ReplTo, IdxTo, TermTo, SamePrep, PrepareJoins, QueueGrows, PendingGrows
<1>35. NoOpByLeader'
  BY <1>1 DEF OrderInv, TermInv, FieldTypes, NoOpByLeader, FollowStep, StageTo, ReplTo,
         IdxTo, TermTo, SamePrep, PrepareJoins, QueueGrows, PendingGrows
<1> QED
  BY <1>6, <1>7, <1>8, <1>9, <1>10, <1>11, <1>12, <1>13, <1>14, <1>15, <1>16, <1>17, <1>18,
         <1>19, <1>20, <1>21, <1>22, <1>23, <1>24, <1>25, <1>26, <1>27, <1>28, <1>29, <1>30,
         <1>31, <1>32, <1>33, <1>34, <1>35
     DEF OrderInv, QueueInv, PrepareInv, HeldInv, PendingInv, ConsensusInv, RestInv,
            LogOrderInv, TermInv

-----------------------------------------------------------------------------
(***************************************************************************)
(* Every action is one of these steps, and keeps the types                 *)
(***************************************************************************)
TxnType == [state : TxnStates, commit_op : 0 .. (kMax - 1), commit_ts : 0 .. (kMax - 1),
            lock : Participants \cup {NoOne}]

\* An update of one driver changes the fields it names.
LEMMA StageUpdate ==
    ASSUME op \in [Ops -> Driver], NEW o \in Ops, NEW v \in Stages,
           op' = [op EXCEPT ![o].stage = v]
    PROVE  /\ op' \in [Ops -> Driver] /\ StageTo(o, v)
           /\ SameRepl /\ SamePrep /\ SameIdx /\ SameTs /\ SameTerms /\ SameCommitTs
  BY DEF Driver, StageTo, SameRepl, SamePrep, SameIdx, SameTs, SameTerms, SameCommitTs

LEMMA ReplUpdate ==
    ASSUME op \in [Ops -> Driver], NEW o \in Ops, NEW v \in Replies,
           op' = [op EXCEPT ![o].repl = v]
    PROVE  /\ op' \in [Ops -> Driver] /\ ReplTo(o, v)
           /\ SameStages /\ SamePrep /\ SameIdx /\ SameTs /\ SameTerms /\ SameCommitTs
  BY DEF Driver, ReplTo, SameStages, SamePrep, SameIdx, SameTs, SameTerms, SameCommitTs

LEMMA PrepUpdate ==
    ASSUME op \in [Ops -> Driver], NEW o \in Ops, op' = [op EXCEPT ![o].prep = "PREPARED"]
    PROVE  /\ op' \in [Ops -> Driver] /\ PrepTo(o, "PREPARED")
           /\ SameStages /\ SameRepl /\ SameIdx /\ SameTs /\ SameTerms /\ SameCommitTs
  BY DEF Driver, PrepTo, SameStages, SameRepl, SameIdx, SameTs, SameTerms, SameCommitTs

LEMMA TsUpdate ==
    ASSUME op \in [Ops -> Driver], NEW o \in Ops, NEW t \in Timestamps,
           op' = [op EXCEPT ![o].ts = t]
    PROVE  /\ op' \in [Ops -> Driver] /\ TsTo(o, t)
           /\ SameStages /\ SameRepl /\ SamePrep /\ SameIdx /\ SameTerms /\ SameCommitTs
  BY ReplicaAssumption
  DEF Driver, Timestamps, TsTo, SameStages, SameRepl, SamePrep, SameIdx, SameTerms, SameCommitTs

LEMMA IdxUpdate ==
    ASSUME op \in [Ops -> Driver], NEW o \in Ops, NEW v \in Nat, op' = [op EXCEPT ![o].idx = v]
    PROVE  /\ op' \in [Ops -> Driver] /\ IdxTo(o, v)
           /\ SameStages /\ SameRepl /\ SamePrep /\ SameTs /\ SameTerms /\ SameCommitTs
  BY DEF Driver, IdxTo, SameStages, SameRepl, SamePrep, SameTs, SameTerms, SameCommitTs

LEMMA UnsentUpdate ==
    ASSUME op \in [Ops -> Driver], NEW o \in Ops,
           op' = [op EXCEPT ![o].stage = "failed", ![o].repl = "REPLICATION_FAILED"]
    PROVE  /\ op' \in [Ops -> Driver] /\ StageTo(o, "failed") /\ ReplTo(o, "REPLICATION_FAILED")
           /\ SamePrep /\ SameIdx /\ SameTs /\ SameTerms /\ SameCommitTs
  BY DEF Driver, Stages, Replies, StageTo, ReplTo, SamePrep, SameIdx, SameTs, SameTerms, SameCommitTs

CommitTsTo(o, v) ==
    op'[o].commit_ts = v /\ \A x \in Ops : x # o => op'[x].commit_ts = op[x].commit_ts

LEMMA ExecuteUpdate ==
    ASSUME op \in [Ops -> Driver], NEW o \in Ops, term \in 0 .. MaxTerm,
           NEW cts \in 0 .. (kMax - 1),
           op' = [op EXCEPT ![o] = [@ EXCEPT !.stage = "driven", !.term = term, !.commit_ts = cts]]
    PROVE  /\ op' \in [Ops -> Driver] /\ StageTo(o, "driven") /\ TermTo(o, term)
           /\ CommitTsTo(o, cts)
           /\ SameRepl /\ SamePrep /\ SameIdx /\ SameTs
  BY DEF Driver, Stages, StageTo, TermTo, CommitTsTo, SameRepl, SamePrep, SameIdx, SameTs

LEMMA FollowUpdate ==
    ASSUME op \in [Ops -> Driver], NEW o \in Ops, term \in 0 .. MaxTerm,
           NEW cts \in 0 .. (kMax - 1), NEW t \in Timestamps, NEW n \in Nat,
           op' = [op EXCEPT ![o] = [@ EXCEPT !.stage = "driven", !.ts = t, !.term = term,
                                             !.idx = n, !.repl = "REPLICATING",
                                             !.commit_ts = cts]]
    PROVE  /\ op' \in [Ops -> Driver] /\ StageTo(o, "driven") /\ ReplTo(o, "REPLICATING")
           /\ TermTo(o, term) /\ IdxTo(o, n) /\ TsTo(o, t) /\ CommitTsTo(o, cts) /\ SamePrep
<1>1. t \in 0 .. (kMax - 1)
  BY ReplicaAssumption DEF Timestamps
<1> QED
  BY <1>1 DEF Driver, Stages, Replies, StageTo, ReplTo, TermTo, IdxTo, TsTo, CommitTsTo, SamePrep

\* The types of what the steps give to the transaction, and of FINALIZE_COMMIT.
LEMMA TxnUpdates ==
    ASSUME txn \in TxnType, NEW o \in Ops
    PROVE  /\ Unlocked(o) \in TxnType
           /\ o \in Participants => [txn EXCEPT !.lock = o] \in TxnType
           /\ \A ts \in 0 .. (kMax - 1) :
                 [Unlocked(o) EXCEPT !.state = "COMMIT_IN_PROGRESS", !.commit_op = ts] \in TxnType
           /\ \A ts \in 0 .. (kMax - 1) :
                 [Unlocked(o) EXCEPT !.state = "COMMITTED", !.commit_ts = ts] \in TxnType
           /\ [Unlocked(o) EXCEPT !.state = "ABORTED"] \in TxnType
<1>1. Unlocked(o) \in TxnType
  BY DEF Unlocked, TxnType
<1>2. o \in Participants => [txn EXCEPT !.lock = o] \in TxnType
  BY DEF TxnType
<1> QED
  BY <1>1, <1>2 DEF TxnType, TxnStates

LEMMA FinalizeType == \A o \in Ops : FinalizeTimestamps(o) \subseteq 0 .. (kMax - 1)
  BY ReplicaAssumption DEF FinalizeTimestamps, Timestamps

\* The parts of the types, as the lemmas above take them.
LEMMA TypeParts ==
    ASSUME OrderInv
    PROVE  /\ ReplicaTypes /\ DriverTypes /\ RaftTypes
           /\ op \in [Ops -> Driver] /\ txn \in TxnType /\ term \in 0 .. MaxTerm
  BY DEF OrderInv, ReplicaTypes, DriverTypes, RaftTypes, TxnType

LEMMA TypesStep ==
    ASSUME op' \in [Ops -> Driver], prepare_queue' \in Seq(Task),
           prepare_thread' \in OnPrepareThread, consensus_thread' \in OnConsensusThread,
           prev_idx' \in Nat, txn' \in TxnType, RaftTypes'
    PROVE  ReplicaTypes'
  BY DEF ReplicaTypes, DriverTypes, TxnType

LEMMA ExecuteIs ==
    ASSUME OrderInv, NEW o \in Ops, ExecuteAsync(o)
    PROVE  /\ ReplicaTypes' /\ ExecuteStep(o)
           /\ \E cts \in FinalizeTimestamps(o) : CommitTsTo(o, cts)
<1>1. PICK cts \in FinalizeTimestamps(o) :
         op' = [op EXCEPT ![o] = [@ EXCEPT !.stage = "driven", !.term = term, !.commit_ts = cts]]
  BY DEF ExecuteAsync
<1>2. /\ op' \in [Ops -> Driver] /\ StageTo(o, "driven") /\ TermTo(o, term)
      /\ CommitTsTo(o, cts) /\ SameRepl /\ SamePrep /\ SameIdx /\ SameTs
  BY <1>1, TypeParts, ExecuteUpdate, FinalizeType
<1>3. prepare_queue' \in Seq(Task) /\ PrepareJoins(o)
  BY TypeParts, JoinIs, AppendFacts, MadeRecords DEF ExecuteAsync, DriverTypes
<1>4. ReplicaTypes'
  BY <1>2, <1>3, TypeParts, TypesStep
     DEF ReplicaTypes, DriverTypes, RaftTypes, ExecuteAsync, raftVars
<1> QED
  BY <1>2, <1>3, <1>4 DEF ExecuteAsync, ExecuteStep, raftVars

\* The task at the head of the queue.
LEMMA HeadIs ==
    ASSUME OrderInv, prepare_queue # <<>>, prepare_queue' = Tail(prepare_queue)
    PROVE  /\ prepare_queue' \in Seq(Task) /\ QueueShifts
           /\ Head(prepare_queue) = prepare_queue[1]
           /\ Head(prepare_queue).kind = "PREPARE" =>
                 /\ PreparesAt(1) /\ Head(prepare_queue).op = QueuedOp(1) /\ QueuedOp(1) \in Ops
           /\ Head(prepare_queue).kind = "LOWER_BOUND" =>
                 ~PreparesAt(1) /\ Head(prepare_queue).ts \in Timestamps
<1>1. /\ QueueShifts /\ Head(prepare_queue) = prepare_queue[1] /\ prepare_queue[1] \in Task
      /\ prepare_queue' \in Seq(Task)
  BY ShiftIs, TypeParts, TailFacts DEF DriverTypes
<1> QED
  BY <1>1, TaskFields DEF PreparesAt, QueuedOp, QueueShifts

LEMMA PrepareFailsIs ==
    ASSUME OrderInv, PrepareFails
    PROVE  ReplicaTypes' /\ QueuedOp(1) \in Ops /\ RefuseStep(QueuedOp(1)) /\ SameCommitTs
<1> DEFINE o == QueuedOp(1)
<1>1. /\ prepare_queue' \in Seq(Task) /\ QueueShifts /\ PreparesAt(1)
      /\ Head(prepare_queue).op = o /\ o \in Ops
  BY HeadIs DEF PrepareFails, AtHead
<1>2. op[o].repl = "NOT_REPLICATING" /\ op' = [op EXCEPT ![o].stage = "failed"]
  BY <1>1 DEF PrepareFails
<1>3. /\ op' \in [Ops -> Driver] /\ StageTo(o, "failed")
      /\ SameRepl /\ SamePrep /\ SameIdx /\ SameTs /\ SameTerms /\ SameCommitTs
  BY <1>1, <1>2, TypeParts, StageUpdate DEF Stages
<1>4. ReplicaTypes'
  BY <1>1, <1>3, TypeParts, TypesStep
     DEF ReplicaTypes, DriverTypes, RaftTypes, PrepareFails, raftVars
<1> QED
  BY <1>1, <1>2, <1>3, <1>4 DEF PrepareFails, AtHead, RefuseStep, raftVars

LEMMA PrepareIs ==
    ASSUME OrderInv, Prepare
    PROVE  /\ ReplicaTypes' /\ QueuedOp(1) \in Ops
           /\ IF /\ QueuedOp(1) \in FinalizeCommits /\ op[QueuedOp(1)].repl = "NOT_REPLICATING"
                 /\ mode = "NON_LEADER"
              THEN RefuseStep(QueuedOp(1)) /\ txn' = txn /\ SameCommitTs
              ELSE /\ PrepareStep(QueuedOp(1))
                   /\ txn' = IF QueuedOp(1) \in Participants
                             THEN [txn EXCEPT !.lock = QueuedOp(1)] ELSE txn
<1> DEFINE o == QueuedOp(1)
           refused == o \in FinalizeCommits /\ op[o].repl = "NOT_REPLICATING" /\ mode = "NON_LEADER"
<1>1. /\ prepare_queue' \in Seq(Task) /\ QueueShifts /\ PreparesAt(1)
      /\ Head(prepare_queue).op = o /\ o \in Ops
  BY HeadIs DEF Prepare, AtHead
<1>2. /\ refused => op' = [op EXCEPT ![o].stage = "failed"] /\ UNCHANGED <<prepare_thread, txn>>
      /\ ~refused => /\ op' = [op EXCEPT ![o].prep = "PREPARED"]
                     /\ prepare_thread' = PrepareNext(o)
                     /\ txn' = IF o \in Participants THEN [txn EXCEPT !.lock = o] ELSE txn
      /\ prepare_thread.pc = "idle"
      /\ UNCHANGED <<raftVars, consensus_thread, prev_idx>>
  BY <1>1 DEF Prepare, AtHead
<1>3. CASE refused
  <2>1. /\ op' \in [Ops -> Driver] /\ StageTo(o, "failed")
        /\ SameRepl /\ SamePrep /\ SameIdx /\ SameTs /\ SameTerms /\ SameCommitTs
    BY <1>1, <1>2, <1>3, TypeParts, StageUpdate DEF Stages
  <2>2. ReplicaTypes'
    BY <1>1, <1>2, <1>3, <2>1, TypeParts, TypesStep DEF ReplicaTypes, DriverTypes, RaftTypes, raftVars
  <2> QED
    BY <1>1, <1>2, <1>3, <2>1, <2>2 DEF RefuseStep, raftVars
<1>4. CASE ~refused
  <2>1. /\ op' \in [Ops -> Driver] /\ PrepTo(o, "PREPARED")
        /\ SameStages /\ SameRepl /\ SameIdx /\ SameTs /\ SameTerms /\ SameCommitTs
    BY <1>1, <1>2, <1>4, TypeParts, PrepUpdate
  <2>2. op[o].repl \in Replies
    BY <1>1, TypeParts DEF Driver
  <2>3. \/ op[o].repl = "NOT_REPLICATING" /\ prepare_thread' = [pc |-> "assign", op |-> o]
        \/ op[o].repl = "REPLICATING" /\ prepare_thread' = Idle
        \/ /\ op[o].repl \in {"REPLICATED", "REPLICATION_FAILED"}
           /\ prepare_thread' = [pc |-> "apply", op |-> o]
    BY <1>2, <1>4, <2>2 DEF PrepareNext, Replies
  <2>4. prepare_thread' \in OnPrepareThread
    BY <1>1, <2>3, MadeThreads
  <2>5. txn' \in TxnType
    BY <1>1, <1>2, <1>4, TypeParts, TxnUpdates
  <2>6. ReplicaTypes'
    BY <1>1, <1>2, <2>1, <2>4, <2>5, TypeParts, TypesStep
       DEF ReplicaTypes, DriverTypes, RaftTypes, raftVars
  <2> QED
    BY <1>1, <1>2, <1>4, <2>1, <2>3, <2>6 DEF PrepareStep, raftVars
<1> QED
  BY <1>1, <1>3, <1>4

LEMMA AssignIs ==
    ASSUME OrderInv, AssignTimestamp
    PROVE  /\ ReplicaTypes' /\ prepare_thread.op \in Ops
           /\ IF mode = "LEADER"
              THEN /\ AssignStep(prepare_thread.op)
                   /\ \E t \in Timestamps :
                         /\ TM!AssignTimestamp(GetMessageConsistencyMode(prepare_thread.op), t)
                         /\ TsTo(prepare_thread.op, t)
                   /\ SameCommitTs /\ UNCHANGED <<mvccVars, txn>>
              ELSE /\ AssignFailStep(prepare_thread.op) /\ SameCommitTs
                   /\ HandleFailure(prepare_thread.op) /\ UNCHANGED timeVars
<1> DEFINE o == prepare_thread.op
<1>1. o \in Ops /\ prepare_thread.pc = "assign"
  BY ThreadFields, TypeParts DEF AssignTimestamp
<1>2. CASE mode = "LEADER"
  <2>1. PICK t \in Timestamps :
           /\ TM!AssignTimestamp(GetMessageConsistencyMode(o), t)
           /\ op' = [op EXCEPT ![o].ts = t]
           /\ prepare_thread' = [pc |-> "start", op |-> o]
           /\ UNCHANGED <<mvccVars, txn>>
    BY <1>2 DEF AssignTimestamp
  <2>2. /\ op' \in [Ops -> Driver] /\ TsTo(o, t)
        /\ SameStages /\ SameRepl /\ SamePrep /\ SameIdx /\ SameTerms /\ SameCommitTs
    BY <1>1, <2>1, TypeParts, TsUpdate
  <2>3. prepare_thread' \in OnPrepareThread
    BY <1>1, <2>1, MadeThreads
  <2>4. ReplicaTypes'
    BY <2>1, <2>2, <2>3, TypeParts, TypesStep
       DEF ReplicaTypes, DriverTypes, RaftTypes, AssignTimestamp, raftVars
  <2> QED
    BY <1>1, <1>2, <2>1, <2>2, <2>4 DEF AssignStep, TsTo, AssignTimestamp, raftVars
<1>3. CASE mode # "LEADER"
  <2>1. /\ HandleFailure(o) /\ op' = [op EXCEPT ![o].stage = "failed"] /\ prepare_thread' = Idle
        /\ UNCHANGED timeVars
    BY <1>3 DEF AssignTimestamp
  <2>2. /\ op' \in [Ops -> Driver] /\ StageTo(o, "failed")
        /\ SameRepl /\ SamePrep /\ SameIdx /\ SameTs /\ SameTerms /\ SameCommitTs
    BY <1>1, <2>1, TypeParts, StageUpdate DEF Stages
  <2>3. txn' \in TxnType
    BY <1>1, <2>1, TypeParts, TxnUpdates DEF HandleFailure
  <2>4. ReplicaTypes'
    BY <2>1, <2>2, <2>3, TypeParts, TypesStep, MadeThreads
       DEF ReplicaTypes, DriverTypes, RaftTypes, AssignTimestamp, raftVars
  <2> QED
    BY <1>1, <1>3, <2>1, <2>2, <2>4 DEF AssignFailStep, AssignTimestamp, raftVars
<1> QED
  BY <1>2, <1>3

LEMMA StartIs ==
    ASSUME OrderInv, Start
    PROVE  /\ ReplicaTypes' /\ prepare_thread.op \in Ops /\ StartStep(prepare_thread.op)
           /\ SameCommitTs
<1> DEFINE o == prepare_thread.op
<1>1. o \in Ops /\ prepare_thread.pc = "start"
  BY ThreadFields, TypeParts DEF Start
<1>2. /\ op' \in [Ops -> Driver] /\ ReplTo(o, "REPLICATING")
      /\ SameStages /\ SamePrep /\ SameIdx /\ SameTs /\ SameTerms /\ SameCommitTs
  BY <1>1, TypeParts, ReplUpdate DEF Start, Replies
<1>3. prepare_thread' = [pc |-> "replicate", op |-> o] /\ prepare_thread' \in OnPrepareThread
  BY <1>1, MadeThreads DEF Start
<1>4. ReplicaTypes'
  BY <1>2, <1>3, TypeParts, TypesStep DEF ReplicaTypes, DriverTypes, RaftTypes, Start, raftVars
<1> QED
  BY <1>1, <1>2, <1>3, <1>4 DEF StartStep, Start, raftVars

LEMMA ReplicateIs ==
    ASSUME OrderInv, Replicate
    PROVE  /\ ReplicaTypes' /\ prepare_thread.op \in Ops
           /\ IF CheckBoundTerm(prepare_thread.op)
              THEN ReplicateStep(prepare_thread.op) /\ SameCommitTs
              ELSE ReplicateFailStep(prepare_thread.op) /\ SameCommitTs
<1> DEFINE o == prepare_thread.op
<1>1. o \in Ops /\ prepare_thread.pc = "replicate"
  BY ThreadFields, TypeParts DEF Replicate
<1>2. CASE CheckBoundTerm(o)
  <2>1. /\ pending' = Append(pending, OpRound(o))
        /\ op' = [op EXCEPT ![o].idx = NextIndex]
        /\ UNCHANGED <<mvccVars, txn>>
    BY <1>2 DEF Replicate
  <2>2. pending' \in Seq(Round) /\ PendingGrows(OpRound(o))
    BY <1>1, <2>1, TypeParts, PendingGrowIs, AppendFacts, MadeRecords DEF RaftTypes
  <2>3. NextIndex = committed + PendingEnd /\ NextIndex \in Nat
    BY TypeParts, SeqFacts DEF NextIndex, PendingEnd, RaftTypes
  <2>4. /\ op' \in [Ops -> Driver] /\ IdxTo(o, NextIndex)
        /\ SameStages /\ SameRepl /\ SamePrep /\ SameTs /\ SameTerms /\ SameCommitTs
    BY <1>1, <2>1, <2>3, TypeParts, IdxUpdate
  <2>5. ReplicaTypes'
    BY <2>1, <2>2, <2>4, TypeParts, TypesStep, MadeThreads
       DEF ReplicaTypes, DriverTypes, RaftTypes, Replicate
  <2> QED
    BY <1>1, <1>2, <2>2, <2>3, <2>4, <2>5 DEF ReplicateStep, Replicate
<1>3. CASE ~CheckBoundTerm(o)
  <2>1. /\ HandleFailure(o)
        /\ op' = [op EXCEPT ![o].stage = "failed", ![o].repl = "REPLICATION_FAILED"]
        /\ UNCHANGED <<timeVars, pending>>
    BY <1>3 DEF Replicate
  <2>2. /\ op' \in [Ops -> Driver] /\ StageTo(o, "failed") /\ ReplTo(o, "REPLICATION_FAILED")
        /\ SamePrep /\ SameIdx /\ SameTs /\ SameTerms /\ SameCommitTs
    BY <1>1, <2>1, TypeParts, UnsentUpdate
  <2>3. txn' \in TxnType
    BY <1>1, <2>1, TypeParts, TxnUpdates DEF HandleFailure
  <2>4. ReplicaTypes'
    BY <2>1, <2>2, <2>3, TypeParts, TypesStep, MadeThreads
       DEF ReplicaTypes, DriverTypes, RaftTypes, Replicate
  <2> QED
    BY <1>1, <1>3, <2>1, <2>2, <2>4 DEF ReplicateFailStep, Replicate
<1> QED
  BY <1>1, <1>2, <1>3

\* ApplyAsync(), on either thread.
LEMMA ApplyAsyncIs ==
    ASSUME OrderInv, NEW o \in Ops, ApplyAsync(o)
    PROVE  /\ op' \in [Ops -> Driver] /\ txn' \in TxnType /\ prev_idx' \in Nat
           /\ SameRepl /\ SamePrep /\ SameIdx /\ SameTs /\ SameTerms /\ SameCommitTs
           /\ op[o].repl = "REPLICATED" => StageTo(o, "submitted") /\ prev_idx' = op[o].idx
           /\ op[o].repl # "REPLICATED" => StageTo(o, "failed") /\ prev_idx' = prev_idx
<1>1. CASE op[o].repl = "REPLICATED"
  <2>1. /\ op' = [op EXCEPT ![o].stage = "submitted"] /\ prev_idx' = op[o].idx /\ txn' = txn
    BY <1>1 DEF ApplyAsync
  <2>2. /\ op' \in [Ops -> Driver] /\ StageTo(o, "submitted")
        /\ SameRepl /\ SamePrep /\ SameIdx /\ SameTs /\ SameTerms /\ SameCommitTs
    BY <2>1, TypeParts, StageUpdate DEF Stages
  <2>3. prev_idx' \in Nat
    BY <2>1, TypeParts DEF Driver
  <2> QED
    BY <1>1, <2>1, <2>2, <2>3, TypeParts
<1>2. CASE op[o].repl # "REPLICATED"
  <2>1. HandleFailure(o) /\ op' = [op EXCEPT ![o].stage = "failed"] /\ prev_idx' = prev_idx
    BY <1>2 DEF ApplyAsync
  <2>2. /\ op' \in [Ops -> Driver] /\ StageTo(o, "failed")
        /\ SameRepl /\ SamePrep /\ SameIdx /\ SameTs /\ SameTerms /\ SameCommitTs
    BY <2>1, TypeParts, StageUpdate DEF Stages
  <2>3. txn' \in TxnType
    BY <2>1, TypeParts, TxnUpdates DEF HandleFailure
  <2> QED
    BY <1>2, <2>1, <2>2, <2>3, TypeParts DEF DriverTypes
<1> QED
  BY <1>1, <1>2

LEMMA PrepareThreadAppliesIs ==
    ASSUME OrderInv, PrepareThreadApplies
    PROVE  /\ ReplicaTypes' /\ prepare_thread.op \in Ops /\ SameCommitTs
           /\ IF op[prepare_thread.op].repl = "REPLICATED"
              THEN SubmitStep(prepare_thread.op)
              ELSE ApplyFailStep(prepare_thread.op)
<1> DEFINE o == prepare_thread.op
<1>1. o \in Ops /\ prepare_thread.pc = "apply" /\ ApplyAsync(o) /\ prepare_thread' = Idle
  BY ThreadFields, TypeParts DEF PrepareThreadApplies
<1>2. /\ op' \in [Ops -> Driver] /\ txn' \in TxnType /\ prev_idx' \in Nat
      /\ SameRepl /\ SamePrep /\ SameIdx /\ SameTs /\ SameTerms /\ SameCommitTs
      /\ op[o].repl = "REPLICATED" => StageTo(o, "submitted") /\ prev_idx' = op[o].idx
      /\ op[o].repl # "REPLICATED" => StageTo(o, "failed") /\ prev_idx' = prev_idx
  BY <1>1, ApplyAsyncIs
<1>3. ReplicaTypes'
  BY <1>1, <1>2, TypeParts, TypesStep, MadeThreads
     DEF ReplicaTypes, DriverTypes, RaftTypes, PrepareThreadApplies, raftVars
<1> QED
  BY <1>1, <1>2, <1>3 DEF SubmitStep, ApplyFailStep, PrepareThreadApplies, raftVars

LEMMA AdjustLowerBoundIs ==
    ASSUME OrderInv, AdjustLowerBound
    PROVE  /\ ReplicaTypes' /\ LowerBoundStep
           /\ prepare_queue[1].kind = "LOWER_BOUND" /\ prepare_queue[1].ts \in Timestamps
           /\ M!AdjustNewOpLowerBound(prepare_queue[1].ts)
<1>1. /\ prepare_queue' \in Seq(Task) /\ QueueShifts /\ ~PreparesAt(1)
      /\ Head(prepare_queue) = prepare_queue[1]
      /\ Head(prepare_queue).kind = "LOWER_BOUND" /\ Head(prepare_queue).ts \in Timestamps
  BY HeadIs DEF AdjustLowerBound, AtHead
<1>2. ReplicaTypes'
  BY <1>1, TypeParts, TypesStep
     DEF ReplicaTypes, DriverTypes, RaftTypes, TxnType, AdjustLowerBound, raftVars
<1> QED
  BY <1>1, <1>2 DEF AdjustLowerBound, LowerBoundStep, raftVars

LEMMA ApplyStepIs ==
    ASSUME OrderInv, NEW o \in Ops, ApplyStep(o)
    PROVE  ReplicaTypes' /\ PoolStep(o) /\ SameCommitTs
<1>1. PICK v \in {"applying", "applied"} : op' = [op EXCEPT ![o].stage = v]
  BY DEF ApplyStep, ApplyWrite, FinishWrite, ApplyBeginCommit, ApplyFinalizeCommit,
     FinishFinalizeCommit, ApplyAbortTxn
<1>2. /\ op[o].stage \in {"submitted", "applying"}
      /\ UNCHANGED <<timeVars, raftVars, prepare_queue, prepare_thread, consensus_thread, prev_idx>>
  BY DEF ApplyStep, ApplyWrite, FinishWrite, ApplyBeginCommit, ApplyFinalizeCommit,
     FinishFinalizeCommit, ApplyAbortTxn
<1>3. /\ op' \in [Ops -> Driver] /\ StageTo(o, v)
      /\ SameRepl /\ SamePrep /\ SameIdx /\ SameTs /\ SameTerms /\ SameCommitTs
  BY <1>1, TypeParts, StageUpdate DEF Stages
<1>4. op[o].ts \in 0 .. (kMax - 1) /\ op[o].commit_ts \in 0 .. (kMax - 1)
  BY TypeParts DEF Driver
<1>5. txn' \in TxnType
  <2>1. \/ txn' = txn
        \/ txn' = [Unlocked(o) EXCEPT !.state = "COMMIT_IN_PROGRESS", !.commit_op = op[o].ts]
        \/ txn' = [Unlocked(o) EXCEPT !.state = "COMMITTED", !.commit_ts = op[o].commit_ts]
        \/ txn' = [Unlocked(o) EXCEPT !.state = "ABORTED"]
    BY DEF ApplyStep, ApplyWrite, FinishWrite, ApplyBeginCommit, ApplyFinalizeCommit,
       FinishFinalizeCommit, ApplyAbortTxn
  <2>2. [Unlocked(o) EXCEPT !.state = "COMMIT_IN_PROGRESS", !.commit_op = op[o].ts] \in TxnType
    BY <1>4, TypeParts, TxnUpdates
  <2>3. [Unlocked(o) EXCEPT !.state = "COMMITTED", !.commit_ts = op[o].commit_ts] \in TxnType
    BY <1>4, TypeParts, TxnUpdates
  <2>4. [Unlocked(o) EXCEPT !.state = "ABORTED"] \in TxnType
    BY TypeParts, TxnUpdates
  <2> QED
    BY <2>1, <2>2, <2>3, <2>4, TypeParts
<1>6. ReplicaTypes'
  BY <1>2, <1>3, <1>5, TypeParts, TypesStep DEF ReplicaTypes, DriverTypes, RaftTypes, raftVars
<1> QED
  BY <1>2, <1>3, <1>6 DEF PoolStep, StageTo, raftVars

LEMMA CommitRoundIs ==
    ASSUME OrderInv, CommitRound
    PROVE  /\ ReplicaTypes' /\ pending[1] \in Round /\ PendingShifts
           /\ TM!AdvanceSafeTimeWithMessage(RoundMode(pending[1]), RoundTs(pending[1]))
           /\ IF pending[1].kind = "OP"
              THEN /\ pending[1].op \in Ops /\ CommitOpStep(pending[1].op)
                   /\ UNCHANGED prepare_queue
              ELSE /\ CommitOtherStep
                   /\ \A i \in DOMAIN prepare_queue' :
                         \/ i \in DOMAIN prepare_queue /\ prepare_queue'[i] = prepare_queue[i]
                         \/ prepare_queue'[i].ts = pending[1].ts
<1>1. /\ PendingShifts /\ Head(pending) = pending[1] /\ pending[1] \in Round
      /\ pending' \in Seq(Round) /\ committed' \in Nat
  BY TypeParts, PendingShiftIs, TailFacts DEF CommitRound, RaftTypes
<1> DEFINE r == pending[1]
<1>2. RaftTypes'
  BY <1>1, TypeParts DEF CommitRound, RaftTypes
<1>3. CASE r.kind = "OP"
  <2>1. r.op \in Ops
    BY <1>1, <1>3, RoundFields
  <2>2. /\ consensus_thread' = [pc |-> "finish", op |-> r.op, ok |-> TRUE, rest |-> <<>>]
        /\ prepare_queue' = prepare_queue
    BY <1>1, <1>3 DEF CommitRound
  <2>3. consensus_thread' \in OnConsensusThread
    <3>1. TRUE \in BOOLEAN /\ <<>> \in Seq(Round)
      OBVIOUS
    <3> QED
      BY <2>1, <2>2, <3>1, MadeThreads
  <2>4. ReplicaTypes'
    BY <1>2, <2>2, <2>3, TypeParts, TypesStep DEF CommitRound, DriverTypes
  <2> QED
    BY <1>1, <1>3, <2>1, <2>2, <2>4 DEF CommitRound, CommitOpStep, ConsensusIdle
<1>4. CASE r.kind # "OP"
  <2>1. r.ts \in Timestamps
    BY <1>1, <1>4, RoundFields
  <2> DEFINE task == [kind |-> "LOWER_BOUND", ts |-> r.ts]
  <2>2. /\ \/ prepare_queue' = prepare_queue
           \/ prepare_queue' = Append(prepare_queue, task)
        /\ consensus_thread' = consensus_thread
    BY <1>1, <1>4 DEF CommitRound, FinishConsensusOnlyRound
  <2>3. task \in Task /\ task.kind = "LOWER_BOUND" /\ task.ts = r.ts
    BY <2>1, MadeRecords
  <2> HIDE DEF task
  <2>4. /\ prepare_queue' \in Seq(Task)
        /\ \A i \in DOMAIN prepare_queue :
              /\ i \in DOMAIN prepare_queue'
              /\ PreparesAt(i)' <=> PreparesAt(i)
              /\ QueuedOp(i)' = QueuedOp(i)
        /\ \A i \in DOMAIN prepare_queue' : i \notin DOMAIN prepare_queue => ~PreparesAt(i)'
        /\ \A i \in DOMAIN prepare_queue' :
              \/ i \in DOMAIN prepare_queue /\ prepare_queue'[i] = prepare_queue[i]
              \/ prepare_queue'[i].ts = r.ts
    <3>1. CASE prepare_queue' = prepare_queue
      BY <3>1, TypeParts DEF DriverTypes, PreparesAt, QueuedOp
    <3>2. CASE prepare_queue' = Append(prepare_queue, task)
      <4>1. QueueGrows(task) /\ prepare_queue' \in Seq(Task)
        BY <2>3, <3>2, TypeParts, GrowIs, AppendFacts DEF DriverTypes
      <4> QED
        BY <2>3, <4>1 DEF QueueGrows, PreparesAt
    <3> QED
      BY <2>2, <3>1, <3>2
  <2>5. ReplicaTypes'
    BY <1>2, <2>2, <2>4, TypeParts, TypesStep DEF CommitRound, DriverTypes
  <2> QED
    BY <1>1, <1>4, <2>2, <2>4, <2>5 DEF CommitRound, CommitOtherStep, ConsensusIdle, NotAtRound
<1> QED
  BY <1>1, <1>3, <1>4

LEMMA AbortOpsAfterIs ==
    ASSUME OrderInv, AbortOpsAfter
    PROVE  ReplicaTypes' /\ \E k \in Nat : AbortAfterStep(k)
<1>1. PICK k \in 0 .. (Len(pending) - 1) :
         /\ consensus_thread' = [pc |-> "aborting", rest |-> SubSeq(pending, k + 1, Len(pending))]
         /\ pending' = SubSeq(pending, 1, k)
  BY DEF AbortOpsAfter
<1> DEFINE n == Len(pending)
           last == SubSeq(pending, k + 1, n)
<1>2. /\ n \in Nat /\ k \in Nat /\ k < n /\ pending \in Seq(Round) /\ DOMAIN pending = 1 .. n
  BY TypeParts, SeqFacts DEF RaftTypes
<1>3. /\ last \in Seq(Round) /\ Len(last) = n - k /\ \A i \in 1 .. n - k : last[i] = pending[k + i]
      /\ pending' \in Seq(Round) /\ Len(pending') = k /\ \A i \in 1 .. k : pending'[i] = pending[i]
  <2>1. /\ k + 1 \in 1 .. n + 1 /\ n \in (k + 1) - 1 .. n /\ n - (k + 1) + 1 = n - k
        /\ 1 \in 1 .. n + 1 /\ k \in 1 - 1 .. n /\ k - 1 + 1 = k
        /\ \A i \in Nat : (k + 1) + i - 1 = k + i /\ 1 + i - 1 = i
    BY <1>2
  <2>2. /\ last \in Seq(Round) /\ Len(last) = n - (k + 1) + 1
        /\ \A i \in 1 .. n - (k + 1) + 1 : last[i] = pending[(k + 1) + i - 1]
    BY <1>2, <2>1, SubSeqFacts
  <2>3. /\ pending' \in Seq(Round) /\ Len(pending') = k - 1 + 1
        /\ \A i \in 1 .. k - 1 + 1 : pending'[i] = pending[1 + i - 1]
    BY <1>1, <1>2, <2>1, SubSeqFacts
  <2> HIDE DEF last
  <2> QED
    BY <1>2, <2>1, <2>2, <2>3
<1> HIDE DEF last
<1>4. DOMAIN last = 1 .. n - k /\ DOMAIN pending' = 1 .. k
  BY <1>2, <1>3, SeqFacts
<1>5. consensus_thread' \in OnConsensusThread /\ Rest' = last /\ consensus_thread'.pc = "aborting"
  <2>1. last # <<>>
    BY <1>2, <1>3
  <2>2. consensus_thread' = [pc |-> "aborting", rest |-> last]
    BY <1>1 DEF last
  <2> QED
    BY <1>3, <2>1, <2>2 DEF OnConsensusThread, Rest
<1>6. ReplicaTypes'
  BY <1>3, <1>5, TypeParts, TypesStep DEF AbortOpsAfter, DriverTypes, RaftTypes
<1>7. AbortAfterStep(k)
  <2>1. \A i \in DOMAIN last : i \in Nat /\ i + k \in DOMAIN pending /\ last[i] = pending[i + k]
    BY <1>2, <1>3, <1>4
  <2>2. \A i \in DOMAIN pending' : /\ i \in DOMAIN pending /\ pending'[i] = pending[i]
                                 /\ \A j \in DOMAIN last : i < j + k
    BY <1>2, <1>3, <1>4
  <2>3. ASSUME NEW i \in DOMAIN pending, i \notin DOMAIN pending'
        PROVE  i - k \in DOMAIN last /\ last[i - k] = pending[i]
    <3>1. i - k \in 1 .. n - k /\ k + (i - k) = i
      BY <1>2, <1>4, <2>3
    <3> QED
      BY <1>3, <1>4, <3>1
  <2> QED
    BY <1>5, <2>1, <2>2, <2>3 DEF AbortAfterStep, AbortOpsAfter, ConsensusIdle
<1> QED
  BY <1>2, <1>6, <1>7

\* Aborting(rest) leaves the thread idle or with rounds to abort.
LEMMA AbortingIs ==
    ASSUME NEW rest \in Seq(Round), consensus_thread' = Aborting(rest)
    PROVE  /\ consensus_thread' \in OnConsensusThread
           /\ consensus_thread'.pc \in {"idle", "aborting"} /\ Rest' = rest
  BY MadeThreads DEF Aborting, Rest, Idle

LEMMA AbortRoundIs ==
    ASSUME OrderInv, AbortRound
    PROVE  /\ ReplicaTypes' /\ 1 \in DOMAIN Rest
           /\ IF Rest[1].kind = "OP"
              THEN /\ Rest[1].op \in Ops /\ AbortOpStep(Rest[1].op) /\ SameCommitTs
                   /\ IF Rest[1].op \in RowOps THEN M!AbortOp(op[Rest[1].op].ts)
                      ELSE UNCHANGED mvccVars
              ELSE AbortOtherStep /\ UNCHANGED mvccVars
<1>1. /\ consensus_thread.pc = "aborting" /\ consensus_thread.rest \in Seq(Round)
      /\ consensus_thread.rest # <<>> /\ Rest = consensus_thread.rest
  BY TypeParts, ThreadFields DEF AbortRound, Rest
<1> DEFINE rest == Tail(Rest)
           o == Rest[1].op
<1>2. /\ Len(Rest) \in Nat /\ Len(Rest) >= 1 /\ DOMAIN Rest = 1 .. Len(Rest)
      /\ rest \in Seq(Round) /\ DOMAIN rest = 1 .. Len(Rest) - 1
      /\ \A i \in 1 .. Len(Rest) - 1 : rest[i] = Rest[i + 1]
      /\ Head(Rest) = Rest[1] /\ Rest[1] \in Round
  BY <1>1, TailFacts, SeqFacts
<1>3. Rest' = rest => RestShifts
  BY <1>2 DEF RestShifts
<1>4. CASE Rest[1].kind = "OP"
  <2>1. o \in Ops
    BY <1>2, <1>4, RoundFields
  <2>2. /\ consensus_thread' = [pc |-> "finish", op |-> o, ok |-> FALSE, rest |-> rest]
        /\ IF o \in RowOps
           THEN M!AbortOp(op[o].ts) /\ op' = [op EXCEPT ![o].stage = "mvcc_aborted"]
           ELSE UNCHANGED <<mvccVars, op>>
    BY <1>1, <1>2, <1>4 DEF AbortRound, RowOps
  <2> HIDE DEF rest
  <2>3. /\ consensus_thread' \in OnConsensusThread /\ Rest' = rest
        /\ consensus_thread'.pc = "finish" /\ consensus_thread'.op = o /\ consensus_thread'.ok = FALSE
    BY <1>2, <2>1, <2>2, MadeThreads DEF Rest
  <2>4. /\ op' \in [Ops -> Driver]
        /\ op'[o].stage = IF o \in RowOps THEN "mvcc_aborted" ELSE op[o].stage
        /\ \A x \in Ops : x # o => op'[x].stage = op[x].stage
        /\ SameRepl /\ SamePrep /\ SameIdx /\ SameTs /\ SameTerms /\ SameCommitTs
    <3>1. CASE o \in RowOps
      <4>1. "mvcc_aborted" \in Stages
        BY DEF Stages
      <4>2. /\ op' \in [Ops -> Driver] /\ StageTo(o, "mvcc_aborted")
            /\ SameRepl /\ SamePrep /\ SameIdx /\ SameTs /\ SameTerms /\ SameCommitTs
        BY <2>1, <2>2, <3>1, <4>1, TypeParts, StageUpdate
      <4> QED
        BY <3>1, <4>2 DEF StageTo
    <3>2. CASE o \notin RowOps
      BY <2>2, <3>2, TypeParts
         DEF SameRepl, SamePrep, SameIdx, SameTs, SameTerms, SameCommitTs
    <3> QED
      BY <3>1, <3>2
  <2>5. ReplicaTypes'
    BY <2>3, <2>4, TypeParts, TypesStep DEF AbortRound, DriverTypes, RaftTypes, raftVars
  <2> QED
    BY <1>1, <1>2, <1>3, <1>4, <2>1, <2>2, <2>3, <2>4, <2>5 DEF AbortOpStep, AbortRound, raftVars
<1>5. CASE Rest[1].kind # "OP"
  <2>1. consensus_thread' = Aborting(rest) /\ UNCHANGED <<mvccVars, op>>
    BY <1>1, <1>2, <1>5 DEF AbortRound
  <2>2. /\ consensus_thread' \in OnConsensusThread
        /\ consensus_thread'.pc \in {"idle", "aborting"} /\ Rest' = rest
    BY <1>2, <2>1, AbortingIs
  <2>3. ReplicaTypes'
    BY <2>1, <2>2, TypeParts, TypesStep DEF AbortRound, DriverTypes, RaftTypes, raftVars
  <2> QED
    BY <1>1, <1>2, <1>3, <1>5, <2>1, <2>2, <2>3 DEF AbortOtherStep, AbortRound, raftVars
<1> QED
  BY <1>4, <1>5

LEMMA ReplicationFinishedIs ==
    ASSUME OrderInv, ReplicationFinished
    PROVE  /\ ReplicaTypes' /\ consensus_thread.op \in Ops /\ FinishStep(consensus_thread.op)
           /\ SameCommitTs
<1> DEFINE o == consensus_thread.op
<1>1. /\ o \in Ops /\ consensus_thread.ok \in BOOLEAN /\ consensus_thread.rest \in Seq(Round)
      /\ consensus_thread.pc = "finish" /\ Rest = consensus_thread.rest
  BY TypeParts, ThreadFields DEF ReplicationFinished, Rest
<1>2. /\ op' \in [Ops -> Driver]
      /\ ReplTo(o, IF consensus_thread.ok THEN "REPLICATED" ELSE "REPLICATION_FAILED")
      /\ SameStages /\ SamePrep /\ SameIdx /\ SameTs /\ SameTerms /\ SameCommitTs
  <2>1. (IF consensus_thread.ok THEN "REPLICATED" ELSE "REPLICATION_FAILED") \in Replies
    BY DEF Replies
  <2>2. op' = [op EXCEPT ![o].repl = IF consensus_thread.ok THEN "REPLICATED"
                                     ELSE "REPLICATION_FAILED"]
    BY DEF ReplicationFinished
  <2> QED
    BY <1>1, <2>1, <2>2, TypeParts, ReplUpdate
<1>3. /\ consensus_thread' \in OnConsensusThread /\ Rest' = Rest
      /\ IF Prepared(o)
         THEN /\ consensus_thread'.pc = "apply" /\ consensus_thread'.op = o
              /\ consensus_thread'.ok = consensus_thread.ok
              /\ consensus_thread'.rest = consensus_thread.rest
         ELSE consensus_thread'.pc \in {"idle", "aborting"}
  <2>1. CASE Prepared(o)
    <3>1. consensus_thread' = [consensus_thread EXCEPT !.pc = "apply"]
      BY <2>1 DEF ReplicationFinished, Prepared
    <3>2. consensus_thread \in [pc : {"finish", "apply"}, op : Ops, ok : BOOLEAN, rest : Seq(Round)]
      BY <1>1, TypeParts DEF DriverTypes, OnConsensusThread, Idle
    <3> QED
      BY <1>1, <2>1, <3>1, <3>2 DEF Rest, OnConsensusThread
  <2>2. CASE ~Prepared(o)
    BY <1>1, <2>2, AbortingIs DEF ReplicationFinished, Prepared
  <2> QED
    BY <2>1, <2>2
<1>4. ReplicaTypes'
  BY <1>2, <1>3, TypeParts, TypesStep DEF ReplicationFinished, DriverTypes, RaftTypes, raftVars
<1> QED
  BY <1>1, <1>2, <1>3, <1>4 DEF FinishStep, ReplicationFinished, raftVars

LEMMA ConsensusThreadAppliesIs ==
    ASSUME OrderInv, ConsensusThreadApplies
    PROVE  /\ ReplicaTypes' /\ consensus_thread.op \in Ops /\ SameCommitTs
           /\ IF op[consensus_thread.op].repl = "REPLICATED"
              THEN FinishSubmitStep(consensus_thread.op)
              ELSE FinishFailStep(consensus_thread.op)
<1> DEFINE o == consensus_thread.op
<1>1. /\ o \in Ops /\ consensus_thread.rest \in Seq(Round)
      /\ consensus_thread.pc = "apply" /\ ApplyAsync(o)
      /\ consensus_thread' = Aborting(consensus_thread.rest) /\ Rest = consensus_thread.rest
  BY TypeParts, ThreadFields DEF ConsensusThreadApplies, Rest
<1>2. /\ op' \in [Ops -> Driver] /\ txn' \in TxnType /\ prev_idx' \in Nat
      /\ SameRepl /\ SamePrep /\ SameIdx /\ SameTs /\ SameTerms /\ SameCommitTs
      /\ op[o].repl = "REPLICATED" => StageTo(o, "submitted") /\ prev_idx' = op[o].idx
      /\ op[o].repl # "REPLICATED" => StageTo(o, "failed") /\ prev_idx' = prev_idx
  BY <1>1, ApplyAsyncIs
<1>3. /\ consensus_thread' \in OnConsensusThread
      /\ consensus_thread'.pc \in {"idle", "aborting"} /\ Rest' = Rest
  BY <1>1, AbortingIs
<1>4. ReplicaTypes'
  BY <1>2, <1>3, TypeParts, TypesStep DEF ConsensusThreadApplies, DriverTypes, RaftTypes, raftVars
<1> QED
  BY <1>1, <1>2, <1>3, <1>4 DEF FinishSubmitStep, FinishFailStep, ConsensusThreadApplies, raftVars

\* The steps that only move the role, the term, the managers or the scans.
LEMMA RaftIs ==
    ASSUME OrderInv,
           \/ BecomeLeader \/ AssignNoOp \/ BecomeReplica \/ ReplicateConfigChange
           \/ RefreshConsensusQueueAndPeers
    PROVE  ReplicaTypes' /\ RaftStep /\ UNCHANGED txn /\ UNCHANGED mvccVars
<1>1. /\ term \in Nat /\ MaxTerm \in Nat
      /\ consensus_thread.pc \in {"noop", "noop_append"} => role = "LEADER"
  BY TypeParts, ReplicaAssumption DEF OrderInv, TermInv, NoOpByLeader
<1>2. CASE BecomeLeader
  <2>1. RaftTypes'
    BY <1>1, <1>2, TypeParts DEF BecomeLeader, RaftTypes
  <2>2. ReplicaTypes'
    BY <1>2, <2>1, TypeParts, TypesStep, MadeThreads DEF BecomeLeader, DriverTypes
  <2> QED
    BY <1>1, <1>2, <2>2 DEF BecomeLeader, RaftStep, ConsensusIdle, NotAtRound
<1>3. CASE BecomeReplica
  <2>1. RaftTypes'
    <3>1. term' \in 0 .. MaxTerm /\ role' = "FOLLOWER" /\ ready' = FALSE
      BY <1>1, <1>3 DEF BecomeReplica
    <3>2. UNCHANGED <<pending, committed, config_changes, leader_noop>>
      BY <1>3 DEF BecomeReplica
    <3> QED
      BY <3>1, <3>2, TypeParts DEF RaftTypes
  <2>2. ReplicaTypes'
    BY <1>3, <2>1, TypeParts, TypesStep DEF BecomeReplica, DriverTypes, opVars
  <2> QED
    BY <1>1, <1>3, <2>2 DEF BecomeReplica, RaftStep, ConsensusIdle, opVars
<1>4. CASE AssignNoOp
  <2>1. PICK t \in Timestamps : consensus_thread' = [pc |-> "noop_append", ts |-> t]
    BY <1>4 DEF AssignNoOp
  <2>2. consensus_thread' \in OnConsensusThread /\ consensus_thread'.pc = "noop_append"
    BY <2>1, MadeThreads
  <2>3. ReplicaTypes'
    BY <1>4, <2>2, TypeParts, TypesStep DEF AssignNoOp, DriverTypes, RaftTypes, raftVars
  <2> QED
    BY <1>1, <1>4, <2>2, <2>3 DEF AssignNoOp, RaftStep, NotAtRound, raftVars
<1>5. CASE ReplicateConfigChange
  <2>1. PICK t \in Timestamps : consensus_thread' = [pc |-> "config_refresh", ts |-> t]
    BY <1>5 DEF ReplicateConfigChange
  <2>2. consensus_thread' \in OnConsensusThread /\ consensus_thread'.pc = "config_refresh"
    BY <2>1, MadeThreads
  <2>3. RaftTypes'
    BY <1>5, TypeParts DEF ReplicateConfigChange, RaftTypes
  <2>4. ReplicaTypes'
    BY <1>5, <2>2, <2>3, TypeParts, TypesStep DEF ReplicateConfigChange, DriverTypes
  <2> QED
    BY <1>1, <1>5, <2>2, <2>4 DEF ReplicateConfigChange, RaftStep, NotAtRound, ConsensusIdle
<1>6. CASE RefreshConsensusQueueAndPeers
  <2>1. consensus_thread \in [pc : {"noop_append", "config_refresh", "config_append"}, ts : Timestamps]
    BY <1>6, TypeParts DEF RefreshConsensusQueueAndPeers, DriverTypes, OnConsensusThread, Idle
  <2>2. consensus_thread' \in OnConsensusThread /\ consensus_thread'.pc = "config_append"
    BY <1>6, <2>1 DEF RefreshConsensusQueueAndPeers, OnConsensusThread
  <2>3. ReplicaTypes'
    BY <1>6, <2>2, TypeParts, TypesStep
       DEF RefreshConsensusQueueAndPeers, DriverTypes, RaftTypes, raftVars
  <2> QED
    BY <1>1, <1>6, <2>2, <2>3 DEF RefreshConsensusQueueAndPeers, RaftStep, NotAtRound, raftVars
<1> QED
  BY <1>2, <1>3, <1>4, <1>5, <1>6

QuietStep ==
    \/ \E t \in Timestamps : Heartbeat(t)
    \/ ReadSafeTime
    \/ Tick
    \/ \E w \in Scanners : ScanWaitUntilSafe(w) \/ ScanWaitForSnapshot(w) \/ ScanRows(w)
    \/ \E w \in Flushers : FlushWaits(w)
    \/ UNCHANGED vars

LEMMA QuietIs ==
    ASSUME OrderInv, QuietStep
    PROVE  ReplicaTypes' /\ RaftStep /\ UNCHANGED <<raftVars, opVars>>
<1>1. UNCHANGED <<raftVars, opVars>>
  BY DEF QuietStep, Heartbeat, ReadSafeTime, Tick, ScanWaitUntilSafe, ScanWaitForSnapshot, ScanRows,
     FlushWaits, vars
<1>2. ReplicaTypes'
  BY <1>1, TypeParts DEF ReplicaTypes, DriverTypes, RaftTypes, raftVars, opVars
<1>3. term \in Nat /\ (consensus_thread.pc \in {"noop", "noop_append"} => role = "LEADER")
  BY TypeParts DEF OrderInv, TermInv, NoOpByLeader
<1> QED
  BY <1>1, <1>2, <1>3 DEF RaftStep, raftVars, opVars

\* The steps that append a round which is not an op's.
LEMMA AppendIs ==
    ASSUME OrderInv,
           AppendNoOp \/ AppendConfigChange \/ \E t \in Timestamps : ReceiveNoOp(t)
    PROVE  /\ ReplicaTypes' /\ UNCHANGED txn /\ UNCHANGED mvccVars
           /\ \E r \in Round :
                 /\ AppendOtherStep(r)
                 /\ \/ AppendNoOp /\ r = NoOpRound(consensus_thread.ts)
                    \/ AppendConfigChange /\ r = ConfigRound(consensus_thread.ts)
                    \/ \E t \in Timestamps : ReceiveNoOp(t) /\ r = NoOpRound(t)
<1>1. CASE AppendNoOp
  <2>1. consensus_thread.ts \in Timestamps
    BY <1>1, TypeParts, ThreadFields DEF AppendNoOp
  <2> DEFINE r == NoOpRound(consensus_thread.ts)
  <2>2. r \in Round /\ r.kind # "OP"
    BY <2>1, MadeRecords DEF NoOpRound
  <2>3. pending' \in Seq(Round) /\ PendingGrows(r)
    BY <1>1, <2>2, TypeParts, PendingGrowIs, AppendFacts DEF AppendNoOp, RaftTypes
  <2>4. role = "LEADER"
    BY <1>1 DEF AppendNoOp, OrderInv, TermInv, NoOpByLeader
  <2>5. RaftTypes'
    BY <1>1, <2>3, <2>4, TypeParts DEF AppendNoOp, RaftTypes
  <2>6. ReplicaTypes'
    BY <1>1, <2>5, TypeParts, TypesStep, MadeThreads DEF AppendNoOp, DriverTypes
  <2> QED
    BY <1>1, <2>2, <2>3, <2>6 DEF AppendNoOp, AppendOtherStep, NotAtRound, Idle
<1>2. CASE AppendConfigChange
  <2>1. consensus_thread.ts \in Timestamps
    BY <1>2, TypeParts, ThreadFields DEF AppendConfigChange
  <2> DEFINE r == ConfigRound(consensus_thread.ts)
  <2>2. r \in Round /\ r.kind # "OP"
    BY <2>1, MadeRecords DEF ConfigRound
  <2>3. pending' \in Seq(Round) /\ PendingGrows(r)
    BY <1>2, <2>2, TypeParts, PendingGrowIs, AppendFacts DEF AppendConfigChange, RaftTypes
  <2>4. RaftTypes'
    BY <1>2, <2>3, TypeParts DEF AppendConfigChange, RaftTypes
  <2>5. ReplicaTypes'
    BY <1>2, <2>4, TypeParts, TypesStep, MadeThreads DEF AppendConfigChange, DriverTypes
  <2> QED
    BY <1>2, <2>2, <2>3, <2>5 DEF AppendConfigChange, AppendOtherStep, NotAtRound, Idle
<1>3. CASE \E t \in Timestamps : ReceiveNoOp(t)
  <2>1. PICK t \in Timestamps : ReceiveNoOp(t)
    BY <1>3
  <2> DEFINE r == NoOpRound(t)
  <2>2. r \in Round /\ r.kind # "OP"
    BY <2>1, MadeRecords DEF NoOpRound
  <2>3. pending' \in Seq(Round) /\ PendingGrows(r)
    BY <2>1, <2>2, TypeParts, PendingGrowIs, AppendFacts DEF ReceiveNoOp, RaftTypes
  <2>4. RaftTypes'
    BY <2>1, <2>3, TypeParts DEF ReceiveNoOp, RaftTypes
  <2>5. ReplicaTypes'
    BY <2>1, <2>4, TypeParts, TypesStep DEF ReceiveNoOp, DriverTypes, opVars
  <2> QED
    BY <2>1, <2>2, <2>3, <2>5 DEF ReceiveNoOp, AppendOtherStep, NotAtRound, ConsensusIdle, opVars
<1> QED
  BY <1>1, <1>2, <1>3

LEMMA FollowIs ==
    ASSUME OrderInv, NEW o \in Ops, NEW t \in Timestamps, StartFollowerOp(o, t)
    PROVE  /\ ReplicaTypes' /\ FollowStep(o) /\ TsTo(o, t) /\ UNCHANGED txn
           /\ \E cts \in FinalizeTimestamps(o) : CommitTsTo(o, cts)
<1>1. PICK cts \in FinalizeTimestamps(o) :
         op' = [op EXCEPT ![o] = [@ EXCEPT !.stage = "driven", !.ts = t, !.term = term,
                                           !.idx = NextIndex, !.repl = "REPLICATING",
                                           !.commit_ts = cts]]
  BY DEF StartFollowerOp
<1>2. NextIndex = committed + PendingEnd /\ NextIndex \in Nat
  BY TypeParts, SeqFacts DEF NextIndex, PendingEnd, RaftTypes
<1>3. /\ op' \in [Ops -> Driver] /\ StageTo(o, "driven") /\ ReplTo(o, "REPLICATING")
      /\ TermTo(o, term) /\ IdxTo(o, NextIndex) /\ TsTo(o, t) /\ CommitTsTo(o, cts) /\ SamePrep
  BY <1>1, <1>2, TypeParts, FollowUpdate, FinalizeType
<1>4. prepare_queue' \in Seq(Task) /\ PrepareJoins(o)
  BY TypeParts, JoinIs, AppendFacts, MadeRecords DEF StartFollowerOp, DriverTypes
<1>5. pending' \in Seq(Round) /\ PendingGrows(OpRound(o))
  BY TypeParts, PendingGrowIs, AppendFacts, MadeRecords DEF StartFollowerOp, RaftTypes
<1>6. RaftTypes'
  BY <1>5, TypeParts DEF StartFollowerOp, RaftTypes
<1>7. ReplicaTypes'
  BY <1>3, <1>4, <1>6, TypeParts, TypesStep DEF StartFollowerOp, DriverTypes
<1> QED
  BY <1>1, <1>2, <1>3, <1>4, <1>5, <1>7 DEF StartFollowerOp, FollowStep, TsTo, Following, ConsensusIdle

-----------------------------------------------------------------------------
(***************************************************************************)
(* The order of the log                                                    *)
(***************************************************************************)
\* Nothing is queued, pending or held at first.
LEMMA OrderInit == Init => OrderInv
<1> SUFFICES ASSUME Init PROVE OrderInv
  OBVIOUS
<1>1. /\ prepare_queue = <<>> /\ pending = <<>> /\ prepare_thread = Idle /\ consensus_thread = Idle
      /\ prev_idx = 0 /\ committed = 0 /\ term = 0 /\ role = "FOLLOWER" /\ ready = FALSE
      /\ config_changes = 0 /\ leader_noop = 0
      /\ txn = [state |-> "OPEN", commit_op |-> 0, commit_ts |-> 0, lock |-> NoOne]
  BY DEF Init
<1>2. \A o \in Ops : op[o] = [stage |-> "new", ts |-> 0, term |-> 0, idx |-> 0,
                              repl |-> "NOT_REPLICATING", prep |-> "NOT_PREPARED", commit_ts |-> 0]
  BY DEF Init
<1>3. op \in [Ops -> Driver]
  BY ReplicaAssumption DEF Init, Driver, Stages, Replies
<1>4. ReplicaTypes
  <2>1. txn \in [state : TxnStates, commit_op : 0 .. (kMax - 1), commit_ts : 0 .. (kMax - 1),
                lock : Participants \cup {NoOne}]
    BY <1>1, ReplicaAssumption DEF TxnStates
  <2>2. DriverTypes
    BY <1>1, <1>3, <2>1, MadeThreads DEF DriverTypes
  <2>3. 0 \in 0 .. MaxTerm /\ <<>> \in Seq(Round)
    BY ReplicaAssumption
  <2>4. ready \in BOOLEAN /\ (ready => role = "LEADER")
    BY <1>1
  <2>5. RaftTypes
    BY <1>1, <2>3, <2>4 DEF RaftTypes
  <2> QED
    BY <2>2, <2>5 DEF ReplicaTypes
<1>5. /\ DOMAIN prepare_queue = {} /\ DOMAIN pending = {} /\ DOMAIN Rest = {}
      /\ prepare_thread.pc = "idle" /\ consensus_thread.pc = "idle"
  BY <1>1 DEF Rest, Idle
<1>6. FieldsInv
  BY <1>2 DEF FieldsInv, FieldsOf
<1>7. QueueInv /\ PrepareInv /\ HeldInv
  BY <1>2, <1>5 DEF QueueInv, QueuedUnprepared, QueuedOnce, UnpreparedQueued, PrepareInv, HoldsPrepared,
     HoldsLocal, HoldsUnsent, HoldsDecided, HeldInv, LocalHeld, UnsentHeld, DecidedHeld, Underway
<1>8. PendingInv /\ ConsensusInv /\ RestInv
  BY <1>2, <1>5 DEF PendingInv, PendingAreSent, SentArePending, ConsensusInv, FinishesSent,
     AppliesDecided, FinishesInOrder, RestInv, RestAreSent, RestAfterFinished, RestInOrder
<1>9. LogOrderInv /\ TermInv
  BY <1>1, <1>2, <1>5 DEF LogOrderInv, PrevCommitted, LiveAbovePrev, LiveDistinct, QueueInOrder,
     PreparedFirst, AppliesLast, Live, TermInv, TermsKnown, TermsGrow, HeldTermFirst, FollowedBefore,
     NoOpByLeader
<1> QED
  BY <1>4, <1>6, <1>7, <1>8, <1>9 DEF OrderInv

\* The disjuncts of the next-state relation, as the proofs take them.
LEMMA NextCases ==
    ASSUME [Next]_vars
    PROVE  \/ \E o \in Ops : ExecuteAsync(o)
           \/ \E o \in Ops : ApplyStep(o)
           \/ PrepareFails \/ Prepare \/ AssignTimestamp \/ Start \/ Replicate
           \/ PrepareThreadApplies \/ AdjustLowerBound
           \/ CommitRound \/ AbortOpsAfter \/ AbortRound \/ ReplicationFinished
           \/ ConsensusThreadApplies
           \/ BecomeLeader \/ AssignNoOp \/ BecomeReplica \/ ReplicateConfigChange
           \/ RefreshConsensusQueueAndPeers
           \/ AppendNoOp \/ AppendConfigChange \/ \E t \in Timestamps : ReceiveNoOp(t)
           \/ \E o \in Ops, t \in Timestamps : StartFollowerOp(o, t)
           \/ QuietStep
  BY DEF Next, PrepareThreadStep, ConsensusThreadStep, QuietStep

\* Every step keeps the order of the log.
LEMMA OrderStep == OrderInv /\ [Next]_vars => OrderInv'
<1> SUFFICES ASSUME OrderInv, [Next]_vars PROVE OrderInv'
  OBVIOUS
<1>1. ASSUME NEW o \in Ops, ExecuteAsync(o) PROVE OrderInv'
  BY <1>1, ExecuteIs, ExecuteKeepsOrder
<1>2. ASSUME NEW o \in Ops, ApplyStep(o) PROVE OrderInv'
  BY <1>2, ApplyStepIs, PoolKeepsOrder
<1>3. CASE PrepareFails
  BY <1>3, PrepareFailsIs, RefuseKeepsOrder
<1>4. CASE Prepare
  BY <1>4, PrepareIs, RefuseKeepsOrder, PrepareKeepsOrder
<1>5. CASE AssignTimestamp
  BY <1>5, AssignIs, AssignKeepsOrder, AssignFailKeepsOrder
<1>6. CASE Start
  BY <1>6, StartIs, StartKeepsOrder
<1>7. CASE Replicate
  BY <1>7, ReplicateIs, ReplicateKeepsOrder, ReplicateFailKeepsOrder
<1>8. CASE PrepareThreadApplies
  BY <1>8, PrepareThreadAppliesIs, SubmitKeepsOrder, ApplyFailKeepsOrder
<1>9. CASE AdjustLowerBound
  BY <1>9, AdjustLowerBoundIs, LowerBoundKeepsOrder
<1>10. CASE CommitRound
  BY <1>10, CommitRoundIs, CommitOpKeepsOrder, CommitOtherKeepsOrder
<1>11. CASE AbortOpsAfter
  BY <1>11, AbortOpsAfterIs, AbortAfterKeepsOrder
<1>12. CASE AbortRound
  BY <1>12, AbortRoundIs, AbortOpKeepsOrder, AbortOtherKeepsOrder
<1>13. CASE ReplicationFinished
  BY <1>13, ReplicationFinishedIs, FinishKeepsOrder
<1>14. CASE ConsensusThreadApplies
  BY <1>14, ConsensusThreadAppliesIs, FinishSubmitKeepsOrder, FinishFailKeepsOrder
<1>15. CASE \/ BecomeLeader \/ AssignNoOp \/ BecomeReplica \/ ReplicateConfigChange
            \/ RefreshConsensusQueueAndPeers
  BY <1>15, RaftIs, RaftKeepsOrder
<1>16. CASE AppendNoOp \/ AppendConfigChange \/ \E t \in Timestamps : ReceiveNoOp(t)
  BY <1>16, AppendIs, AppendOtherKeepsOrder
<1>17. ASSUME NEW o \in Ops, NEW t \in Timestamps, StartFollowerOp(o, t) PROVE OrderInv'
  BY <1>17, FollowIs, FollowKeepsOrder
<1>18. CASE QuietStep
  BY <1>18, QuietIs, RaftKeepsOrder
<1> QED
  BY <1>1, <1>2, <1>3, <1>4, <1>5, <1>6, <1>7, <1>8, <1>9, <1>10, <1>11, <1>12, <1>13, <1>14,
     <1>15, <1>16, <1>17, <1>18, NextCases

LEMMA OrderHolds == Spec => []OrderInv
<1>1. OrderInv /\ UNCHANGED vars => OrderInv'
  BY OrderStep
<1> QED
  BY OrderInit, OrderStep, PTL DEF Spec

\* Type correctness of the drivers and of the consensus state they see.
THEOREM ReplicaTypeCorrect == Spec => []TypeOK
<1>1. OrderInv => TypeOK
  BY DEF OrderInv, ReplicaTypes, DriverTypes, RaftTypes, TypeOK, Driver, Replies
<1> QED
  BY <1>1, OrderHolds, PTL

\* The ops are handed to the apply pool in the order of the log and once each,
\* whichever of the prepare thread and the consensus thread hands them over
\* (OpOrderVerifier::CheckApply), for any number of ops, terms, leaders and aborts.
THEOREM AppliesFollowTheLog == Spec => []AppliesInLogOrder
<1>1. OrderInv => AppliesInLogOrder
  <2> SUFFICES ASSUME OrderInv PROVE AppliesInLogOrder
    OBVIOUS
  <2>1. FieldTypes
    BY FieldTypesHold DEF OrderInv
  <2>2. \A o \in Ops : op[o].repl = "REPLICATED" /\ op[o].stage = "driven" => op[o].idx > prev_idx
    BY <2>1 DEF OrderInv, FieldsInv, FieldsOf, LogOrderInv, LiveAbovePrev, Live
  <2>3. prepare_thread.pc = "apply" /\ consensus_thread.pc = "apply" =>
           prepare_thread.op # consensus_thread.op
    BY DEF OrderInv, PrepareInv, HoldsDecided, OnConsensus
  <2>4. prepare_thread.pc = "apply" /\ op[prepare_thread.op].repl = "REPLICATED" =>
           op[prepare_thread.op].stage = "driven"
    BY <2>1 DEF OrderInv, FieldTypes, PrepareInv, HoldsDecided, Underway, FieldsInv, FieldsOf
  <2>5. consensus_thread.pc = "apply" /\ op[consensus_thread.op].repl = "REPLICATED" =>
           op[consensus_thread.op].stage = "driven"
    BY <2>1 DEF OrderInv, FieldTypes, ConsensusInv, AppliesDecided, FinishesInOrder
  <2> QED
    BY <2>1, <2>2, <2>3, <2>4, <2>5 DEF AppliesInLogOrder, FieldTypes
<1> QED
  BY <1>1, OrderHolds, PTL
=============================================================================
