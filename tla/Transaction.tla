------------------------------ MODULE Transaction ------------------------------
(***************************************************************************)
(* One multi-row transaction: its coordinator, the TxnStatusManager of the *)
(* leader of a transaction status tablet with its CommitTasks              *)
(* (txn_status_manager.cc), and its participants, the Txn of each tablet   *)
(* that is written to (txn_participant.h, participant_op.cc).              *)
(*                                                                         *)
(* The coordinator has an entry on disk, which is the status tablet and    *)
(* replicated, and a copy in memory. Its calls lock the copy, write the    *)
(* disk, act, and change the copy last: until then, readers of the copy    *)
(* are let in and see the old state (CowObject). When the status tablet    *)
(* has a new leader, the copy is read from disk and unfinished work starts *)
(* again, while the tasks of former leaders still run on their servers.    *)
(* There each leadership is called an epoch, and is on another server.     *)
(*                                                                         *)
(* A participant's operations are replicated by its own tablet and are     *)
(* atomic here. An operation that was sent may be executed at any later    *)
(* time, also again, with its answer lost.                                 *)
(***************************************************************************)
EXTENDS Naturals, FiniteSets

CONSTANTS
    Tablets,        \* the tablets the transaction may write to
    Timestamps,     \* the timestamps of their BEGIN_COMMIT operations
    MaxEpochs,      \* bound on the leaders of the status tablet
    MaxDeleted      \* bound on the tablets that are deleted meanwhile

ASSUME TransactionAssumption ==
    /\ IsFiniteSet(Tablets)
    /\ Timestamps \subseteq Nat \ {0} /\ IsFiniteSet(Timestamps)
    /\ MaxEpochs \in Nat \ {0} /\ MaxDeleted \in Nat

VARIABLES
    epoch,          \* the current leader of the status tablet
    disk,           \* the entry in the status tablet
    mem,            \* the leader's copy of it
    tasks,          \* tasks[e]: commits_in_flight_ of the leader of epoch e
    sent,           \* the participant operations that were ever sent
    part,           \* part[p]: the participant at tablet p
    gone,           \* the tablets that were deleted
    owed            \* history: the participants when the end was first asked for

coordinator == <<epoch, disk, mem, tasks>>
participants == <<part, gone>>
vars == <<coordinator, sent, participants, owed>>

(***************************************************************************)
(* State                                                                   *)
(***************************************************************************)
TxnStatePB == {"OPEN", "COMMIT_IN_PROGRESS", "FINALIZE_IN_PROGRESS", "COMMITTED",
               "ABORT_IN_PROGRESS", "ABORTED"}

Epochs == 1 .. MaxEpochs

Entry == [state : TxnStatePB, ts : Timestamps \cup {0}, parts : SUBSET Tablets]

\* next: the state a call that holds the write lock will commit to the copy.
\* created, open: participant entries, and those known to be on disk.
\* reading: the registrations that hold the read lock and write the disk.
\* botched: whether a call of BeginAbortTransaction by the tasks is under way.
Copy == [state : TxnStatePB, next : TxnStatePB \cup {"none"}, created : SUBSET Tablets,
         open : SUBSET Tablets, reading : SUBSET Tablets, botched : BOOLEAN]

ParticipantOps == {"BEGIN_COMMIT", "FINALIZE_COMMIT", "ABORT_TXN"}

\* left: the participants whose answers are awaited; sched: the function that
\* was submitted to commit_pool_.
CommitTasks ==
    [op : ParticipantOps, parts : SUBSET Tablets, left : SUBSET Tablets,
     abort : {"UNKNOWN", "ABORT_IN_PROGRESS", "ABORTED"}, ts : Timestamps \cup {0},
     sched : {"none", "FinalizeCommit", "CompleteCommit", "BeginAbort", "RemoveTask",
              "FinalizeAbort"},
     stop : BOOLEAN]

NoTasks == [sched |-> "gone"]

NewTasks(parts) ==
    [op |-> "BEGIN_COMMIT", parts |-> parts, left |-> {}, abort |-> "UNKNOWN", ts |-> 0,
     sched |-> "none", stop |-> FALSE]

\* begin: the timestamp of BEGIN_COMMIT; ts: the finalized commit timestamp.
Txn == [state : {"kInitializing", "kOpen", "kCommitInProgress", "kCommitted", "kAborted"},
        begin : Timestamps \cup {0}, ts : Timestamps \cup {0}]

Operation == [op : ParticipantOps, tablet : Tablets, ts : Timestamps \cup {0}]

TypeOK ==
    /\ epoch \in Epochs
    /\ disk \in Entry
    /\ mem \in Copy
    /\ tasks \in [Epochs -> CommitTasks \cup {NoTasks}]
    /\ sent \subseteq Operation
    /\ part \in [Tablets -> Txn]
    /\ gone \subseteq Tablets /\ owed \subseteq Tablets

\* A transaction that BeginTransaction has just added.
Init ==
    /\ epoch = 1
    /\ disk = [state |-> "OPEN", ts |-> 0, parts |-> {}]
    /\ mem = [state |-> "OPEN", next |-> "none", created |-> {}, open |-> {},
              reading |-> {}, botched |-> FALSE]
    /\ tasks = [e \in Epochs |-> NoTasks]
    /\ sent = {}
    /\ part = [p \in Tablets |-> [state |-> "kInitializing", begin |-> 0, ts |-> 0]]
    /\ gone = {} /\ owed = {}

(***************************************************************************)
(* CommitTasks: what its functions make of it                              *)
(***************************************************************************)
Sends(t) ==
    {[op |-> t.op, tablet |-> p, ts |-> IF t.op = "FINALIZE_COMMIT" THEN t.ts ELSE 0] :
        p \in t.left}

BeginCommitAsync(t) ==
    IF t.parts = {} THEN [t EXCEPT !.sched = "CompleteCommit"]
                    ELSE [t EXCEPT !.op = "BEGIN_COMMIT", !.left = t.parts]

FinalizeCommitAsync(t) ==
    [t EXCEPT !.op = "FINALIZE_COMMIT", !.left = t.parts, !.sched = "none"]

AbortTxnAsync(t) ==
    IF t.parts = {} THEN [t EXCEPT !.sched = "FinalizeAbort"]
                    ELSE [t EXCEPT !.op = "ABORT_TXN", !.left = t.parts, !.sched = "none"]

ScheduleAbort(t) ==
    IF t.abort = "ABORTED" THEN AbortTxnAsync(t) ELSE [t EXCEPT !.sched = "BeginAbort"]

SetNeedsBeginAbort(t) ==
    IF t.abort = "UNKNOWN" THEN [t EXCEPT !.abort = "ABORT_IN_PROGRESS"] ELSE t

SetNeedsFinalizeAbort(t) == [t EXCEPT !.abort = "ABORTED"]

\* The callbacks, when an answer is in and no other is awaited any more.
BeganCommitOrGaveUp(t) ==
    CASE t.abort = "ABORTED" -> AbortTxnAsync(t)
      [] t.abort = "ABORT_IN_PROGRESS" -> NoTasks
      [] OTHER -> [t EXCEPT !.sched = "FinalizeCommit"]

BeganCommit(t) ==
    IF t.abort # "UNKNOWN" THEN ScheduleAbort(t) ELSE [t EXCEPT !.sched = "FinalizeCommit"]

LastAnswered(t) ==
    IF t.stop THEN NoTasks
    ELSE CASE t.op = "BEGIN_COMMIT" -> BeganCommit(t)
           [] t.op = "FINALIZE_COMMIT" -> [t EXCEPT !.sched = "CompleteCommit"]
           [] t.op = "ABORT_TXN" -> [t EXCEPT !.sched = "FinalizeAbort"]

LaterAnswered(a, b) == b

LaterPlusOne(a, b) == IF a < b THEN b + 1 ELSE a

Later(a, b) == IF a < b THEN b ELSE a

\* What an answer of status s changes. An error of BEGIN_COMMIT aborts the
\* transaction, one of FINALIZE_COMMIT is ignored, and one of ABORT_TXN stops
\* the tasks unless the tablet is gone.
Heard(t, s, ts) ==
    CASE t.stop -> t
      [] t.op = "BEGIN_COMMIT" /\ s = "ok" -> [t EXCEPT !.ts = Later(@, ts)]
      [] t.op = "BEGIN_COMMIT" /\ s # "ok" -> SetNeedsBeginAbort(t)
      [] t.op = "ABORT_TXN" -> [t EXCEPT !.stop = (s = "illegal")]
      [] OTHER -> t

Participated(t, p, s, ts) ==
    LET h == [Heard(t, s, ts) EXCEPT !.left = @ \ {p}]
    IN  IF h.left = {} THEN LastAnswered(h) ELSE h

(***************************************************************************)
(* Participants: what executing an operation answers and changes           *)
(***************************************************************************)
AlreadyApplied(r, op) ==
    CASE op = "BEGIN_COMMIT" -> r.state \in {"kCommitInProgress", "kCommitted"}
      [] op = "FINALIZE_COMMIT" -> r.state = "kCommitted"
      [] op = "ABORT_TXN" -> r.state = "kAborted"

Valid(r, op) ==
    CASE op = "BEGIN_COMMIT" -> r.state = "kOpen"
      [] op = "FINALIZE_COMMIT" -> r.state = "kCommitInProgress"
      [] op = "ABORT_TXN" -> r.state \in {"kInitializing", "kOpen", "kCommitInProgress"}

\* The status, as AnalyzeResponse of the sender passes it on.
Answer(m) ==
    LET r == part[m.tablet]
    IN  CASE m.tablet \in gone -> "notfound"
          [] m.tablet \notin gone /\ (Valid(r, m.op) \/ AlreadyApplied(r, m.op)) -> "ok"
          [] OTHER -> "illegal"

\* The participant after m, if m is applied at time t.
Performed(r, m, t) ==
    CASE m.op = "BEGIN_COMMIT" -> [r EXCEPT !.state = "kCommitInProgress", !.begin = t]
      [] m.op = "FINALIZE_COMMIT" -> [r EXCEPT !.state = "kCommitted", !.ts = m.ts]
      [] m.op = "ABORT_TXN" -> [r EXCEPT !.state = "kAborted"]

PerformOp(m, t) ==
    part' = IF m.tablet \notin gone /\ Valid(part[m.tablet], m.op)
            THEN [part EXCEPT ![m.tablet] = Performed(@, m, t)]
            ELSE part

\* The timestamp in the answer to BEGIN_COMMIT, after it was performed.
AnsweredTs(r) == IF r.state = "kCommitted" THEN r.ts ELSE r.begin

\* An operation of the tasks of e is executed at p and its callback runs.
Participate(e, p) ==
    /\ tasks[e] # NoTasks /\ p \in tasks[e].left
    /\ LET m == CHOOSE o \in Sends(tasks[e]) : o.tablet = p
       IN  \E t \in Timestamps :
              /\ PerformOp(m, t)
              /\ tasks' = [tasks EXCEPT ![e] = Participated(@, p, Answer(m), AnsweredTs(part'[p]))]
    /\ sent' = IF tasks'[e] = NoTasks THEN sent ELSE sent \cup Sends(tasks'[e])
    /\ UNCHANGED <<epoch, disk, mem, gone, owed>>

\* The same with the answer lost, because the RPC timed out and is retried, or
\* long after its sender has gone.
ParticipateLate(m) ==
    /\ \E t \in Timestamps : PerformOp(m, t)
    /\ UNCHANGED <<coordinator, sent, gone, owed>>

\* BEGIN_TXN, which a tablet submits when its registration was acknowledged.
BeginTxn(p) ==
    /\ p \in disk.parts \ gone /\ part[p].state = "kInitializing"
    /\ part' = [part EXCEPT ![p].state = "kOpen"]
    /\ UNCHANGED <<coordinator, sent, gone, owed>>

DeleteTablet(p) ==
    /\ p \notin gone /\ Cardinality(gone) < MaxDeleted
    /\ gone' = gone \cup {p}
    /\ UNCHANGED <<coordinator, sent, part, owed>>

(***************************************************************************)
(* The calls of the coordinator. Each is made by the current leader, whose *)
(* write to the status tablet succeeds.                                    *)
(***************************************************************************)
WriteLockFree == mem.next = "none"

\* UpdateTransaction, and the state that Commit() will give to the copy.
Persist(state, ts) ==
    /\ disk' = [disk EXCEPT !.state = state, !.ts = ts]
    /\ mem' = [mem EXCEPT !.next = state]

\* The tasks of the leader become t.
Run(t) ==
    /\ tasks' = [tasks EXCEPT ![epoch] = t]
    /\ sent' = IF t = NoTasks THEN sent ELSE sent \cup Sends(t)

\* The end of a call that holds the write lock: the readers have gone, and
\* readers from now on see the new state.
CommitMutation ==
    /\ ~WriteLockFree /\ mem.reading = {}
    /\ mem' = [mem EXCEPT !.state = mem.next, !.next = "none"]
    /\ UNCHANGED <<epoch, disk, tasks, sent, participants, owed>>

\* RegisterParticipant up to its write: only the read lock is needed. A retry
\* when the participant is on disk already is acknowledged and changes nothing.
RegisterParticipant(p) ==
    /\ mem.state = "OPEN" /\ p \notin mem.reading \cup mem.open
    /\ mem' = [mem EXCEPT !.created = @ \cup {p}, !.reading = @ \cup {p}]
    /\ UNCHANGED <<epoch, disk, tasks, sent, participants, owed>>

\* The rest of it. From now on it is acknowledged, or a retry is.
AddNewParticipant(p) ==
    /\ p \in mem.reading
    /\ disk' = [disk EXCEPT !.parts = @ \cup {p}]
    /\ mem' = [mem EXCEPT !.reading = @ \ {p}, !.open = @ \cup {p}]
    /\ UNCHANGED <<epoch, tasks, sent, participants, owed>>

BeginCommitTransaction ==
    /\ WriteLockFree /\ mem.state = "OPEN"
    /\ Persist("COMMIT_IN_PROGRESS", 0)
    /\ IF tasks[epoch] = NoTasks THEN Run(BeginCommitAsync(NewTasks(mem.created)))
                                 ELSE UNCHANGED <<tasks, sent>>
    /\ owed' = disk.parts
    /\ UNCHANGED <<epoch, participants>>

\* BeginAbortTransaction. Its tasks start unless there are some: tasks that
\* commit are told, tasks that abort are left alone.
StartAbort ==
    /\ mem.state = "ABORT_IN_PROGRESS"
    /\ IF tasks[epoch] = NoTasks THEN Run(AbortTxnAsync(NewTasks(mem.created)))
                                 ELSE UNCHANGED <<tasks, sent>>
    /\ UNCHANGED <<disk, owed>>

BeginAbort ==
    /\ mem.state \in {"OPEN", "COMMIT_IN_PROGRESS"}
    /\ disk' = [disk EXCEPT !.state = "ABORT_IN_PROGRESS"]
    /\ IF tasks[epoch] = NoTasks THEN Run(AbortTxnAsync(NewTasks(mem.created)))
                                 ELSE Run(SetNeedsFinalizeAbort(tasks[epoch]))
    /\ owed' = IF mem.state = "OPEN" THEN disk.parts ELSE owed

\* The client's AbortTransaction, or AbortStaleTransactions.
AbortTransaction ==
    /\ WriteLockFree
    /\ \/ BeginAbort /\ mem' = [mem EXCEPT !.next = "ABORT_IN_PROGRESS"]
       \/ StartAbort /\ tasks[epoch] = NoTasks /\ UNCHANGED mem
    /\ UNCHANGED <<epoch, participants>>

(***************************************************************************)
(* The functions that the leader's tasks submit to commit_pool_            *)
(***************************************************************************)

\* ScheduleFinalizeCommitWrite, with FinalizeCommitTransaction.
FinalizeCommitWrite ==
    LET t == tasks[epoch]
    IN  /\ t.sched = "FinalizeCommit"
        /\ \/ /\ t.abort # "UNKNOWN"
              /\ Run(ScheduleAbort(t))
              /\ UNCHANGED <<disk, mem>>
           \/ /\ t.abort = "UNKNOWN" /\ WriteLockFree
              /\ IF mem.state = "COMMIT_IN_PROGRESS"
                 THEN Persist("FINALIZE_IN_PROGRESS", t.ts) /\ Run(FinalizeCommitAsync(t))
                 ELSE Run(NoTasks) /\ UNCHANGED <<disk, mem>>
        /\ UNCHANGED <<epoch, participants, owed>>

\* ScheduleCompleteCommitWrite, with CompleteCommitTransaction.
CompleteCommitWrite ==
    /\ tasks[epoch].sched = "CompleteCommit" /\ WriteLockFree
    /\ IF mem.state \in {"COMMIT_IN_PROGRESS", "FINALIZE_IN_PROGRESS"}
       THEN Persist("COMMITTED", disk.ts)
       ELSE UNCHANGED <<disk, mem>>
    /\ Run(NoTasks)
    /\ UNCHANGED <<epoch, participants, owed>>

\* ScheduleBeginAbortTxnWrite takes three steps: it looks at abort_txn_, it
\* removes the tasks, and it calls BeginAbortTransaction. The client may have
\* called that before each of them.
BeginAbortWrite ==
    LET t == tasks[epoch]
    IN  /\ \/ t.sched = "BeginAbort" /\ t.abort = "ABORTED"
              /\ Run(AbortTxnAsync(t)) /\ UNCHANGED mem
           \/ t.sched = "BeginAbort" /\ t.abort # "ABORTED"
              /\ Run([t EXCEPT !.sched = "RemoveTask"]) /\ UNCHANGED mem
           \/ t.sched = "RemoveTask"
              /\ Run(NoTasks) /\ mem' = [mem EXCEPT !.botched = TRUE]
        /\ UNCHANGED <<epoch, disk, participants, owed>>

AbortBotchedCommit ==
    /\ mem.botched /\ WriteLockFree
    /\ \/ BeginAbort /\ mem' = [mem EXCEPT !.next = "ABORT_IN_PROGRESS", !.botched = FALSE]
       \/ StartAbort /\ mem' = [mem EXCEPT !.botched = FALSE]
       \/ /\ mem.state \notin {"OPEN", "COMMIT_IN_PROGRESS", "ABORT_IN_PROGRESS"}
          /\ mem' = [mem EXCEPT !.botched = FALSE]
          /\ UNCHANGED <<disk, tasks, sent, owed>>
    /\ UNCHANGED <<epoch, participants>>

\* ScheduleFinalizeAbortTxnWrite, with FinalizeAbortTransaction.
FinalizeAbortWrite ==
    /\ tasks[epoch].sched = "FinalizeAbort" /\ WriteLockFree
    /\ IF mem.state = "ABORT_IN_PROGRESS"
       THEN Persist("ABORTED", disk.ts)
       ELSE UNCHANGED <<disk, mem>>
    /\ Run(NoTasks)
    /\ UNCHANGED <<epoch, participants, owed>>

\* Each of them on a former leader: its ScopedLeaderSharedLock fails.
NotTheLeader(e) ==
    /\ e < epoch /\ tasks[e].sched \notin {"none", NoTasks.sched}
    /\ tasks' = [tasks EXCEPT ![e] = NoTasks]
    /\ UNCHANGED <<epoch, disk, mem, sent, participants, owed>>

(***************************************************************************)
(* Another server leads the status tablet: PrepareLeadershipTask reads the *)
(* entry and takes up what is unfinished. Calls at the former leader fail. *)
(***************************************************************************)
LoadedTasksOfCommit(d) ==
    IF d.state \in {"COMMIT_IN_PROGRESS", "FINALIZE_IN_PROGRESS"}
    THEN [NewTasks(d.parts) EXCEPT !.sched = "CompleteCommit"]
    ELSE IF d.state = "ABORT_IN_PROGRESS" THEN AbortTxnAsync(NewTasks(d.parts)) ELSE NoTasks

LoadedTasks(d) ==
    CASE d.state = "COMMIT_IN_PROGRESS" -> BeginCommitAsync(NewTasks(d.parts))
      [] d.state = "FINALIZE_IN_PROGRESS" ->
            FinalizeCommitAsync([NewTasks(d.parts) EXCEPT !.ts = d.ts])
      [] d.state = "ABORT_IN_PROGRESS" -> AbortTxnAsync(NewTasks(d.parts))
      [] OTHER -> NoTasks

NewLeader ==
    /\ epoch < MaxEpochs
    /\ epoch' = epoch + 1
    /\ mem' = [state |-> disk.state, next |-> "none", created |-> disk.parts,
               open |-> disk.parts, reading |-> {}, botched |-> FALSE]
    /\ LET t == LoadedTasks(disk)
       IN  /\ tasks' = [tasks EXCEPT ![epoch + 1] = t]
           /\ sent' = IF t = NoTasks THEN sent ELSE sent \cup Sends(t)
    /\ UNCHANGED <<disk, participants, owed>>

PoolWrite ==
    FinalizeCommitWrite \/ CompleteCommitWrite \/ BeginAbortWrite \/ FinalizeAbortWrite

Next ==
    \/ \E p \in Tablets :
          \/ RegisterParticipant(p) \/ AddNewParticipant(p)
          \/ BeginTxn(p) \/ DeleteTablet(p)
          \/ \E e \in Epochs : Participate(e, p)
    \/ \E m \in sent : ParticipateLate(m)
    \/ CommitMutation \/ BeginCommitTransaction \/ AbortTransaction
    \/ PoolWrite \/ AbortBotchedCommit
    \/ \E e \in Epochs : NotTheLeader(e)
    \/ NewLeader

Spec == Init /\ [][Next]_vars

(***************************************************************************)
(* Calls that hold a lock end, threads of the pool run, and a participant  *)
(* answers in the end: the sender retries for ever.                        *)
(***************************************************************************)
Fairness ==
    /\ WF_vars(\E p \in Tablets : AddNewParticipant(p))
    /\ WF_vars(\E p \in Tablets : Participate(epoch, p))
    /\ WF_vars(CommitMutation)
    /\ WF_vars(PoolWrite)
    /\ WF_vars(AbortBotchedCommit)

FairSpec == Spec /\ Fairness

(***************************************************************************)
(* Properties                                                              *)
(***************************************************************************)

\* The transaction is atomic: coordinator and participants implement
\* AtomicCommit. The outcome is decided by the write of FINALIZE_IN_PROGRESS,
\* ABORT_IN_PROGRESS or, without participants, COMMITTED, and is obeyed also by
\* operations of former leaders that arrive late (txn_status_manager.cc,
\* FinalizeCommitTransaction, BeginAbortTransaction; txn_participant.h,
\* Validate...).
Outcome ==
    CASE disk.state \in {"OPEN", "COMMIT_IN_PROGRESS"} -> [kind |-> "undecided", ts |-> 0]
      [] disk.state \in {"FINALIZE_IN_PROGRESS", "COMMITTED"} ->
            [kind |-> "commit", ts |-> disk.ts]
      [] OTHER -> [kind |-> "abort", ts |-> 0]

Fate(r) ==
    CASE r.state \in {"kInitializing", "kOpen"} -> [kind |-> "working", ts |-> 0]
      [] r.state = "kCommitInProgress" -> [kind |-> "promised", ts |-> r.begin]
      [] r.state = "kCommitted" -> [kind |-> "committed", ts |-> r.ts]
      [] r.state = "kAborted" -> [kind |-> "aborted", ts |-> 0]

Atomic == INSTANCE AtomicCommit
             WITH outcome <- Outcome, fate <- [p \in Tablets |-> Fate(part[p])]

ImplementsAtomicCommit == Atomic!Spec

\* When the status tablet says that the transaction has ended, every tablet
\* that was registered before the end was asked for, and still exists, has
\* ended it in the same way, although errors of FINALIZE_COMMIT are ignored
\* (txn_status_manager.cc, FinalizeCommitAsyncTask, AbortTxnAsyncTask).
EndIsComplete ==
    \A p \in owed \ gone :
        /\ disk.state = "COMMITTED" => part[p].state = "kCommitted"
        /\ disk.state = "ABORTED" => part[p].state = "kAborted"

\* A transaction with registered participants ends once its end was asked for,
\* through aborts that race with its commit and changes of leader
\* (txn_status_manager.cc, ScheduleAbortIfNecessary, LoadFromTabletUnlocked).
EveryTransactionEnds == (owed # {}) ~> (disk.state \in {"COMMITTED", "ABORTED"})

\* RegisterParticipant: "If the transaction isn't open, e.g. because a commit is
\* already in progress, return an error": no tablet takes part that the commit
\* does not know of. One that did would stay open when the transaction has
\* ended: its writes, acknowledged while it was open, would be lost.
NoneLeftOpen ==
    disk.state \in {"COMMITTED", "ABORTED"} =>
        \A p \in Tablets \ gone : part[p].state # "kOpen"
===============================================================================
