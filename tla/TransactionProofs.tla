--------------------------- MODULE TransactionProofs ---------------------------
(***************************************************************************)
(* Proofs about Transaction: its types, that it implements AtomicCommit,   *)
(* and that an announced end is complete, for every set of tablets and     *)
(* timestamps and any number of leaders of the status tablet.              *)
(*                                                                         *)
(* The entry on disk is what everything else is measured by: an operation  *)
(* that was sent, the tasks of every leader so far and the state of a      *)
(* participant each presuppose a state of the entry, and the entry only    *)
(* moves forward. To commit, the tasks of the current leader must know     *)
(* every tablet that could still promise: a tablet that was sent           *)
(* BEGIN_COMMIT by any leader is among their participants, or is not on    *)
(* disk and can never open the transaction.                                *)
(***************************************************************************)
EXTENDS Transaction, TLAPS

Committing == disk.state \in {"FINALIZE_IN_PROGRESS", "COMMITTED"}

Aborting == disk.state \in {"ABORT_IN_PROGRESS", "ABORTED"}

BeginCommitOf(p) == [op |-> "BEGIN_COMMIT", tablet |-> p, ts |-> 0]

Promised(p) == part[p].state \in {"kCommitInProgress", "kCommitted"}

(***************************************************************************)
(* The inductive invariant                                                 *)
(***************************************************************************)

\* The copy is the entry on disk, unless a call that holds the write lock has
\* yet to change it. No registration runs on once the copy is not open.
MemInv ==
    /\ mem.next = "none" => mem.state = disk.state
    /\ mem.next # "none" => mem.next = disk.state
    /\ mem.state # "OPEN" => mem.reading = {}
    /\ disk.parts \cup mem.reading \subseteq mem.created
    /\ owed \subseteq disk.parts

\* What was sent presupposes a state of the entry.
SentInv ==
    \A m \in sent :
        /\ disk.state # "OPEN"
        /\ m.op = "BEGIN_COMMIT" => m = BeginCommitOf(m.tablet)
        /\ m.op = "FINALIZE_COMMIT" => Committing /\ m.ts = disk.ts
        /\ m.op = "ABORT_TXN" => Aborting

\* So do the tasks t of any leader, whose scheduled function fits what they did.
TaskOK(t) ==
    /\ disk.state # "OPEN"
    /\ t.left \subseteq t.parts /\ Sends(t) \subseteq sent
    /\ t.stop = FALSE
    /\ t.abort = "ABORTED" => Aborting
    /\ t.sched # "none" => t.left = {}
    /\ t.op = "FINALIZE_COMMIT" =>
          Committing /\ t.ts = disk.ts /\ t.sched \in {"none", "CompleteCommit"}
    /\ t.op = "ABORT_TXN" => Aborting /\ t.sched \in {"none", "FinalizeAbort"}
    /\ t.sched = "CompleteCommit" => t.op = "FINALIZE_COMMIT" \/ t.parts = {}
    /\ t.sched = "FinalizeAbort" => Aborting /\ (t.op = "ABORT_TXN" \/ t.parts = {})

TasksInv == \A e \in Epochs : tasks[e] # NoTasks => TaskOK(tasks[e])

\* The tasks t of the current leader have the answers that they act upon.
Answers(t) ==
    /\ owed \subseteq t.parts
    /\ t.op = "BEGIN_COMMIT" /\ disk.state = "COMMIT_IN_PROGRESS" =>
          /\ \A p \in Tablets : BeginCommitOf(p) \in sent =>
                p \in t.parts \/ (mem.state # "OPEN" /\ p \notin disk.parts)
          /\ t.abort = "UNKNOWN" => \A p \in t.parts \ t.left :
                part[p].state = "kCommitInProgress" /\ part[p].begin <= t.ts
    /\ t.op = "FINALIZE_COMMIT" =>
          \A p \in (owed \ t.left) \ gone : part[p].state = "kCommitted"
    /\ t.op = "ABORT_TXN" =>
          \A p \in (t.parts \ t.left) \ gone : part[p].state = "kAborted"

LeaderInv == tasks[epoch] # NoTasks => Answers(tasks[epoch])

\* A participant has got as far as the entry on disk and what was sent allow.
PartInv ==
    \A p \in Tablets :
        /\ part[p].state \notin {"kInitializing", "kAborted"} => p \in disk.parts
        /\ Promised(p) => BeginCommitOf(p) \in sent
        /\ part[p].state = "kCommitted" => Committing
        /\ part[p].state = "kAborted" => Aborting

\* Once the commit is decided, its timestamp is above every promise, whoever owes
\* one has given it, and no other tablet can give one.
CommitInv ==
    Committing =>
        /\ mem.state # "OPEN"
        /\ \A p \in Tablets :
              /\ part[p].state = "kCommitInProgress" => part[p].begin <= disk.ts
              /\ BeginCommitOf(p) \in sent => Promised(p) \/ p \notin disk.parts
              /\ p \in owed => Promised(p)

IInv ==
    /\ TypeOK /\ MemInv /\ SentInv /\ TasksInv /\ LeaderInv /\ PartInv /\ CommitInv
    /\ EndIsComplete

-----------------------------------------------------------------------------
(***************************************************************************)
(* Tasks                                                                   *)
(***************************************************************************)

LEMMA NoTasksIsNone ==
    ASSUME NEW t \in CommitTasks PROVE t # NoTasks /\ t.sched # NoTasks.sched
BY DEF CommitTasks, NoTasks

LEMMA TimestampsAreNat ==
    ASSUME NEW ts \in Timestamps \cup {0} PROVE ts \in Nat
BY TransactionAssumption

LEMMA EpochType == MaxEpochs \in Nat /\ 1 \in Epochs
BY TransactionAssumption DEF Epochs

\* The functions of CommitTasks keep its type.
LEMMA TaskTypes ==
    ASSUME NEW t \in CommitTasks
    PROVE  /\ BeginCommitAsync(t) \in CommitTasks
           /\ FinalizeCommitAsync(t) \in CommitTasks
           /\ AbortTxnAsync(t) \in CommitTasks
           /\ ScheduleAbort(t) \in CommitTasks
           /\ SetNeedsBeginAbort(t) \in CommitTasks
           /\ SetNeedsFinalizeAbort(t) \in CommitTasks
           /\ [t EXCEPT !.sched = "RemoveTask"] \in CommitTasks
<1>1. AbortTxnAsync(t) \in CommitTasks
  BY DEF CommitTasks, AbortTxnAsync, ParticipantOps
<1>2. BeginCommitAsync(t) \in CommitTasks
  BY DEF CommitTasks, BeginCommitAsync, ParticipantOps
<1>3. FinalizeCommitAsync(t) \in CommitTasks
  BY DEF CommitTasks, FinalizeCommitAsync, ParticipantOps
<1>4. ScheduleAbort(t) \in CommitTasks
  <2>1. [t EXCEPT !.sched = "BeginAbort"] \in CommitTasks
    BY DEF CommitTasks
  <2> QED BY <1>1, <2>1 DEF ScheduleAbort
<1>5. SetNeedsBeginAbort(t) \in CommitTasks /\ SetNeedsFinalizeAbort(t) \in CommitTasks
  BY DEF CommitTasks, SetNeedsBeginAbort, SetNeedsFinalizeAbort
<1>6. [t EXCEPT !.sched = "RemoveTask"] \in CommitTasks
  BY DEF CommitTasks
<1> QED BY <1>1, <1>2, <1>3, <1>4, <1>5, <1>6

LEMMA NewTasksType ==
    ASSUME NEW parts \in SUBSET Tablets
    PROVE  /\ NewTasks(parts) \in CommitTasks
           /\ \A ts \in Timestamps \cup {0} : [NewTasks(parts) EXCEPT !.ts = ts] \in CommitTasks
BY DEF NewTasks, CommitTasks, ParticipantOps

LEMMA SendsType ==
    ASSUME NEW t \in CommitTasks, t.left \subseteq Tablets
    PROVE  Sends(t) \subseteq Operation
BY DEF Sends, CommitTasks, Operation, ParticipantOps

-----------------------------------------------------------------------------
(***************************************************************************)
(* Participants                                                            *)
(***************************************************************************)

\* The steps of a participant, with what they presuppose.
PartStepOf(p) ==
    \/ part'[p] = part[p]
    \/ /\ part[p].state = "kInitializing" /\ p \in disk.parts
       /\ part'[p].state = "kOpen"
    \/ /\ part[p].state = "kOpen" /\ BeginCommitOf(p) \in sent
       /\ part'[p].state = "kCommitInProgress" /\ part'[p].begin \in Timestamps
    \/ /\ part[p].state = "kCommitInProgress" /\ Committing
       /\ part'[p].state = "kCommitted" /\ part'[p].ts = disk.ts
    \/ /\ part[p].state \in {"kInitializing", "kOpen", "kCommitInProgress"} /\ Aborting
       /\ part'[p].state = "kAborted"

\* One participant takes a step.
PartStep ==
    \E q \in Tablets :
        /\ part' \in [Tablets -> Txn]
        /\ PartStepOf(q)
        /\ \A p \in Tablets \ {q} : part'[p] = part[p]

LEMMA PerformOpIsPartStep ==
    ASSUME TypeOK, SentInv, NEW m \in sent, NEW t \in Timestamps, PerformOp(m, t)
    PROVE  PartStep
<1> DEFINE p == m.tablet
<1>1. m \in Operation /\ p \in Tablets /\ part[p] \in Txn
  BY DEF TypeOK, Operation
<1>2. CASE ~(p \notin gone /\ Valid(part[p], m.op))
  BY <1>1, <1>2 DEF PerformOp, PartStep, PartStepOf, TypeOK
<1>3. CASE p \notin gone /\ Valid(part[p], m.op)
  <2>1. part' = [part EXCEPT ![p] = Performed(part[p], m, t)]
    BY <1>3 DEF PerformOp
  <2>2. Performed(part[p], m, t) \in Txn /\ PartStepOf(p)
    <3>1. CASE m.op = "BEGIN_COMMIT"
      <4>1. m = BeginCommitOf(p) /\ part[p].state = "kOpen"
        BY <1>3, <3>1 DEF SentInv, Valid
      <4>2. Performed(part[p], m, t) = [part[p] EXCEPT !.state = "kCommitInProgress", !.begin = t]
        BY <3>1 DEF Performed
      <4>3. Performed(part[p], m, t) \in Txn
        BY <1>1, <4>2 DEF Txn
      <4> QED BY <1>1, <2>1, <4>1, <4>2, <4>3 DEF PartStepOf, TypeOK, Txn
    <3>2. CASE m.op = "FINALIZE_COMMIT"
      <4>1. Committing /\ m.ts = disk.ts /\ part[p].state = "kCommitInProgress"
        BY <1>3, <3>2 DEF SentInv, Valid
      <4>2. Performed(part[p], m, t) = [part[p] EXCEPT !.state = "kCommitted", !.ts = m.ts]
        BY <3>2 DEF Performed
      <4>3. Performed(part[p], m, t) \in Txn
        BY <1>1, <4>2 DEF Txn, Operation
      <4> QED BY <1>1, <2>1, <4>1, <4>2, <4>3 DEF PartStepOf, TypeOK, Txn
    <3>3. CASE m.op = "ABORT_TXN"
      <4>1. Aborting /\ part[p].state \in {"kInitializing", "kOpen", "kCommitInProgress"}
        BY <1>3, <3>3 DEF SentInv, Valid
      <4>2. Performed(part[p], m, t) = [part[p] EXCEPT !.state = "kAborted"]
        BY <3>3 DEF Performed
      <4>3. Performed(part[p], m, t) \in Txn
        BY <1>1, <4>2 DEF Txn
      <4> QED BY <1>1, <2>1, <4>1, <4>2, <4>3 DEF PartStepOf, TypeOK, Txn
    <3> QED BY <1>1, <3>1, <3>2, <3>3 DEF Operation, ParticipantOps
  <2> QED BY <1>1, <2>1, <2>2 DEF PartStep, TypeOK
<1> QED BY <1>2, <1>3

\* A participant's step, and the deletion of tablets, keep what is said of
\* participants, and what was said of the answers that any tasks have.
LEMMA PartStepKeeps ==
    ASSUME IInv, PartStep \/ UNCHANGED part,
           UNCHANGED <<disk, mem, owed>>,
           sent \subseteq sent', \A m \in sent' \ sent : m.op = "ABORT_TXN" /\ Aborting,
           gone \subseteq gone', gone' \subseteq Tablets
    PROVE  /\ part' \in [Tablets -> Txn]
           /\ MemInv' /\ SentInv' /\ PartInv' /\ CommitInv' /\ EndIsComplete'
           /\ \A t \in CommitTasks : Answers(t) => Answers(t)'
<1>0. \A p : (BeginCommitOf(p) \in sent)' = (BeginCommitOf(p) \in sent)
  BY DEF BeginCommitOf
<1>1. part' \in [Tablets -> Txn] /\ \A p \in Tablets : PartStepOf(p)
  BY DEF PartStep, PartStepOf, IInv, TypeOK
<1>2. MemInv' /\ SentInv'
  BY DEF IInv, MemInv, SentInv, Committing, Aborting, BeginCommitOf
<1>3. ~(Committing /\ Aborting)
  BY DEF Committing, Aborting
<1>4. \A p \in Tablets :
         /\ part[p].state = "kCommitted" => part'[p] = part[p]
         /\ part[p].state = "kAborted" => part'[p] = part[p]
         /\ part[p].state = "kCommitInProgress" /\ ~Aborting =>
               part'[p].state \in {"kCommitInProgress", "kCommitted"}
         /\ part[p].state = "kCommitInProgress" /\ part'[p].state = "kCommitInProgress" =>
               part'[p] = part[p]
  BY <1>1 DEF PartStepOf
<1>5. PartInv'
  BY <1>0, <1>1 DEF PartStepOf, PartInv, Promised, Committing, Aborting, IInv
<1>6. CommitInv'
  <2> SUFFICES ASSUME Committing, NEW p \in Tablets
               PROVE  /\ part'[p].state = "kCommitInProgress" => part'[p].begin <= disk.ts
                      /\ BeginCommitOf(p) \in sent => Promised(p)' \/ p \notin disk.parts
                      /\ p \in owed => Promised(p)'
    BY <1>0 DEF CommitInv, Committing, IInv
  <2>1. /\ part[p].state = "kCommitInProgress" => part[p].begin <= disk.ts
        /\ BeginCommitOf(p) \in sent => Promised(p) \/ p \notin disk.parts
        /\ p \in owed => Promised(p)
    BY DEF IInv, CommitInv
  <2>2. part[p].state = "kOpen" => p \in disk.parts
    BY DEF IInv, PartInv
  <2>3. Promised(p) => Promised(p)'
    BY <1>3, <1>4 DEF Promised
  <2> QED BY <1>1, <1>3, <1>4, <2>1, <2>2, <2>3 DEF PartStepOf, Promised
<1>7. EndIsComplete'
  BY <1>4 DEF EndIsComplete, IInv, TypeOK
<1>8. ASSUME NEW t \in CommitTasks, Answers(t) PROVE Answers(t)'
  <2>1. disk.state = "COMMIT_IN_PROGRESS" => \A p \in Tablets :
            part[p].state = "kCommitInProgress" => part'[p] = part[p]
    BY <1>1 DEF PartStepOf, Committing, Aborting
  <2>2. t.parts \subseteq Tablets
    BY DEF CommitTasks
  <2> QED BY <1>0, <1>4, <1>8, <2>1, <2>2 DEF Answers, IInv, TypeOK
<1> QED BY <1>1, <1>2, <1>5, <1>6, <1>7, <1>8

\* A step of a participant on its own: BEGIN_TXN, a late operation, or the
\* deletion of a tablet.
LEMMA ParticipantSteps ==
    ASSUME IInv
    PROVE  /\ \A p \in Tablets : BeginTxn(p) \/ DeleteTablet(p) => IInv'
           /\ \A m \in sent : ParticipateLate(m) => IInv'
<1>1. ASSUME PartStep \/ UNCHANGED part, UNCHANGED <<coordinator, sent, owed>>,
             gone \subseteq gone', gone' \subseteq Tablets
      PROVE  IInv'
  <2>1. UNCHANGED <<epoch, disk, mem, tasks, sent, owed>>
    BY <1>1 DEF coordinator
  <2>2. /\ part' \in [Tablets -> Txn]
        /\ MemInv' /\ SentInv' /\ PartInv' /\ CommitInv' /\ EndIsComplete'
        /\ \A t \in CommitTasks : Answers(t) => Answers(t)'
    BY <1>1, <2>1, PartStepKeeps
  <2>3. TypeOK'
    BY <1>1, <2>1, <2>2 DEF IInv, TypeOK
  <2>4. TasksInv'
    BY <2>1 DEF IInv, TasksInv, TaskOK, Committing, Aborting
  <2>5. LeaderInv'
    <3> SUFFICES ASSUME tasks[epoch] # NoTasks PROVE Answers(tasks[epoch])'
      BY <2>1 DEF LeaderInv
    <3> DEFINE t == tasks[epoch]
    <3>1. t \in CommitTasks /\ Answers(t)
      BY DEF IInv, TypeOK, LeaderInv
    <3>2. \A u \in CommitTasks : Answers(u) => Answers(u)'
      BY <2>2
    <3> QED BY <2>1, <3>1, <3>2 DEF Answers
  <2> QED BY <2>2, <2>3, <2>4, <2>5 DEF IInv
<1>2. ASSUME NEW p \in Tablets, BeginTxn(p) PROVE IInv'
  <2>1. PartStep
    BY <1>2 DEF BeginTxn, PartStep, PartStepOf, IInv, TypeOK, Txn
  <2> QED BY <1>1, <1>2, <2>1 DEF BeginTxn, IInv, TypeOK
<1>3. ASSUME NEW p \in Tablets, DeleteTablet(p) PROVE IInv'
  BY <1>1, <1>3 DEF DeleteTablet, IInv, TypeOK
<1>4. ASSUME NEW m \in sent, ParticipateLate(m) PROVE IInv'
  <2>1. PartStep
    BY <1>4, PerformOpIsPartStep DEF ParticipateLate, IInv
  <2> QED BY <1>1, <1>4, <2>1 DEF ParticipateLate, IInv, TypeOK
<1> QED BY <1>2, <1>3, <1>4

-----------------------------------------------------------------------------
(***************************************************************************)
(* The coordinator                                                         *)
(***************************************************************************)

\* The entry on disk moves forward.
Forward ==
    /\ disk.state # "OPEN" => disk'.state # "OPEN"
    /\ Aborting => Aborting'
    /\ Committing => Committing' /\ disk'.ts = disk.ts
    /\ disk.parts \subseteq disk'.parts

\* What the tasks of any leader presuppose then stays true.
LEMMA ForwardKeepsTasks ==
    ASSUME Forward, sent \subseteq sent', NEW t \in CommitTasks, TaskOK(t)
    PROVE  TaskOK(t)'
BY DEF Forward, TaskOK, Sends

LEMMA BeginCommitSends ==
    ASSUME NEW t, NEW p, BeginCommitOf(p) \in Sends(t)
    PROVE  t.op = "BEGIN_COMMIT" /\ p \in t.left
BY DEF BeginCommitOf, Sends

\* The leader, of this epoch or a new one, gets tasks t that fit the entry, and
\* sends their operations.
LEMMA RunKeeps ==
    ASSUME TypeOK, TasksInv, SentInv, Forward,
           NEW e \in Epochs, NEW t \in CommitTasks \cup {NoTasks},
           tasks' = [tasks EXCEPT ![e] = t],
           sent' = IF t = NoTasks THEN sent ELSE sent \cup Sends(t),
           t # NoTasks => TaskOK(t)'
    PROVE  /\ tasks' \in [Epochs -> CommitTasks \cup {NoTasks}]
           /\ sent' \subseteq Operation
           /\ sent \subseteq sent'
           /\ TasksInv' /\ SentInv'
           /\ epoch' = e => (LeaderInv' <=> (t # NoTasks => Answers(t)'))
           /\ \A p : BeginCommitOf(p) \in sent' =>
                 BeginCommitOf(p) \in sent
                 \/ (t # NoTasks /\ t.op = "BEGIN_COMMIT" /\ p \in t.left)
<1>1. tasks' \in [Epochs -> CommitTasks \cup {NoTasks}]
  BY DEF TypeOK
<1>2. sent' \subseteq Operation
  <2>1. CASE t = NoTasks
    BY <2>1 DEF TypeOK
  <2>2. CASE t # NoTasks
    <3>1. t \in CommitTasks /\ t.left \subseteq Tablets
      BY <2>2 DEF CommitTasks
    <3> QED BY <2>2, <3>1, SendsType DEF TypeOK
  <2> QED BY <2>1, <2>2
<1>3. sent \subseteq sent'
  OBVIOUS
<1>4. TasksInv'
  <2> SUFFICES ASSUME NEW f \in Epochs, tasks'[f] # NoTasks PROVE TaskOK(tasks[f])'
    BY DEF TasksInv, TaskOK
  <2>1. CASE f = e
    <3>1. tasks'[f] = t
      BY <2>1 DEF TypeOK
    <3> QED BY <2>1, <3>1 DEF TaskOK
  <2>2. CASE f # e
    <3>1. tasks'[f] = tasks[f] /\ tasks[f] \in CommitTasks /\ TaskOK(tasks[f])
      BY <2>2 DEF TypeOK, TasksInv
    <3>2. \A u \in CommitTasks : TaskOK(u) => TaskOK(u)'
      BY <1>3, ForwardKeepsTasks
    <3> QED BY <3>1, <3>2 DEF TaskOK
  <2> QED BY <2>1, <2>2
<1>5. SentInv'
  <2>1. ASSUME NEW m \in sent
        PROVE  /\ disk'.state # "OPEN"
               /\ m.op = "BEGIN_COMMIT" => m = BeginCommitOf(m.tablet)
               /\ m.op = "FINALIZE_COMMIT" => Committing' /\ m.ts = disk'.ts
               /\ m.op = "ABORT_TXN" => Aborting'
    BY <2>1 DEF SentInv, Forward
  <2>2. ASSUME t # NoTasks, NEW m \in Sends(t)
        PROVE  /\ disk'.state # "OPEN"
               /\ m.op = "BEGIN_COMMIT" => m = BeginCommitOf(m.tablet)
               /\ m.op = "FINALIZE_COMMIT" => Committing' /\ m.ts = disk'.ts
               /\ m.op = "ABORT_TXN" => Aborting'
    BY <2>2 DEF TaskOK, Sends, BeginCommitOf
  <2> QED BY <2>1, <2>2 DEF SentInv
<1>6. epoch' = e => (LeaderInv' <=> (t # NoTasks => Answers(t)'))
  BY DEF LeaderInv, TypeOK, Answers
<1>7. \A p : BeginCommitOf(p) \in sent' =>
                 BeginCommitOf(p) \in sent
                 \/ (t # NoTasks /\ t.op = "BEGIN_COMMIT" /\ p \in t.left)
  BY BeginCommitSends DEF BeginCommitOf
<1> QED BY <1>1, <1>2, <1>3, <1>4, <1>5, <1>6, <1>7

\* A state of the copy that no call is about to change is the entry's.
LEMMA LockFreeIsDisk ==
    ASSUME IInv, WriteLockFree PROVE mem.state = disk.state
BY DEF IInv, MemInv, WriteLockFree

LEMMA RegistrationSteps ==
    ASSUME IInv, NEW p \in Tablets, RegisterParticipant(p) \/ AddNewParticipant(p)
    PROVE  IInv'
<1>1. mem.state = "OPEN"
  BY DEF RegisterParticipant, AddNewParticipant, IInv, MemInv
<1>2. ~Committing
  BY <1>1 DEF IInv, CommitInv
<1>3. UNCHANGED <<epoch, tasks, sent, part, gone, owed>>
  BY DEF RegisterParticipant, AddNewParticipant, participants
<1>4. /\ disk'.state = disk.state /\ disk'.ts = disk.ts
      /\ disk.parts \subseteq disk'.parts /\ disk' \in Entry
      /\ disk'.parts \subseteq disk.parts \cup {p}
  BY DEF RegisterParticipant, AddNewParticipant, IInv, TypeOK, Entry
<1>5. mem' \in Copy /\ mem'.state = mem.state /\ mem'.next = mem.next
  <2>1. CASE RegisterParticipant(p)
    BY <2>1 DEF RegisterParticipant, IInv, TypeOK, Copy
  <2>2. CASE AddNewParticipant(p)
    BY <2>2 DEF AddNewParticipant, IInv, TypeOK, Copy
  <2> QED BY <2>1, <2>2
<1>6. disk'.parts \cup mem'.reading \subseteq mem'.created
  <2>1. CASE RegisterParticipant(p)
    BY <2>1 DEF RegisterParticipant, IInv, TypeOK, MemInv, Copy
  <2>2. CASE AddNewParticipant(p)
    BY <2>2 DEF AddNewParticipant, IInv, TypeOK, MemInv, Copy, Entry
  <2> QED BY <2>1, <2>2
<1>7. TypeOK'
  BY <1>3, <1>4, <1>5 DEF IInv, TypeOK
<1>8. MemInv'
  BY <1>1, <1>3, <1>4, <1>5, <1>6 DEF IInv, MemInv
<1>9. SentInv' /\ TasksInv' /\ PartInv' /\ CommitInv' /\ EndIsComplete'
  <2>1. SentInv'
    BY <1>3, <1>4 DEF IInv, SentInv, Committing, Aborting, BeginCommitOf
  <2>2. TasksInv'
    BY <1>3, <1>4 DEF IInv, TasksInv, TaskOK, Committing, Aborting, Sends
  <2>3. PartInv'
    BY <1>3, <1>4 DEF IInv, PartInv, Promised, Committing, Aborting, BeginCommitOf
  <2>4. CommitInv'
    BY <1>2, <1>4 DEF CommitInv, Committing
  <2>5. EndIsComplete'
    BY <1>3, <1>4 DEF IInv, EndIsComplete
  <2> QED BY <2>1, <2>2, <2>3, <2>4, <2>5
<1>10. LeaderInv'
  BY <1>1, <1>3, <1>4, <1>5 DEF IInv, LeaderInv, Answers, BeginCommitOf
<1> QED BY <1>7, <1>8, <1>9, <1>10 DEF IInv

LEMMA CommitMutationStep ==
    ASSUME IInv, CommitMutation PROVE IInv'
<1>1. /\ mem.next # "none" /\ mem.next = disk.state /\ mem.reading = {}
      /\ mem' = [mem EXCEPT !.state = mem.next, !.next = "none"]
      /\ UNCHANGED <<epoch, disk, tasks, sent, part, gone, owed>>
  BY DEF CommitMutation, WriteLockFree, participants, IInv, MemInv
<1>2. /\ mem' \in Copy /\ mem'.state = disk.state /\ mem'.next = "none"
      /\ mem'.reading = {} /\ mem'.created = mem.created
  BY <1>1 DEF IInv, TypeOK, Copy, Entry
<1>3. TypeOK' /\ MemInv'
  BY <1>1, <1>2 DEF IInv, TypeOK, MemInv
<1>4. SentInv' /\ PartInv' /\ EndIsComplete'
  BY <1>1 DEF IInv, SentInv, PartInv, EndIsComplete, Promised, Committing, Aborting,
              BeginCommitOf
<1>5. TasksInv'
  BY <1>1 DEF IInv, TasksInv, TaskOK, Committing, Aborting, Sends
<1>6. CommitInv'
  BY <1>1, <1>2 DEF IInv, CommitInv, Promised, Committing, BeginCommitOf
<1>7. LeaderInv'
  BY <1>1, <1>2 DEF IInv, LeaderInv, Answers, BeginCommitOf
<1> QED BY <1>3, <1>4, <1>5, <1>6, <1>7 DEF IInv

LEMMA NotTheLeaderStep ==
    ASSUME IInv, NEW e \in Epochs, NotTheLeader(e) PROVE IInv'
<1>1. /\ e # epoch /\ tasks' = [tasks EXCEPT ![e] = NoTasks]
      /\ UNCHANGED <<epoch, disk, mem, sent, part, gone, owed>>
  BY TransactionAssumption DEF NotTheLeader, participants, Epochs, IInv, TypeOK
<1>2. TypeOK' /\ tasks'[epoch] = tasks[epoch]
  BY <1>1 DEF IInv, TypeOK
<1>3. SentInv' /\ PartInv' /\ EndIsComplete' /\ MemInv'
  BY <1>1 DEF IInv, SentInv, PartInv, EndIsComplete, MemInv, Promised, Committing, Aborting,
              BeginCommitOf
<1>4. TasksInv'
  BY <1>1 DEF IInv, TypeOK, TasksInv, TaskOK, Committing, Aborting, Sends
<1>5. CommitInv'
  BY <1>1, <1>2 DEF IInv, CommitInv, Promised, Committing, BeginCommitOf
<1>6. LeaderInv'
  BY <1>1, <1>2 DEF IInv, LeaderInv, Answers, BeginCommitOf
<1> QED BY <1>2, <1>3, <1>4, <1>5, <1>6 DEF IInv

\* What the functions that send operations to all participants return.
LEMMA BeginCommitAsyncIs ==
    ASSUME NEW parts \in SUBSET Tablets
    PROVE  LET t == BeginCommitAsync(NewTasks(parts))
           IN  /\ t \in CommitTasks /\ t.op = "BEGIN_COMMIT" /\ t.parts = parts
               /\ t.left = parts /\ t.abort = "UNKNOWN" /\ t.stop = FALSE
               /\ t.sched = IF parts = {} THEN "CompleteCommit" ELSE "none"
<1>1. NewTasks(parts) \in CommitTasks
  BY NewTasksType
<1>2. BeginCommitAsync(NewTasks(parts)) \in CommitTasks
  BY <1>1, TaskTypes
<1> QED BY <1>1, <1>2 DEF BeginCommitAsync, NewTasks, CommitTasks

LEMMA AbortTxnAsyncIs ==
    ASSUME NEW t \in CommitTasks, t.left = {}, t.op = "BEGIN_COMMIT"
    PROVE  LET a == AbortTxnAsync(t)
           IN  /\ a \in CommitTasks /\ a.parts = t.parts /\ a.left = t.parts
               /\ a.abort = t.abort /\ a.stop = t.stop
               /\ a.op = IF t.parts = {} THEN "BEGIN_COMMIT" ELSE "ABORT_TXN"
               /\ a.sched = IF t.parts = {} THEN "FinalizeAbort" ELSE "none"
<1>1. AbortTxnAsync(t) \in CommitTasks
  BY TaskTypes
<1> QED BY <1>1 DEF AbortTxnAsync, CommitTasks

LEMMA BeginCommitStep ==
    ASSUME IInv, BeginCommitTransaction PROVE IInv'
<1>1. /\ mem.state = "OPEN" /\ mem.next = "none" /\ disk.state = "OPEN"
      /\ disk' = [disk EXCEPT !.state = "COMMIT_IN_PROGRESS", !.ts = 0]
      /\ mem' = [mem EXCEPT !.next = "COMMIT_IN_PROGRESS"]
      /\ owed' = disk.parts /\ UNCHANGED <<epoch, part, gone>>
  BY LockFreeIsDisk DEF BeginCommitTransaction, WriteLockFree, Persist, participants
<1>2. sent = {} /\ tasks[epoch] = NoTasks
  BY <1>1 DEF IInv, TypeOK, SentInv, TasksInv, TaskOK
<1>3. PICK t \in CommitTasks :
         /\ Run(t) /\ t.op = "BEGIN_COMMIT" /\ t.parts = mem.created
         /\ t.left = mem.created /\ t.abort = "UNKNOWN" /\ t.stop = FALSE
         /\ t.sched = IF mem.created = {} THEN "CompleteCommit" ELSE "none"
  <2>1. mem.created \in SUBSET Tablets
    BY DEF IInv, TypeOK, Copy
  <2> QED BY <1>2, <2>1, BeginCommitAsyncIs DEF BeginCommitTransaction
<1>4. /\ disk' \in Entry /\ disk'.state = "COMMIT_IN_PROGRESS" /\ disk'.parts = disk.parts
      /\ mem' \in Copy /\ mem'.next = "COMMIT_IN_PROGRESS" /\ mem'.state = "OPEN"
      /\ mem'.created = mem.created /\ mem'.reading = mem.reading
  BY <1>1 DEF IInv, TypeOK, Entry, Copy, TxnStatePB
<1>5. Forward
  BY <1>1, <1>4 DEF Forward, Committing, Aborting
<1>6. t # NoTasks /\ TaskOK(t)'
  BY <1>3, <1>4, NoTasksIsNone DEF TaskOK, Run
<1>7. /\ tasks' \in [Epochs -> CommitTasks \cup {NoTasks}]
      /\ sent' \subseteq Operation /\ sent \subseteq sent'
      /\ TasksInv' /\ SentInv' /\ (LeaderInv' <=> Answers(t)')
      /\ \A p : BeginCommitOf(p) \in sent' => p \in t.left
  BY <1>1, <1>2, <1>3, <1>5, <1>6, RunKeeps DEF Run, IInv, TypeOK
<1>8. TypeOK' /\ MemInv'
  BY <1>1, <1>4, <1>7 DEF IInv, TypeOK, MemInv, Entry
<1>9. PartInv'
  BY <1>1, <1>2, <1>4 DEF IInv, PartInv, Committing, Aborting, Promised
<1>10. CommitInv' /\ EndIsComplete'
  BY <1>4 DEF CommitInv, EndIsComplete, Committing
<1>11. Answers(t)'
  <2>1. owed' \subseteq t.parts
    BY <1>1, <1>3 DEF IInv, MemInv
  <2> QED BY <1>3, <1>7, <2>1 DEF Answers, BeginCommitOf
<1> QED BY <1>7, <1>8, <1>9, <1>10, <1>11 DEF IInv

\* Tasks a that AbortTxnAsync returned, once the abort is on disk.
AbortsAll(a) ==
    /\ a.left = a.parts /\ a.stop = FALSE
    /\ a.op = IF a.parts = {} THEN "BEGIN_COMMIT" ELSE "ABORT_TXN"
    /\ a.sched = IF a.parts = {} THEN "FinalizeAbort" ELSE "none"

LEMMA AbortsAllIsOK ==
    ASSUME NEW a \in CommitTasks, AbortsAll(a), Aborting', (Sends(a) \subseteq sent)'
    PROVE  /\ a # NoTasks /\ TaskOK(a)'
           /\ owed' \subseteq a.parts => Answers(a)'
<1>1. a # NoTasks
  BY NoTasksIsNone
<1>2. disk'.state \notin {"OPEN", "COMMIT_IN_PROGRESS"}
  BY DEF Aborting
<1>3. TaskOK(a)'
  BY <1>2 DEF TaskOK, AbortsAll
<1>4. owed' \subseteq a.parts => Answers(a)'
  BY <1>2 DEF Answers, AbortsAll
<1> QED BY <1>1, <1>3, <1>4

\* New tasks that abort: those of StartAbort, BeginAbort and NewLeader.
LEMMA AbortsAllNew ==
    ASSUME NEW parts \in SUBSET Tablets
    PROVE  LET a == AbortTxnAsync(NewTasks(parts))
           IN  a \in CommitTasks /\ AbortsAll(a) /\ a.parts = parts
<1>1. /\ NewTasks(parts) \in CommitTasks /\ NewTasks(parts).left = {}
      /\ NewTasks(parts).op = "BEGIN_COMMIT" /\ NewTasks(parts).stop = FALSE
      /\ NewTasks(parts).parts = parts
  BY NewTasksType DEF NewTasks
<1> QED BY <1>1, AbortTxnAsyncIs DEF AbortsAll

\* The leader gets tasks t, or loses its tasks, and neither the entry nor the
\* copy is changed otherwise.
LEMMA RunOnlyKeeps ==
    ASSUME IInv, NEW t \in CommitTasks \cup {NoTasks}, Run(t),
           UNCHANGED <<epoch, disk, part, gone, owed>>,
           mem' = mem \/ \E b \in BOOLEAN : mem' = [mem EXCEPT !.botched = b],
           t # NoTasks => /\ TaskOK(t)' /\ Answers(t)'
                          /\ t.op = "BEGIN_COMMIT" => t.left = {}
    PROVE  IInv'
<1>1. Forward
  BY DEF Forward, Committing, Aborting
<1>2. /\ tasks' \in [Epochs -> CommitTasks \cup {NoTasks}]
      /\ sent' \subseteq Operation /\ sent \subseteq sent'
      /\ TasksInv' /\ SentInv' /\ LeaderInv'
      /\ \A p : BeginCommitOf(p) \in sent' => BeginCommitOf(p) \in sent
  BY <1>1, RunKeeps DEF Run, IInv, TypeOK
<1>3. /\ mem' \in Copy /\ mem'.state = mem.state /\ mem'.next = mem.next
      /\ mem'.created = mem.created /\ mem'.reading = mem.reading
  BY DEF IInv, TypeOK, Copy
<1>4. TypeOK' /\ MemInv'
  BY <1>2, <1>3 DEF IInv, TypeOK, MemInv
<1>5. PartInv' /\ EndIsComplete'
  BY <1>2 DEF IInv, PartInv, EndIsComplete, Promised, Committing, Aborting, BeginCommitOf
<1>6. CommitInv'
  BY <1>2, <1>3 DEF IInv, CommitInv, Promised, Committing, BeginCommitOf
<1> QED BY <1>2, <1>4, <1>5, <1>6 DEF IInv

LEMMA BotchedOnlyKeeps ==
    ASSUME IInv, UNCHANGED <<epoch, disk, tasks, sent, part, gone, owed>>,
           mem' = mem \/ \E b \in BOOLEAN : mem' = [mem EXCEPT !.botched = b]
    PROVE  IInv'
<1>1. /\ mem' \in Copy /\ mem'.state = mem.state /\ mem'.next = mem.next
      /\ mem'.created = mem.created /\ mem'.reading = mem.reading
  BY DEF IInv, TypeOK, Copy
<1>2. TypeOK' /\ MemInv'
  BY <1>1 DEF IInv, TypeOK, MemInv
<1>3. PartInv' /\ EndIsComplete' /\ SentInv'
  BY DEF IInv, PartInv, EndIsComplete, SentInv, Promised, Committing, Aborting, BeginCommitOf
<1>4. CommitInv'
  BY <1>1 DEF IInv, CommitInv, Promised, Committing, BeginCommitOf
<1>5. TasksInv'
  BY DEF IInv, TasksInv, TaskOK, Sends, Committing, Aborting
<1>6. LeaderInv'
  BY <1>1 DEF IInv, LeaderInv, Answers, BeginCommitOf
<1> QED BY <1>2, <1>3, <1>4, <1>5, <1>6 DEF IInv

\* BeginAbortTransaction, when the abort is on disk already.
LEMMA StartAbortStep ==
    ASSUME IInv, WriteLockFree, StartAbort,
           mem' = mem \/ mem' = [mem EXCEPT !.botched = FALSE],
           UNCHANGED <<epoch, participants>>
    PROVE  IInv'
<1>1. Aborting' /\ UNCHANGED <<epoch, disk, part, gone, owed>>
  BY LockFreeIsDisk DEF StartAbort, Aborting, participants
<1>2. CASE tasks[epoch] = NoTasks
  <2>1. mem.created \in SUBSET Tablets
    BY DEF IInv, TypeOK, Copy
  <2>2. PICK a \in CommitTasks : Run(a) /\ AbortsAll(a) /\ a.parts = mem.created
    BY <1>2, <2>1, AbortsAllNew DEF StartAbort
  <2>3. (Sends(a) \subseteq sent)'
    BY <2>2, NoTasksIsNone DEF Run, Sends
  <2>4. owed' \subseteq a.parts
    BY <1>1, <2>2 DEF IInv, MemInv
  <2>5. TaskOK(a)' /\ Answers(a)'
    BY <1>1, <2>2, <2>3, <2>4, AbortsAllIsOK
  <2> QED BY <1>1, <2>2, <2>5, RunOnlyKeeps DEF AbortsAll
<1>3. CASE tasks[epoch] # NoTasks
  BY <1>1, <1>3, BotchedOnlyKeeps DEF StartAbort
<1> QED BY <1>2, <1>3

\* BeginAbortTransaction, when it decides the abort.
LEMMA BeginAbortStep ==
    ASSUME IInv, WriteLockFree, BeginAbort,
           \/ mem' = [mem EXCEPT !.next = "ABORT_IN_PROGRESS"]
           \/ mem' = [mem EXCEPT !.next = "ABORT_IN_PROGRESS", !.botched = FALSE],
           UNCHANGED <<epoch, participants>>
    PROVE  IInv'
<1>1. /\ mem.next = "none" /\ disk.state = mem.state
      /\ mem.state \in {"OPEN", "COMMIT_IN_PROGRESS"}
      /\ disk' = [disk EXCEPT !.state = "ABORT_IN_PROGRESS"]
      /\ owed' = (IF mem.state = "OPEN" THEN disk.parts ELSE owed)
      /\ UNCHANGED <<epoch, part, gone>>
  BY LockFreeIsDisk DEF BeginAbort, WriteLockFree, participants
<1>2. /\ disk' \in Entry /\ disk'.state = "ABORT_IN_PROGRESS" /\ disk'.parts = disk.parts
  BY <1>1 DEF IInv, TypeOK, Entry, TxnStatePB
<1>3. /\ mem' \in Copy /\ mem'.next = "ABORT_IN_PROGRESS" /\ mem'.state = mem.state
      /\ mem'.created = mem.created /\ mem'.reading = mem.reading
  BY DEF IInv, TypeOK, Copy, TxnStatePB
<1>4. Forward /\ ~Committing /\ ~Aborting /\ Aborting' /\ ~Committing'
  BY <1>1, <1>2 DEF Forward, Committing, Aborting
<1>5. owed' \subseteq disk.parts /\ owed' \subseteq mem.created
  BY <1>1 DEF IInv, MemInv
<1>6. PICK t \in CommitTasks : Run(t) /\ t # NoTasks /\ TaskOK(t)' /\ Answers(t)'
  <2>1. CASE tasks[epoch] = NoTasks
    <3>1. mem.created \in SUBSET Tablets
      BY DEF IInv, TypeOK, Copy
    <3>2. PICK a \in CommitTasks : Run(a) /\ AbortsAll(a) /\ a.parts = mem.created
      BY <2>1, <3>1, AbortsAllNew DEF BeginAbort
    <3>3. (Sends(a) \subseteq sent)'
      BY <3>2, NoTasksIsNone DEF Run, Sends
    <3> QED BY <1>4, <1>5, <3>2, <3>3, AbortsAllIsOK
  <2>2. CASE tasks[epoch] # NoTasks
    <3>1. PICK u \in CommitTasks : u = tasks[epoch] /\ TaskOK(u) /\ Answers(u)
      BY <2>2 DEF IInv, TypeOK, TasksInv, LeaderInv
    <3>2. mem.state = "COMMIT_IN_PROGRESS" /\ u.op = "BEGIN_COMMIT"
      BY <1>1, <1>4, <3>1 DEF TaskOK, CommitTasks, ParticipantOps
    <3>3. PICK t \in CommitTasks : t = SetNeedsFinalizeAbort(u)
      BY TaskTypes
    <3>4. /\ Run(t) /\ t # NoTasks /\ t.op = u.op /\ t.parts = u.parts /\ t.left = u.left
          /\ t.stop = u.stop /\ t.sched = u.sched
      BY <2>2, <3>1, <3>3, NoTasksIsNone DEF BeginAbort, SetNeedsFinalizeAbort, CommitTasks
    <3>5. TaskOK(t)'
      BY <1>2, <1>4, <3>1, <3>2, <3>4 DEF TaskOK, Run, Sends
    <3>6. Answers(t)'
      BY <1>1, <1>2, <3>1, <3>2, <3>4 DEF Answers
    <3> QED BY <3>4, <3>5, <3>6
  <2> QED BY <2>1, <2>2
<1>7. /\ tasks' \in [Epochs -> CommitTasks \cup {NoTasks}]
      /\ sent' \subseteq Operation /\ sent \subseteq sent'
      /\ TasksInv' /\ SentInv' /\ LeaderInv'
  BY <1>1, <1>4, <1>6, RunKeeps DEF Run, IInv, TypeOK
<1>8. TypeOK' /\ MemInv'
  BY <1>1, <1>2, <1>3, <1>5, <1>7 DEF IInv, TypeOK, MemInv, Entry
<1>9. PartInv'
  BY <1>1, <1>2, <1>4, <1>7 DEF IInv, PartInv, Promised, BeginCommitOf
<1>10. CommitInv' /\ EndIsComplete'
  BY <1>2, <1>4 DEF CommitInv, EndIsComplete
<1> QED BY <1>6, <1>7, <1>8, <1>9, <1>10 DEF IInv

LEMMA AbortSteps ==
    ASSUME IInv, AbortTransaction \/ AbortBotchedCommit PROVE IInv'
<1>1. CASE AbortTransaction
  BY <1>1, BeginAbortStep, StartAbortStep DEF AbortTransaction
<1>2. CASE AbortBotchedCommit
  BY <1>2, BeginAbortStep, StartAbortStep, BotchedOnlyKeeps
     DEF AbortBotchedCommit, participants
<1> QED BY <1>1, <1>2

\* Tasks whose participants have all answered BEGIN_COMMIT give up.
LEMMA ScheduleAbortIsOK ==
    ASSUME NEW u \in CommitTasks, u.op = "BEGIN_COMMIT", u.left = {}, TaskOK(u)',
           u.abort # "UNKNOWN",
           NEW t \in CommitTasks, t = ScheduleAbort(u), (Sends(t) \subseteq sent)'
    PROVE  /\ TaskOK(t)' /\ (Answers(u)' => Answers(t)')
           /\ t.op = "BEGIN_COMMIT" => t.left = {}
           /\ \A m \in Sends(t) : m.op = "ABORT_TXN" /\ Aborting'
<1>1. u.stop = FALSE /\ disk'.state # "OPEN" /\ (Answers(u)' => owed' \subseteq u.parts)
  BY DEF TaskOK, Answers
<1>2. CASE u.abort = "ABORTED"
  <2>1. t = AbortTxnAsync(u) /\ Aborting'
    BY <1>2 DEF ScheduleAbort, TaskOK
  <2>2. AbortsAll(t) /\ t.parts = u.parts
    BY <1>1, <2>1, AbortTxnAsyncIs DEF AbortsAll
  <2>3. TaskOK(t)' /\ (Answers(u)' => Answers(t)')
    BY <1>1, <2>1, <2>2, AbortsAllIsOK
  <2> QED BY <2>1, <2>2, <2>3 DEF AbortsAll, Sends
<1>3. CASE u.abort # "ABORTED"
  <2>1. /\ t.op = u.op /\ t.parts = u.parts /\ t.left = {} /\ t.stop = u.stop
        /\ t.abort = u.abort /\ t.sched = "BeginAbort" /\ t.ts = u.ts
    BY <1>3 DEF ScheduleAbort, CommitTasks
  <2>2. TaskOK(t)'
    BY <1>1, <1>3, <2>1 DEF TaskOK
  <2>3. Answers(u)' => Answers(t)'
    BY <2>1 DEF Answers
  <2> QED BY <2>1, <2>2, <2>3 DEF Sends
<1> QED BY <1>2, <1>3

\* The tasks of the leader, as a value that later steps do not change.
LEMMA LeaderTasks ==
    ASSUME IInv, tasks[epoch] # NoTasks
    PROVE  /\ tasks[epoch] \in CommitTasks
           /\ TaskOK(tasks[epoch]) /\ Answers(tasks[epoch])
BY DEF IInv, TypeOK, TasksInv, LeaderInv

LEMMA BeginAbortWriteStep ==
    ASSUME IInv, BeginAbortWrite PROVE IInv'
<1>1. /\ tasks[epoch] # NoTasks /\ UNCHANGED <<epoch, disk, part, gone, owed>>
      /\ tasks[epoch].sched \in {"BeginAbort", "RemoveTask"}
  BY DEF BeginAbortWrite, NoTasks, participants
<1>2. PICK u \in CommitTasks : u = tasks[epoch] /\ TaskOK(u) /\ Answers(u)
  BY <1>1, LeaderTasks
<1>3. u.op = "BEGIN_COMMIT" /\ u.left = {} /\ u.stop = FALSE /\ owed \subseteq u.parts
  BY <1>1, <1>2 DEF TaskOK, Answers, CommitTasks, ParticipantOps
<1>4. CASE u.sched = "BeginAbort" /\ u.abort = "ABORTED"
  <2>1. PICK t \in CommitTasks : t = AbortTxnAsync(u)
    BY TaskTypes
  <2>2. Run(t) /\ UNCHANGED mem
    BY <1>2, <1>4, <2>1 DEF BeginAbortWrite
  <2>3. AbortsAll(t) /\ t.parts = u.parts
    BY <1>3, <2>1, AbortTxnAsyncIs DEF AbortsAll
  <2>4. Aborting' /\ (Sends(t) \subseteq sent)'
    BY <1>1, <1>2, <1>4, <2>2, NoTasksIsNone DEF TaskOK, Run, Sends, Aborting
  <2>5. TaskOK(t)' /\ Answers(t)'
    BY <1>1, <1>3, <2>3, <2>4, AbortsAllIsOK
  <2> QED BY <1>1, <2>2, <2>3, <2>5, RunOnlyKeeps DEF AbortsAll
<1>5. CASE u.sched = "BeginAbort" /\ u.abort # "ABORTED"
  <2>1. PICK t \in CommitTasks : t = [u EXCEPT !.sched = "RemoveTask"]
    BY TaskTypes
  <2>2. Run(t) /\ UNCHANGED mem
    BY <1>2, <1>5, <2>1 DEF BeginAbortWrite
  <2>3. /\ t.op = u.op /\ t.parts = u.parts /\ t.left = {} /\ t.stop = u.stop
        /\ t.abort = u.abort /\ t.sched = "RemoveTask" /\ t.ts = u.ts /\ Sends(t) = {}
    BY <1>3, <2>1 DEF CommitTasks, Sends
  <2>4. sent' = sent
    BY <2>2, <2>3 DEF Run
  <2>5. TaskOK(t)'
    BY <1>1, <1>2, <1>3, <1>5, <2>3, <2>4 DEF TaskOK, Sends, Aborting, Committing
  <2>6. Answers(t)'
    BY <1>1, <1>2, <1>3, <2>2, <2>3, <2>4 DEF Answers, BeginCommitOf, CommitTasks
  <2> QED BY <1>1, <2>2, <2>3, <2>5, <2>6, RunOnlyKeeps
<1>6. CASE u.sched = "RemoveTask"
  BY <1>1, <1>2, <1>6, RunOnlyKeeps DEF BeginAbortWrite
<1> QED BY <1>1, <1>2, <1>4, <1>5, <1>6

LEMMA FinalizeAbortWriteStep ==
    ASSUME IInv, FinalizeAbortWrite PROVE IInv'
<1>1. /\ tasks[epoch] # NoTasks /\ tasks[epoch].sched = "FinalizeAbort"
      /\ Run(NoTasks) /\ UNCHANGED <<epoch, part, gone, owed>>
      /\ mem.next = "none" /\ mem.state = disk.state
  BY LockFreeIsDisk DEF FinalizeAbortWrite, NoTasks, participants, WriteLockFree
<1>2. CASE mem.state # "ABORT_IN_PROGRESS"
  BY <1>1, <1>2, RunOnlyKeeps DEF FinalizeAbortWrite
<1>3. CASE mem.state = "ABORT_IN_PROGRESS"
  <2>1. PICK u \in CommitTasks : u = tasks[epoch] /\ TaskOK(u) /\ Answers(u)
    BY <1>1, LeaderTasks
  <2>2. \A p \in owed \ gone : part[p].state = "kAborted"
    BY <1>1, <2>1 DEF TaskOK, Answers
  <2>3. /\ disk' = [disk EXCEPT !.state = "ABORTED", !.ts = disk.ts]
        /\ mem' = [mem EXCEPT !.next = "ABORTED"]
    BY <1>3 DEF FinalizeAbortWrite, Persist
  <2>4. /\ disk' \in Entry /\ disk'.state = "ABORTED" /\ disk'.parts = disk.parts
        /\ mem' \in Copy /\ mem'.next = "ABORTED" /\ mem'.state = mem.state
        /\ mem'.created = mem.created /\ mem'.reading = mem.reading
    BY <2>3 DEF IInv, TypeOK, Entry, Copy, TxnStatePB
  <2>5. Forward /\ Aborting /\ Aborting' /\ ~Committing /\ ~Committing'
    BY <1>1, <1>3, <2>4 DEF Forward, Committing, Aborting
  <2>6. /\ tasks' \in [Epochs -> CommitTasks \cup {NoTasks}]
        /\ sent' = sent /\ TasksInv' /\ SentInv' /\ LeaderInv'
    BY <1>1, <2>5, RunKeeps DEF Run, IInv, TypeOK
  <2>7. TypeOK' /\ MemInv'
    BY <1>1, <2>4, <2>6 DEF IInv, TypeOK, MemInv
  <2>8. PartInv' /\ CommitInv' /\ EndIsComplete'
    BY <1>1, <2>2, <2>4, <2>5, <2>6
       DEF IInv, PartInv, CommitInv, EndIsComplete, Promised, BeginCommitOf
  <2> QED BY <2>6, <2>7, <2>8 DEF IInv
<1> QED BY <1>2, <1>3

\* Every tablet that can promise is known to the tasks that commit, because
\* whoever was sent BEGIN_COMMIT by an earlier leader, and is on disk, is.
LEMMA KnownToTasks ==
    ASSUME IInv, tasks[epoch] # NoTasks, tasks[epoch].op = "BEGIN_COMMIT",
           disk.state = "COMMIT_IN_PROGRESS"
    PROVE  \A p \in Tablets :
              /\ part[p].state = "kCommitInProgress" => p \in tasks[epoch].parts
              /\ part[p].state # "kCommitted" /\ part[p].state # "kAborted"
BY LeaderTasks DEF IInv, PartInv, Answers, Promised, Committing, Aborting

\* The write of COMMITTED: by tasks that have heard of all, or have no
\* participants to hear of.
LEMMA CompleteCommitWriteStep ==
    ASSUME IInv, CompleteCommitWrite PROVE IInv'
<1>1. /\ tasks[epoch] # NoTasks /\ tasks[epoch].sched = "CompleteCommit"
      /\ Run(NoTasks) /\ UNCHANGED <<epoch, part, gone, owed>>
      /\ mem.next = "none" /\ mem.state = disk.state
  BY LockFreeIsDisk DEF CompleteCommitWrite, NoTasks, participants, WriteLockFree
<1>2. CASE mem.state \notin {"COMMIT_IN_PROGRESS", "FINALIZE_IN_PROGRESS"}
  BY <1>1, <1>2, RunOnlyKeeps DEF CompleteCommitWrite
<1>3. CASE mem.state \in {"COMMIT_IN_PROGRESS", "FINALIZE_IN_PROGRESS"}
  <2>1. PICK u \in CommitTasks : u = tasks[epoch] /\ TaskOK(u) /\ Answers(u)
    BY <1>1, LeaderTasks
  <2>2. u.left = {} /\ owed \subseteq u.parts /\ (u.op = "FINALIZE_COMMIT" \/ u.parts = {})
    BY <1>1, <2>1 DEF TaskOK, Answers
  <2>3. \A p \in owed \ gone : part[p].state = "kCommitted"
    BY <2>1, <2>2 DEF Answers
  <2>4. /\ disk' = [disk EXCEPT !.state = "COMMITTED", !.ts = disk.ts]
        /\ mem' = [mem EXCEPT !.next = "COMMITTED"]
    BY <1>3 DEF CompleteCommitWrite, Persist
  <2>5. /\ disk' \in Entry /\ disk'.state = "COMMITTED" /\ disk'.parts = disk.parts
        /\ disk'.ts = disk.ts
        /\ mem' \in Copy /\ mem'.next = "COMMITTED" /\ mem'.state = mem.state
        /\ mem'.created = mem.created /\ mem'.reading = mem.reading
    BY <2>4 DEF IInv, TypeOK, Entry, Copy, TxnStatePB
  <2>6. Forward /\ ~Aborting /\ Committing'
    BY <1>1, <1>3, <2>5 DEF Forward, Committing, Aborting
  <2>7. /\ tasks' \in [Epochs -> CommitTasks \cup {NoTasks}]
        /\ sent' = sent /\ TasksInv' /\ SentInv' /\ LeaderInv'
    BY <1>1, <2>6, RunKeeps DEF Run, IInv, TypeOK
  <2>8. TypeOK' /\ MemInv'
    BY <1>1, <2>5, <2>7 DEF IInv, TypeOK, MemInv
  <2>9. PartInv' /\ EndIsComplete'
    BY <1>1, <2>3, <2>5, <2>6, <2>7
       DEF IInv, PartInv, EndIsComplete, Promised, BeginCommitOf
  <2>10. CommitInv'
    <3>1. CASE mem.state = "FINALIZE_IN_PROGRESS"
      BY <1>1, <2>5, <2>7, <3>1 DEF IInv, CommitInv, Committing, Promised, BeginCommitOf
    <3>2. CASE mem.state = "COMMIT_IN_PROGRESS"
      <4>1. u.op = "BEGIN_COMMIT" /\ u.parts = {} /\ owed = {}
        BY <1>1, <2>1, <2>2, <3>2
           DEF TaskOK, CommitTasks, ParticipantOps, Committing, Aborting
      <4>2. \A p \in Tablets : part[p].state # "kCommitInProgress"
        BY <1>1, <2>1, <3>2, <4>1, KnownToTasks
      <4>3. \A p \in Tablets : BeginCommitOf(p) \in sent => p \notin disk.parts
        BY <1>1, <2>1, <3>2, <4>1 DEF Answers
      <4> QED BY <1>1, <2>5, <2>7, <3>2, <4>1, <4>2, <4>3 DEF CommitInv, BeginCommitOf
    <3> QED BY <1>3, <3>1, <3>2
  <2> QED BY <2>7, <2>8, <2>9, <2>10 DEF IInv
<1> QED BY <1>2, <1>3

\* The write of FINALIZE_IN_PROGRESS decides the commit.
LEMMA FinalizeCommitWriteStep ==
    ASSUME IInv, FinalizeCommitWrite PROVE IInv'
<1>1. /\ tasks[epoch] # NoTasks /\ tasks[epoch].sched = "FinalizeCommit"
      /\ UNCHANGED <<epoch, part, gone, owed>>
  BY DEF FinalizeCommitWrite, NoTasks, participants
<1>2. PICK u \in CommitTasks : u = tasks[epoch] /\ TaskOK(u) /\ Answers(u)
  BY <1>1, LeaderTasks
<1>3. u.op = "BEGIN_COMMIT" /\ u.left = {} /\ u.stop = FALSE /\ owed \subseteq u.parts
  BY <1>1, <1>2 DEF TaskOK, Answers, CommitTasks, ParticipantOps
<1>4. CASE u.abort # "UNKNOWN"
  <2>1. PICK t \in CommitTasks : t = ScheduleAbort(u)
    BY TaskTypes
  <2>2. Run(t) /\ UNCHANGED <<disk, mem>>
    BY <1>2, <1>4, <2>1 DEF FinalizeCommitWrite
  <2>3. sent \subseteq sent' /\ (Sends(t) \subseteq sent)' /\ Forward
    BY <2>2, NoTasksIsNone DEF Run, Sends, Forward, Committing, Aborting
  <2>4. TaskOK(u)'
    BY <1>2, <2>3, ForwardKeepsTasks
  <2>5. \A p : BeginCommitOf(p) \in sent' => BeginCommitOf(p) \in sent
    <3>1. \A p : BeginCommitOf(p) \notin Sends(t)
      <4>1. CASE u.abort = "ABORTED"
        BY <1>3, <2>1, <4>1, AbortTxnAsyncIs DEF ScheduleAbort, Sends, BeginCommitOf
      <4>2. CASE u.abort # "ABORTED"
        BY <1>3, <2>1, <4>2 DEF ScheduleAbort, Sends, CommitTasks
      <4> QED BY <4>1, <4>2
    <3> QED BY <2>2, <3>1, NoTasksIsNone DEF Run, BeginCommitOf
  <2>6. Answers(u)'
    BY <1>1, <1>2, <1>3, <2>2, <2>5 DEF Answers, BeginCommitOf
  <2>7. TaskOK(t)' /\ Answers(t)' /\ (t.op = "BEGIN_COMMIT" => t.left = {})
    BY <1>3, <1>4, <2>1, <2>3, <2>4, <2>6, ScheduleAbortIsOK
  <2> QED BY <1>1, <2>2, <2>7, RunOnlyKeeps
<1>5. CASE u.abort = "UNKNOWN" /\ mem.state # "COMMIT_IN_PROGRESS"
  BY <1>1, <1>2, <1>5, RunOnlyKeeps DEF FinalizeCommitWrite
<1>6. CASE u.abort = "UNKNOWN" /\ mem.state = "COMMIT_IN_PROGRESS"
  <2>1. PICK t \in CommitTasks : t = FinalizeCommitAsync(u)
    BY TaskTypes
  <2>2. /\ Run(t) /\ mem.next = "none" /\ disk.state = "COMMIT_IN_PROGRESS"
        /\ disk' = [disk EXCEPT !.state = "FINALIZE_IN_PROGRESS", !.ts = u.ts]
        /\ mem' = [mem EXCEPT !.next = "FINALIZE_IN_PROGRESS"]
    BY <1>2, <1>6, <2>1, LockFreeIsDisk DEF FinalizeCommitWrite, Persist, WriteLockFree
  <2>3. /\ t # NoTasks /\ t.op = "FINALIZE_COMMIT" /\ t.parts = u.parts /\ t.left = u.parts
        /\ t.sched = "none" /\ t.abort = "UNKNOWN" /\ t.stop = FALSE /\ t.ts = u.ts
    BY <1>3, <1>6, <2>1, NoTasksIsNone DEF FinalizeCommitAsync, CommitTasks
  <2>4. /\ disk' \in Entry /\ disk'.state = "FINALIZE_IN_PROGRESS"
        /\ disk'.parts = disk.parts /\ disk'.ts = u.ts
        /\ mem' \in Copy /\ mem'.next = "FINALIZE_IN_PROGRESS" /\ mem'.state = mem.state
        /\ mem'.created = mem.created /\ mem'.reading = mem.reading
    BY <2>2 DEF IInv, TypeOK, Entry, Copy, TxnStatePB, CommitTasks
  <2>5. Forward /\ ~Aborting /\ ~Committing /\ Committing'
    BY <2>2, <2>4 DEF Forward, Committing, Aborting
  <2>6. TaskOK(t)' /\ Answers(t)'
    BY <1>1, <1>3, <2>2, <2>3, <2>4, <2>5 DEF TaskOK, Answers, Run, Sends
  <2>7. /\ tasks' \in [Epochs -> CommitTasks \cup {NoTasks}]
        /\ sent' \subseteq Operation /\ sent \subseteq sent'
        /\ TasksInv' /\ SentInv' /\ LeaderInv'
        /\ \A p : BeginCommitOf(p) \in sent' => BeginCommitOf(p) \in sent
    BY <1>1, <2>2, <2>3, <2>5, <2>6, RunKeeps DEF Run, IInv, TypeOK
  <2>8. TypeOK' /\ MemInv'
    BY <1>1, <2>2, <2>4, <2>7 DEF IInv, TypeOK, MemInv
  <2>9. PartInv' /\ EndIsComplete'
    BY <1>1, <2>4, <2>5, <2>7 DEF IInv, PartInv, EndIsComplete, Promised, BeginCommitOf
  <2>10. CommitInv'
    <3>1. \A p \in u.parts : part[p].state = "kCommitInProgress" /\ part[p].begin <= u.ts
      BY <1>2, <1>3, <1>6, <2>2 DEF Answers
    <3>2. \A p \in Tablets : part[p].state = "kCommitInProgress" => p \in u.parts
      BY <1>1, <1>2, <1>3, <2>2, KnownToTasks
    <3>3. \A p \in Tablets : BeginCommitOf(p) \in sent => p \in u.parts \/ p \notin disk.parts
      BY <1>2, <1>3, <2>2 DEF Answers
    <3> QED BY <1>1, <1>3, <1>6, <2>4, <2>7, <3>1, <3>2, <3>3
            DEF CommitInv, Promised, BeginCommitOf
  <2> QED BY <2>7, <2>8, <2>9, <2>10 DEF IInv
<1> QED BY <1>4, <1>5, <1>6

\* What PrepareLeadershipTask loads.
LEMMA NewLeaderStep ==
    ASSUME IInv, NewLeader PROVE IInv'
<1>1. /\ epoch' = epoch + 1 /\ epoch' \in Epochs
      /\ mem' = [state |-> disk.state, next |-> "none", created |-> disk.parts,
                 open |-> disk.parts, reading |-> {}, botched |-> FALSE]
      /\ UNCHANGED <<disk, part, gone, owed>>
  BY TransactionAssumption DEF NewLeader, participants, IInv, TypeOK, Epochs
<1>2. /\ disk.parts \in SUBSET Tablets /\ disk.ts \in Timestamps \cup {0} /\ mem' \in Copy
  BY <1>1 DEF IInv, TypeOK, Entry, Copy
<1>3. Forward /\ owed \subseteq disk.parts
  BY <1>1 DEF Forward, Committing, Aborting, IInv, MemInv
<1>4. PICK t \in CommitTasks \cup {NoTasks} :
         /\ tasks' = [tasks EXCEPT ![epoch + 1] = t]
         /\ sent' = IF t = NoTasks THEN sent ELSE sent \cup Sends(t)
         /\ t = LoadedTasks(disk)
         /\ t # NoTasks => t.parts = disk.parts
         /\ disk.state = "COMMIT_IN_PROGRESS" =>
               /\ t \in CommitTasks /\ t.op = "BEGIN_COMMIT"
               /\ t.left = disk.parts /\ t.abort = "UNKNOWN" /\ t.stop = FALSE
               /\ t.sched = IF disk.parts = {} THEN "CompleteCommit" ELSE "none"
         /\ disk.state = "FINALIZE_IN_PROGRESS" =>
               /\ t \in CommitTasks /\ t.op = "FINALIZE_COMMIT" /\ t.left = disk.parts
               /\ t.abort = "UNKNOWN" /\ t.stop = FALSE /\ t.sched = "none" /\ t.ts = disk.ts
         /\ disk.state = "ABORT_IN_PROGRESS" => t \in CommitTasks /\ AbortsAll(t)
         /\ disk.state \in {"OPEN", "COMMITTED", "ABORTED"} => t = NoTasks
  <2> DEFINE t == LoadedTasks(disk)
  <2>1. CASE disk.state = "COMMIT_IN_PROGRESS"
    <3>1. t = BeginCommitAsync(NewTasks(disk.parts))
      BY <2>1 DEF LoadedTasks
    <3> HIDE DEF t
    <3>2. /\ t \in CommitTasks /\ t.op = "BEGIN_COMMIT" /\ t.parts = disk.parts
          /\ t.left = disk.parts /\ t.abort = "UNKNOWN" /\ t.stop = FALSE
          /\ t.sched = IF disk.parts = {} THEN "CompleteCommit" ELSE "none"
      BY <1>2, <3>1, BeginCommitAsyncIs
    <3> QED BY <2>1, <3>2 DEF NewLeader, t
  <2>2. CASE disk.state = "FINALIZE_IN_PROGRESS"
    <3> DEFINE n == [NewTasks(disk.parts) EXCEPT !.ts = disk.ts]
    <3>1. t = FinalizeCommitAsync(n)
      BY <2>2 DEF LoadedTasks
    <3>2. /\ n \in CommitTasks /\ n.parts = disk.parts /\ n.abort = "UNKNOWN"
          /\ n.stop = FALSE /\ n.ts = disk.ts
      BY <1>2, NewTasksType DEF NewTasks
    <3> HIDE DEF n, t
    <3>3. /\ t \in CommitTasks /\ t.op = "FINALIZE_COMMIT" /\ t.parts = disk.parts
          /\ t.left = disk.parts /\ t.abort = "UNKNOWN" /\ t.stop = FALSE
          /\ t.sched = "none" /\ t.ts = disk.ts
      BY <3>1, <3>2, TaskTypes DEF FinalizeCommitAsync, CommitTasks
    <3> QED BY <2>2, <3>3 DEF NewLeader, t
  <2>3. CASE disk.state = "ABORT_IN_PROGRESS"
    <3>1. t = AbortTxnAsync(NewTasks(disk.parts))
      BY <2>3 DEF LoadedTasks
    <3>2. t \in CommitTasks /\ AbortsAll(t) /\ t.parts = disk.parts
      BY <1>2, <3>1, AbortsAllNew
    <3> QED BY <2>3, <3>2 DEF NewLeader
  <2>4. CASE disk.state \in {"OPEN", "COMMITTED", "ABORTED"}
    <3>1. t = NoTasks
      BY <2>4 DEF LoadedTasks
    <3> QED BY <2>4, <3>1 DEF NewLeader
  <2>5. disk.state \in TxnStatePB
    BY DEF IInv, TypeOK, Entry
  <2> QED BY <2>1, <2>2, <2>3, <2>4, <2>5 DEF TxnStatePB
<1>5. t # NoTasks => (Sends(t) \subseteq sent)'
  BY <1>4 DEF Sends
<1>6. ASSUME t # NoTasks PROVE TaskOK(t)'
  <2>1. disk.state \in {"COMMIT_IN_PROGRESS", "FINALIZE_IN_PROGRESS", "ABORT_IN_PROGRESS"}
    BY <1>4, <1>6 DEF IInv, TypeOK, Entry, TxnStatePB
  <2>2. CASE disk.state = "ABORT_IN_PROGRESS"
    BY <1>1, <1>4, <1>5, <1>6, <2>2, AbortsAllIsOK DEF Aborting
  <2>3. CASE disk.state \in {"COMMIT_IN_PROGRESS", "FINALIZE_IN_PROGRESS"}
    BY <1>1, <1>4, <1>5, <1>6, <2>3 DEF TaskOK, Committing
  <2> QED BY <2>1, <2>2, <2>3
<1>7. /\ tasks' \in [Epochs -> CommitTasks \cup {NoTasks}]
      /\ sent' \subseteq Operation /\ sent \subseteq sent'
      /\ TasksInv' /\ SentInv' /\ (LeaderInv' <=> (t # NoTasks => Answers(t)'))
      /\ \A p : BeginCommitOf(p) \in sent' =>
            BeginCommitOf(p) \in sent \/ disk.state = "COMMIT_IN_PROGRESS"
  <2>1. /\ tasks' \in [Epochs -> CommitTasks \cup {NoTasks}]
        /\ sent' \subseteq Operation /\ sent \subseteq sent'
        /\ TasksInv' /\ SentInv' /\ (LeaderInv' <=> (t # NoTasks => Answers(t)'))
        /\ \A p : BeginCommitOf(p) \in sent' =>
              BeginCommitOf(p) \in sent
              \/ (t # NoTasks /\ t.op = "BEGIN_COMMIT" /\ p \in t.left)
    BY <1>1, <1>3, <1>4, <1>6, RunKeeps DEF IInv
  <2>2. t # NoTasks /\ t.op = "BEGIN_COMMIT" /\ t.left # {} => disk.state = "COMMIT_IN_PROGRESS"
    BY <1>4 DEF AbortsAll, IInv, TypeOK, Entry, TxnStatePB
  <2> QED BY <2>1, <2>2
<1>8. ASSUME t # NoTasks PROVE Answers(t)'
  <2>1. disk.state \in {"COMMIT_IN_PROGRESS", "FINALIZE_IN_PROGRESS", "ABORT_IN_PROGRESS"}
    BY <1>4, <1>8 DEF IInv, TypeOK, Entry, TxnStatePB
  <2>2. CASE disk.state = "ABORT_IN_PROGRESS"
    BY <1>1, <1>3, <1>4, <1>5, <1>8, <2>2, AbortsAllIsOK DEF Aborting
  <2>3. CASE disk.state \in {"COMMIT_IN_PROGRESS", "FINALIZE_IN_PROGRESS"}
    BY <1>1, <1>3, <1>4, <1>8, <2>3 DEF Answers
  <2> QED BY <2>1, <2>2, <2>3
<1>9. TypeOK' /\ MemInv'
  BY <1>1, <1>2, <1>3, <1>7 DEF IInv, TypeOK, MemInv
<1>10. PartInv' /\ EndIsComplete'
  BY <1>1, <1>7 DEF IInv, PartInv, EndIsComplete, Promised, Committing, Aborting, BeginCommitOf
<1>11. CommitInv'
  BY <1>1, <1>7 DEF IInv, CommitInv, Promised, Committing, BeginCommitOf
<1> QED BY <1>7, <1>8, <1>9, <1>10, <1>11 DEF IInv

-----------------------------------------------------------------------------
(***************************************************************************)
(* An operation of the tasks is executed and its callback runs             *)
(***************************************************************************)

LEMMA LaterIs ==
    ASSUME NEW a \in Timestamps \cup {0}, NEW b \in Timestamps \cup {0}
    PROVE  Later(a, b) \in Timestamps \cup {0} /\ a <= Later(a, b) /\ b <= Later(a, b)
BY TransactionAssumption DEF Later

\* The tasks after an answer, before they look for others, and how they differ
\* from the tasks t before it.
AfterAnswer(t, p, s, ts) == [Heard(t, s, ts) EXCEPT !.left = @ \ {p}]

DiffersByAnswer(h, t, p, s, ts) ==
    /\ h.op = t.op /\ h.parts = t.parts /\ h.left = t.left \ {p} /\ h.sched = t.sched
    /\ h.abort = (IF t.op = "BEGIN_COMMIT" /\ s # "ok" /\ t.abort = "UNKNOWN"
                  THEN "ABORT_IN_PROGRESS" ELSE t.abort)
    /\ h.ts = (IF t.op = "BEGIN_COMMIT" /\ s = "ok" THEN Later(t.ts, ts) ELSE t.ts)
    /\ h.stop = (t.op = "ABORT_TXN" /\ s = "illegal")

LEMMA AfterAnswerIs ==
    ASSUME NEW t \in CommitTasks, t.stop = FALSE, NEW p,
           NEW s \in {"ok", "notfound", "illegal"}, NEW ts \in Timestamps \cup {0}
    PROVE  LET h == AfterAnswer(t, p, s, ts)
           IN  h \in CommitTasks /\ DiffersByAnswer(h, t, p, s, ts)
<1>1. CASE t.op = "BEGIN_COMMIT" /\ s = "ok"
  <2>1. Heard(t, s, ts) = [t EXCEPT !.ts = Later(@, ts)]
    BY <1>1 DEF Heard
  <2>2. Later(t.ts, ts) \in Timestamps \cup {0}
    BY LaterIs DEF CommitTasks
  <2> QED BY <1>1, <2>1, <2>2 DEF AfterAnswer, DiffersByAnswer, CommitTasks
<1>2. CASE t.op = "BEGIN_COMMIT" /\ s # "ok"
  <2>1. Heard(t, s, ts) = IF t.abort = "UNKNOWN" THEN [t EXCEPT !.abort = "ABORT_IN_PROGRESS"]
                                                 ELSE t
    BY <1>2 DEF Heard, SetNeedsBeginAbort
  <2> QED BY <1>2, <2>1 DEF AfterAnswer, DiffersByAnswer, CommitTasks
<1>3. CASE t.op = "FINALIZE_COMMIT"
  <2>1. Heard(t, s, ts) = t
    BY <1>3 DEF Heard
  <2> QED BY <1>3, <2>1 DEF AfterAnswer, DiffersByAnswer, CommitTasks
<1>4. CASE t.op = "ABORT_TXN"
  <2>1. Heard(t, s, ts) = [t EXCEPT !.stop = (s = "illegal")]
    BY <1>4 DEF Heard
  <2> QED BY <1>4, <2>1 DEF AfterAnswer, DiffersByAnswer, CommitTasks
<1> QED BY <1>1, <1>2, <1>3, <1>4 DEF CommitTasks, ParticipantOps

\* What an answer says of the participant afterwards. Nobody refuses to abort
\* when the abort is on disk, and nobody who owes a commit when that is.
LEMMA AnswerIs ==
    ASSUME IInv, NEW m \in sent, NEW x \in Timestamps, PerformOp(m, x)
    PROVE  /\ Answer(m) \in {"ok", "notfound", "illegal"}
           /\ AnsweredTs(part'[m.tablet]) \in Timestamps \cup {0}
           /\ m.op = "BEGIN_COMMIT" /\ Answer(m) = "ok" =>
                 part'[m.tablet].state \in {"kCommitInProgress", "kCommitted"}
           /\ m.op = "FINALIZE_COMMIT" /\ m.tablet \in owed \ gone =>
                 part'[m.tablet].state = "kCommitted"
           /\ m.op = "ABORT_TXN" =>
                 /\ Answer(m) # "illegal"
                 /\ m.tablet \notin gone => part'[m.tablet].state = "kAborted"
<1> DEFINE p == m.tablet
<1>1. m \in Operation /\ p \in Tablets /\ part[p] \in Txn
  BY DEF IInv, TypeOK, Operation
<1>2. part' \in [Tablets -> Txn]
  BY PerformOpIsPartStep DEF PartStep, IInv
<1>3. AnsweredTs(part'[p]) \in Timestamps \cup {0}
  BY <1>1, <1>2 DEF AnsweredTs, Txn
<1>4. Answer(m) \in {"ok", "notfound", "illegal"}
  BY DEF Answer
<1>5. CASE m.op = "BEGIN_COMMIT"
  <2>1. CASE Answer(m) # "ok"
    BY <1>3, <1>4, <1>5, <2>1
  <2>2. CASE Answer(m) = "ok"
    <3>1. p \notin gone /\ (Valid(part[p], m.op) \/ AlreadyApplied(part[p], m.op))
      BY <2>2 DEF Answer
    <3>2. CASE Valid(part[p], m.op)
      <4>1. part'[p] = [part[p] EXCEPT !.state = "kCommitInProgress", !.begin = x]
        BY <1>1, <1>5, <3>1, <3>2 DEF PerformOp, Performed, IInv, TypeOK
      <4>2. part'[p].state = "kCommitInProgress"
        BY <1>1, <4>1 DEF Txn
      <4> QED BY <1>3, <1>4, <1>5, <4>2
    <3>3. CASE ~Valid(part[p], m.op)
      <4>1. part'[p] = part[p] /\ part[p].state \in {"kCommitInProgress", "kCommitted"}
        BY <1>5, <3>1, <3>3 DEF PerformOp, AlreadyApplied
      <4> QED BY <1>3, <1>4, <1>5, <4>1
    <3> QED BY <3>2, <3>3
  <2> QED BY <2>1, <2>2
<1>6. CASE m.op = "FINALIZE_COMMIT"
  <2>1. CASE p \notin owed \ gone
    BY <1>3, <1>4, <1>6, <2>1
  <2>2. CASE p \in owed \ gone
    <3>1. Promised(p)
      BY <1>1, <1>6, <2>2 DEF IInv, SentInv, CommitInv
    <3>2. CASE part[p].state = "kCommitInProgress"
      <4>1. part'[p] = [part[p] EXCEPT !.state = "kCommitted", !.ts = m.ts]
        BY <1>1, <1>6, <2>2, <3>2 DEF PerformOp, Performed, Valid, IInv, TypeOK
      <4>2. part'[p].state = "kCommitted"
        BY <1>1, <4>1 DEF Txn
      <4> QED BY <1>3, <1>4, <1>6, <4>2
    <3>3. CASE part[p].state = "kCommitted"
      <4>1. part' = part
        BY <1>6, <3>3 DEF PerformOp, Valid
      <4> QED BY <1>3, <1>4, <1>6, <3>3, <4>1
    <3> QED BY <3>1, <3>2, <3>3 DEF Promised
  <2> QED BY <2>1, <2>2
<1>7. CASE m.op = "ABORT_TXN"
  <2>1. part[p].state # "kCommitted"
    BY <1>1, <1>7 DEF IInv, SentInv, PartInv, Committing, Aborting
  <2>2. Valid(part[p], m.op) \/ (part[p].state = "kAborted" /\ AlreadyApplied(part[p], m.op))
    BY <1>1, <1>7, <2>1 DEF Valid, AlreadyApplied, Txn
  <2>3. Answer(m) # "illegal"
    BY <2>2 DEF Answer
  <2>4. ASSUME p \notin gone PROVE part'[p].state = "kAborted"
    <3>1. CASE Valid(part[p], m.op)
      <4>1. part'[p] = [part[p] EXCEPT !.state = "kAborted"]
        BY <1>1, <1>7, <2>4, <3>1 DEF PerformOp, Performed, IInv, TypeOK
      <4> QED BY <1>1, <4>1 DEF Txn
    <3>2. CASE ~Valid(part[p], m.op)
      BY <2>2, <3>2 DEF PerformOp
    <3> QED BY <3>1, <3>2
  <2> QED BY <1>3, <1>4, <1>7, <2>3, <2>4
<1> QED BY <1>1, <1>5, <1>6, <1>7 DEF Operation, ParticipantOps

\* The callback of the last answer never stops the tasks here: they schedule
\* the function that the operation leads to, or give up.
LEMMA LastAnsweredIs ==
    ASSUME NEW h \in CommitTasks, h.stop = FALSE
    PROVE  LET t == LastAnswered(h)
           IN  /\ t \in CommitTasks
               /\ \/ h.op = "BEGIN_COMMIT" /\ h.abort # "UNKNOWN" /\ t = ScheduleAbort(h)
                  \/ \E s \in {"FinalizeCommit", "CompleteCommit", "FinalizeAbort"} :
                        /\ t = [h EXCEPT !.sched = s]
                        /\ s = "FinalizeCommit" <=> h.op = "BEGIN_COMMIT"
                        /\ s = "CompleteCommit" <=> h.op = "FINALIZE_COMMIT"
                        /\ s = "FinalizeAbort" <=> h.op = "ABORT_TXN"
<1>1. \A s \in {"FinalizeCommit", "CompleteCommit", "FinalizeAbort"} :
         [h EXCEPT !.sched = s] \in CommitTasks
  BY DEF CommitTasks
<1>2. CASE h.op = "BEGIN_COMMIT" /\ h.abort # "UNKNOWN"
  BY <1>2, TaskTypes DEF LastAnswered, BeganCommit
<1>3. CASE h.op = "BEGIN_COMMIT" /\ h.abort = "UNKNOWN"
  <2>1. LastAnswered(h) = [h EXCEPT !.sched = "FinalizeCommit"]
    BY <1>3 DEF LastAnswered, BeganCommit
  <2> QED BY <1>1, <1>3, <2>1
<1>4. CASE h.op = "FINALIZE_COMMIT"
  <2>1. LastAnswered(h) = [h EXCEPT !.sched = "CompleteCommit"]
    BY <1>4 DEF LastAnswered
  <2> QED BY <1>1, <1>4, <2>1
<1>5. CASE h.op = "ABORT_TXN"
  <2>1. LastAnswered(h) = [h EXCEPT !.sched = "FinalizeAbort"]
    BY <1>5 DEF LastAnswered
  <2> QED BY <1>1, <1>5, <2>1
<1> QED BY <1>2, <1>3, <1>4, <1>5 DEF CommitTasks, ParticipantOps

\* Participate executes an operation that was sent.
LEMMA ParticipateExecutes ==
    ASSUME IInv, NEW e \in Epochs, NEW p \in Tablets, Participate(e, p)
    PROVE  \E m \in sent, x \in Timestamps :
              /\ m.tablet = p /\ m.op = tasks[e].op /\ PerformOp(m, x)
              /\ tasks' = [tasks EXCEPT ![e] =
                              Participated(@, p, Answer(m), AnsweredTs(part'[p]))]
<1> DEFINE u == tasks[e]
           m == CHOOSE o \in Sends(u) : o.tablet = p
<1>1. p \in u.left /\ TaskOK(u)
  BY DEF Participate, IInv, TasksInv
<1>2. \E o \in Sends(u) : o.tablet = p
  <2> DEFINE o == [op |-> u.op, tablet |-> p,
                   ts |-> IF u.op = "FINALIZE_COMMIT" THEN u.ts ELSE 0]
  <2>1. o \in Sends(u) /\ o.tablet = p
    BY <1>1 DEF Sends
  <2> QED BY <2>1
<1>3. m \in Sends(u) /\ m.tablet = p
  BY <1>2
<1>4. \A o \in Sends(u) : o \in sent /\ o.op = u.op
  <2>1. \A o \in Sends(u) : o.op = u.op
    BY DEF Sends
  <2> QED BY <1>1, <2>1 DEF TaskOK
<1>5. PICK x \in Timestamps :
         /\ PerformOp(m, x)
         /\ tasks' = [tasks EXCEPT ![e] = Participated(@, p, Answer(m), AnsweredTs(part'[p]))]
  BY DEF Participate
<1> HIDE DEF m
<1> QED BY <1>3, <1>4, <1>5

LEMMA ParticipateStep ==
    ASSUME IInv, NEW e \in Epochs, NEW p \in Tablets, Participate(e, p)
    PROVE  IInv'
<1>1. UNCHANGED <<epoch, disk, mem, gone, owed>>
  BY DEF Participate
<1>2. PICK u \in CommitTasks :
         u = tasks[e] /\ p \in u.left /\ TaskOK(u) /\ (e = epoch => Answers(u))
  BY DEF Participate, IInv, TypeOK, TasksInv, LeaderInv
<1>3. PICK m \in sent, x \in Timestamps :
         /\ m.tablet = p /\ m.op = u.op /\ PerformOp(m, x)
         /\ tasks' = [tasks EXCEPT ![e] = Participated(@, p, Answer(m), AnsweredTs(part'[p]))]
  BY <1>2, ParticipateExecutes
<1>4. PartStep
  BY <1>3, PerformOpIsPartStep DEF IInv
<1>5. PICK s \in {"ok", "notfound", "illegal"}, ts \in Timestamps \cup {0} :
         s = Answer(m) /\ ts = AnsweredTs(part'[p])
  BY <1>3, AnswerIs
<1>6. PICK h \in CommitTasks :
         h = AfterAnswer(u, p, s, ts) /\ DiffersByAnswer(h, u, p, s, ts)
  <2>1. u.stop = FALSE
    BY <1>2 DEF TaskOK
  <2> QED BY <2>1, AfterAnswerIs
<1>7. h.stop = FALSE /\ h.sched = "none" /\ Sends(h) \subseteq sent
  <2>1. h.stop = FALSE
    BY <1>3, <1>5, <1>6, AnswerIs DEF DiffersByAnswer
  <2>2. h.sched = "none"
    BY <1>2, <1>6 DEF TaskOK, DiffersByAnswer
  <2>3. h.op = u.op /\ h.left \subseteq u.left /\ (u.op = "FINALIZE_COMMIT" => h.ts = u.ts)
    BY <1>6 DEF DiffersByAnswer
  <2>4. Sends(h) \subseteq Sends(u)
    BY <2>3 DEF Sends
  <2> QED BY <1>2, <2>1, <2>2, <2>4 DEF TaskOK
<1>8. PICK t \in CommitTasks :
         /\ t = (IF h.left = {} THEN LastAnswered(h) ELSE h)
         /\ tasks' = [tasks EXCEPT ![e] = t] /\ sent' = sent \cup Sends(t)
  <2>1. PICK t \in CommitTasks : t = (IF h.left = {} THEN LastAnswered(h) ELSE h)
    BY <1>7, LastAnsweredIs
  <2>2. Participated(u, p, s, ts) = t
    BY <1>6, <2>1 DEF Participated, AfterAnswer
  <2>3. tasks' = [tasks EXCEPT ![e] = t]
    BY <1>2, <1>3, <1>5, <2>2
  <2>4. tasks'[e] = t /\ t # NoTasks
    BY <2>3, NoTasksIsNone DEF IInv, TypeOK
  <2> QED BY <2>1, <2>3, <2>4 DEF Participate
<1>9. TaskOK(h)'
  BY <1>1, <1>2, <1>3, <1>5, <1>6, <1>7, <1>8 DEF TaskOK, Sends, Committing, Aborting, DiffersByAnswer
<1>10. sent \subseteq sent' /\ (Sends(t) \subseteq sent)'
  BY <1>8 DEF Sends
<1>11. TaskOK(t)' /\ (Answers(h)' => Answers(t)')
       /\ \A o \in Sends(t) \ sent : o.op = "ABORT_TXN" /\ Aborting'
  <2>1. CASE h.left # {}
    <3>1. t = h
      BY <1>8, <2>1
    <3> QED BY <1>7, <1>9, <3>1
  <2>2. CASE h.left = {} /\ t = ScheduleAbort(h) /\ h.op = "BEGIN_COMMIT" /\ h.abort # "UNKNOWN"
    BY <1>9, <1>10, <2>2, ScheduleAbortIsOK
  <2>3. ASSUME h.left = {}, NEW v \in {"FinalizeCommit", "CompleteCommit", "FinalizeAbort"},
               t = [h EXCEPT !.sched = v],
               v = "FinalizeCommit" <=> h.op = "BEGIN_COMMIT",
               v = "CompleteCommit" <=> h.op = "FINALIZE_COMMIT",
               v = "FinalizeAbort" <=> h.op = "ABORT_TXN"
        PROVE  TaskOK(t)' /\ (Answers(h)' => Answers(t)') /\ Sends(t) = {}
    <3>1. /\ t.op = h.op /\ t.parts = h.parts /\ t.left = {} /\ t.stop = h.stop
          /\ t.abort = h.abort /\ t.sched = v /\ t.ts = h.ts
      BY <2>3 DEF CommitTasks
    <3>2. TaskOK(t)'
      BY <1>9, <1>10, <2>3, <3>1 DEF TaskOK
    <3>3. Answers(h)' => Answers(t)'
      BY <2>3, <3>1 DEF Answers
    <3> QED BY <3>1, <3>2, <3>3 DEF Sends
  <2> QED BY <1>7, <1>8, <2>1, <2>2, <2>3, LastAnsweredIs
<1>12. /\ part' \in [Tablets -> Txn]
       /\ MemInv' /\ SentInv' /\ PartInv' /\ CommitInv' /\ EndIsComplete'
       /\ \A v \in CommitTasks : Answers(v) => Answers(v)'
  <2>1. \A o \in sent' \ sent : o.op = "ABORT_TXN" /\ Aborting
    BY <1>1, <1>8, <1>11 DEF Aborting
  <2> QED BY <1>1, <1>4, <1>10, <2>1, PartStepKeeps DEF IInv, TypeOK
<1>13. /\ tasks' \in [Epochs -> CommitTasks \cup {NoTasks}]
       /\ sent' \subseteq Operation /\ TasksInv'
       /\ epoch' = e => (LeaderInv' <=> (t # NoTasks => Answers(t)'))
  <2>1. Forward /\ t # NoTasks
    BY <1>1, NoTasksIsNone DEF Forward, Committing, Aborting
  <2> QED BY <1>8, <1>11, <2>1, RunKeeps DEF IInv
<1>14. TypeOK'
  BY <1>1, <1>12, <1>13 DEF IInv, TypeOK
<1>15. LeaderInv'
  <2>1. CASE e # epoch
    <3>1. tasks'[epoch] = tasks[epoch]
      BY <1>8, <2>1 DEF IInv, TypeOK
    <3>2. tasks[epoch] # NoTasks => tasks[epoch] \in CommitTasks /\ Answers(tasks[epoch])
      BY LeaderTasks
    <3> QED BY <1>1, <1>12, <3>1, <3>2 DEF LeaderInv, Answers
  <2>2. CASE e = epoch
    <3>1. Answers(u)'
      BY <1>2, <1>12, <2>2
    <3>2. Answers(h)'
      <4>1. owed' \subseteq h.parts
        BY <1>6, <3>1 DEF Answers, DiffersByAnswer
      <4>2. CASE u.op = "BEGIN_COMMIT"
        <5> SUFFICES ASSUME disk'.state = "COMMIT_IN_PROGRESS", h.abort = "UNKNOWN",
                            NEW q \in h.parts \ h.left
                     PROVE  part'[q].state = "kCommitInProgress" /\ part'[q].begin <= h.ts
          BY <1>6, <3>1, <4>1, <4>2 DEF Answers, DiffersByAnswer
        <5>1. s = "ok" /\ u.abort = "UNKNOWN" /\ h.ts = Later(u.ts, ts)
          BY <1>6, <4>2 DEF DiffersByAnswer
        <5>2. ts <= h.ts /\ u.ts <= h.ts /\ u.ts \in Nat /\ ts \in Nat /\ h.ts \in Nat
          <6>1. u.ts \in Timestamps \cup {0} /\ h.ts \in Timestamps \cup {0}
            BY DEF CommitTasks
          <6>2. ts <= h.ts /\ u.ts <= h.ts
            BY <1>5, <5>1, <6>1, LaterIs
          <6> QED BY <1>5, <6>1, <6>2, TimestampsAreNat
        <5>3. CASE q = p
          <6>1. part'[p].state \in {"kCommitInProgress", "kCommitted"}
            BY <1>3, <1>5, <4>2, <5>1, AnswerIs
          <6>2. part'[p].state # "kCommitted"
            BY <1>12 DEF PartInv, Committing
          <6>3. ts = part'[p].begin
            BY <1>5, <6>2 DEF AnsweredTs
          <6> QED BY <5>2, <5>3, <6>1, <6>2, <6>3
        <5>4. CASE q # p
          <6>1. q \in u.parts \ u.left /\ q \in Tablets
            BY <1>6, <5>4 DEF CommitTasks, DiffersByAnswer
          <6>2. part'[q].state = "kCommitInProgress" /\ part'[q].begin <= u.ts
            BY <3>1, <4>2, <5>1, <6>1 DEF Answers
          <6>3. part'[q].begin \in Nat
            <7>1. part'[q] \in Txn
              BY <1>12, <6>1
            <7>2. part'[q].begin \in Timestamps \cup {0}
              BY <7>1 DEF Txn
            <7> QED BY <7>2, TimestampsAreNat
          <6> QED BY <5>2, <6>2, <6>3
        <5> QED BY <5>3, <5>4
      <4>3. CASE u.op = "FINALIZE_COMMIT"
        BY <1>1, <1>3, <1>6, <3>1, <4>1, <4>3, AnswerIs DEF Answers, DiffersByAnswer
      <4>4. CASE u.op = "ABORT_TXN"
        BY <1>1, <1>3, <1>6, <3>1, <4>1, <4>4, AnswerIs DEF Answers, DiffersByAnswer
      <4> QED BY <4>2, <4>3, <4>4 DEF CommitTasks, ParticipantOps
    <3> QED BY <1>1, <1>11, <1>13, <2>2, <3>2
  <2> QED BY <2>1, <2>2
<1> QED BY <1>12, <1>13, <1>14, <1>15 DEF IInv

-----------------------------------------------------------------------------
(***************************************************************************)
(* The invariant, and what follows from it                                 *)
(***************************************************************************)

LEMMA InitHolds ==
    ASSUME Init PROVE IInv
<1>1. TypeOK
  BY EpochType, TransactionAssumption
     DEF Init, TypeOK, Entry, Copy, Txn, TxnStatePB
<1>2. MemInv /\ SentInv /\ TasksInv /\ LeaderInv
  BY EpochType DEF Init, MemInv, SentInv, TasksInv, LeaderInv
<1>3. PartInv /\ CommitInv /\ EndIsComplete
  BY DEF Init, PartInv, CommitInv, EndIsComplete, Promised, Committing
<1> QED BY <1>1, <1>2, <1>3 DEF IInv

LEMMA NextKeeps ==
    ASSUME IInv, [Next]_vars PROVE IInv'
<1>1. CASE UNCHANGED vars
  BY <1>1, BotchedOnlyKeeps DEF vars, coordinator, participants
<1>2. CASE Next
  BY <1>2, RegistrationSteps, ParticipantSteps, ParticipateStep, CommitMutationStep,
     BeginCommitStep, AbortSteps, FinalizeCommitWriteStep, CompleteCommitWriteStep,
     BeginAbortWriteStep, FinalizeAbortWriteStep, NotTheLeaderStep, NewLeaderStep
     DEF Next, PoolWrite
<1> QED BY <1>1, <1>2

\* What the entry on disk, the messages, the tasks of every leader so far and the
\* participants presuppose of each other holds for any number of leaders.
THEOREM TransactionInvariant == Spec => []IInv
<1>1. Init => IInv
  BY InitHolds
<1>2. IInv /\ [Next]_vars => IInv'
  BY NextKeeps
<1> QED BY <1>1, <1>2, PTL DEF Spec

\* The coordinator's entry, its copy, its tasks and the participants keep their
\* types (txn_status_manager.h, txn_participant.h).
THEOREM TransactionTypes == Spec => []TypeOK
<1>1. IInv => TypeOK
  BY DEF IInv
<1> QED BY <1>1, TransactionInvariant, PTL

\* When the entry says that the transaction has ended, every tablet that was
\* registered before the end was asked for, and exists, has ended it in that way:
\* an ignored error of FINALIZE_COMMIT never leaves one behind
\* (txn_status_manager.cc, FinalizeCommitAsyncTask, AbortTxnAsyncTask).
THEOREM EndIsAlwaysComplete == Spec => []EndIsComplete
<1>1. IInv => EndIsComplete
  BY DEF IInv
<1> QED BY <1>1, TransactionInvariant, PTL

-----------------------------------------------------------------------------
(***************************************************************************)
(* Transaction implements AtomicCommit                                     *)
(***************************************************************************)

Fates == [p \in Tablets |-> Fate(part[p])]

AtomicStep == [Atomic!Next]_<<Outcome, Fates, owed>>

\* The outcome is a function of the state and timestamp of the entry.
LEMMA OutcomeIs ==
    ASSUME TypeOK
    PROVE  /\ ~Committing /\ ~Aborting => Outcome = [kind |-> "undecided", ts |-> 0]
           /\ Committing => Outcome = [kind |-> "commit", ts |-> disk.ts]
           /\ Aborting => Outcome = [kind |-> "abort", ts |-> 0]
<1>1. disk.state \in TxnStatePB
  BY DEF TypeOK, Entry
<1> QED BY <1>1 DEF Outcome, Committing, Aborting, TxnStatePB

\* Nothing that AtomicCommit sees changes.
LEMMA Stutters ==
    ASSUME UNCHANGED <<part, owed>>, disk'.state = disk.state, disk'.ts = disk.ts
    PROVE  AtomicStep
<1>1. Outcome' = Outcome /\ Fates' = Fates
  BY DEF Outcome, Fates
<1> QED BY <1>1 DEF AtomicStep

\* A participant promises, commits or aborts, or starts.
LEMMA PartStepIsAtomic ==
    ASSUME IInv, PartStep, UNCHANGED <<disk, owed>>
    PROVE  AtomicStep
<1>1. PICK q \in Tablets :
         PartStepOf(q) /\ \A p \in Tablets \ {q} : part'[p] = part[p]
  BY DEF PartStep
<1>2. Outcome' = Outcome /\ part' \in [Tablets -> Txn] /\ part \in [Tablets -> Txn]
  BY DEF Outcome, PartStep, IInv, TypeOK
<1>3. Fates' = [Fates EXCEPT ![q] = Fate(part'[q])] /\ Fates[q] = Fate(part[q])
  BY <1>1 DEF Fates
<1>4. CASE part'[q] = part[q]
  <2>1. Fates' = Fates
    BY <1>1, <1>4 DEF Fates
  <2> QED BY <1>2, <2>1 DEF AtomicStep
<1>5. CASE /\ part[q].state = "kInitializing" /\ q \in disk.parts
           /\ part'[q].state = "kOpen"
  <2>1. Fate(part[q]) = Fate(part'[q])
    BY <1>5 DEF Fate
  <2>2. Fates' = Fates
    BY <1>1, <2>1 DEF Fates
  <2> QED BY <1>2, <2>2 DEF AtomicStep
<1>6. CASE /\ part[q].state = "kOpen" /\ BeginCommitOf(q) \in sent
           /\ part'[q].state = "kCommitInProgress" /\ part'[q].begin \in Timestamps
  <2>1. /\ Fate(part[q]) = [kind |-> "working", ts |-> 0]
        /\ Fate(part'[q]) = [kind |-> "promised", ts |-> part'[q].begin]
    BY <1>6 DEF Fate
  <2>2. Atomic!Promise(q)
    BY <1>2, <1>3, <1>6, <2>1 DEF Atomic!Promise, Atomic!Working, Fates
  <2> QED BY <2>2 DEF AtomicStep, Atomic!Next
<1>7. CASE /\ part[q].state = "kCommitInProgress" /\ Committing
           /\ part'[q].state = "kCommitted" /\ part'[q].ts = disk.ts
  <2>1. /\ Fate(part[q]) = [kind |-> "promised", ts |-> part[q].begin]
        /\ Fate(part'[q]) = [kind |-> "committed", ts |-> disk.ts]
    BY <1>7 DEF Fate
  <2>2. Outcome = [kind |-> "commit", ts |-> disk.ts] /\ part[q].begin <= disk.ts
    BY <1>7, OutcomeIs DEF IInv, CommitInv
  <2>3. Atomic!Commit(q)
    BY <1>2, <1>3, <2>1, <2>2 DEF Atomic!Commit, Fates
  <2> QED BY <2>3 DEF AtomicStep, Atomic!Next
<1>8. CASE /\ part[q].state \in {"kInitializing", "kOpen", "kCommitInProgress"} /\ Aborting
           /\ part'[q].state = "kAborted"
  <2>1. /\ Fate(part[q]).kind \in {"working", "promised"}
        /\ Fate(part'[q]) = [kind |-> "aborted", ts |-> 0]
    BY <1>8 DEF Fate
  <2>2. Outcome = [kind |-> "abort", ts |-> 0]
    BY <1>8, OutcomeIs DEF IInv
  <2>3. Atomic!Abort(q)
    BY <1>2, <1>3, <2>1, <2>2 DEF Atomic!Abort, Fates
  <2> QED BY <2>3 DEF AtomicStep, Atomic!Next
<1> QED BY <1>1, <1>4, <1>5, <1>6, <1>7, <1>8 DEF PartStepOf

\* BeginCommitTransaction asks; BeginAbortTransaction decides to abort.
LEMMA AskOrAbortIsAtomic ==
    ASSUME IInv, WriteLockFree, UNCHANGED <<epoch, participants>>,
           BeginCommitTransaction \/ BeginAbort, IInv'
    PROVE  AtomicStep
<1>1. /\ disk.state \in {"OPEN", "COMMIT_IN_PROGRESS"} /\ part' = part
      /\ owed' = disk.parts \/ owed' = owed
  BY LockFreeIsDisk DEF BeginCommitTransaction, BeginAbort, participants
<1>2. owed' \in SUBSET Tablets /\ Fates' = Fates
  BY <1>1 DEF IInv, TypeOK, Fates
<1>3. Outcome = [kind |-> "undecided", ts |-> 0]
  BY <1>1, OutcomeIs DEF IInv, Committing, Aborting
<1>4. CASE BeginCommitTransaction
  <2>1. disk'.state = "COMMIT_IN_PROGRESS"
    BY <1>4 DEF BeginCommitTransaction, Persist, IInv, TypeOK, Entry
  <2>2. Outcome' = Outcome
    BY <1>3, <2>1 DEF Outcome
  <2>3. Atomic!Ask
    BY <1>2, <1>3, <2>2 DEF Atomic!Ask, Atomic!Undecided, Fates
  <2> QED BY <2>3 DEF AtomicStep, Atomic!Next
<1>5. CASE BeginAbort
  <2>1. disk'.state = "ABORT_IN_PROGRESS"
    BY <1>5 DEF BeginAbort, IInv, TypeOK, Entry
  <2>2. Outcome' = [kind |-> "abort", ts |-> 0]
    BY <2>1 DEF Outcome
  <2>3. Atomic!DecideAbort
    BY <1>2, <1>3, <2>2 DEF Atomic!DecideAbort, Atomic!Undecided, Fates
  <2> QED BY <2>3 DEF AtomicStep, Atomic!Next
<1> QED BY <1>4, <1>5

\* The commit is decided when the entry starts to commit: whoever owes a promise
\* has given one, at or below the timestamp.
LEMMA CommitIsDecided ==
    ASSUME IInv, IInv', disk.state = "COMMIT_IN_PROGRESS", Committing',
           UNCHANGED <<part, owed>>
    PROVE  AtomicStep
<1>1. Outcome = [kind |-> "undecided", ts |-> 0]
  BY OutcomeIs DEF IInv, Committing, Aborting
<1>2. Outcome' = [kind |-> "commit", ts |-> disk'.ts] /\ disk'.ts \in Timestamps \cup {0}
  <2>1. disk' \in Entry
    BY DEF IInv, TypeOK
  <2> QED BY <2>1 DEF Outcome, Entry, Committing
<1>3. ASSUME NEW p \in owed
      PROVE  Fates[p].kind = "promised" /\ Fates[p].ts <= disk'.ts
  <2>1. p \in Tablets /\ part[p].state \in {"kCommitInProgress", "kCommitted"}
    BY DEF IInv, TypeOK, CommitInv, Promised
  <2>2. part[p].state = "kCommitInProgress"
    BY <2>1 DEF IInv, PartInv, Committing
  <2>3. part[p].begin <= disk'.ts
    BY <2>1, <2>2 DEF IInv, CommitInv
  <2> QED BY <2>1, <2>2, <2>3 DEF Fates, Fate
<1>4. Fates' = Fates
  BY DEF Fates
<1>5. Atomic!DecideCommit
  BY <1>1, <1>2, <1>3, <1>4 DEF Atomic!DecideCommit, Atomic!Undecided, Fates
<1> QED BY <1>5 DEF AtomicStep, Atomic!Next

LEMMA PoolWriteIsAtomic ==
    ASSUME IInv, IInv', PoolWrite
    PROVE  AtomicStep
<1>1. UNCHANGED <<part, owed>>
  BY DEF PoolWrite, FinalizeCommitWrite, CompleteCommitWrite, BeginAbortWrite,
         FinalizeAbortWrite, participants
<1>2. CASE disk' = disk
  BY <1>1, <1>2, Stutters
<1>3. CASE FinalizeCommitWrite /\ disk' # disk
  <2>1. disk.state = "COMMIT_IN_PROGRESS" /\ Persist("FINALIZE_IN_PROGRESS", tasks[epoch].ts)
    BY <1>3, LockFreeIsDisk DEF FinalizeCommitWrite
  <2>2. Committing'
    BY <2>1 DEF Persist, Committing, IInv, TypeOK, Entry
  <2> QED BY <1>1, <2>1, <2>2, CommitIsDecided
<1>4. CASE CompleteCommitWrite /\ disk' # disk
  <2>1. /\ disk.state \in {"COMMIT_IN_PROGRESS", "FINALIZE_IN_PROGRESS"}
        /\ Persist("COMMITTED", disk.ts)
    BY <1>4, LockFreeIsDisk DEF CompleteCommitWrite
  <2>2. disk'.state = "COMMITTED" /\ disk'.ts = disk.ts /\ Committing'
    BY <2>1 DEF Persist, Committing, IInv, TypeOK, Entry
  <2>3. CASE disk.state = "COMMIT_IN_PROGRESS"
    BY <1>1, <2>2, <2>3, CommitIsDecided
  <2>4. CASE disk.state = "FINALIZE_IN_PROGRESS"
    <3>1. Outcome' = Outcome /\ Fates' = Fates
      BY <1>1, <2>2, <2>4 DEF Outcome, Fates
    <3> QED BY <1>1, <3>1 DEF AtomicStep
  <2> QED BY <2>1, <2>3, <2>4
<1>5. CASE FinalizeAbortWrite /\ disk' # disk
  <2>1. disk.state = "ABORT_IN_PROGRESS" /\ Persist("ABORTED", disk.ts)
    BY <1>5, LockFreeIsDisk DEF FinalizeAbortWrite
  <2>2. disk'.state = "ABORTED"
    BY <2>1 DEF Persist, IInv, TypeOK, Entry
  <2>3. Outcome' = Outcome /\ Fates' = Fates
    BY <1>1, <2>1, <2>2 DEF Outcome, Fates
  <2> QED BY <1>1, <2>3 DEF AtomicStep
<1>6. BeginAbortWrite => disk' = disk
  BY DEF BeginAbortWrite
<1> QED BY <1>2, <1>3, <1>4, <1>5, <1>6 DEF PoolWrite

LEMMA NextIsAtomic ==
    ASSUME IInv, IInv', [Next]_vars
    PROVE  AtomicStep
<1>1. CASE UNCHANGED vars
  BY <1>1, Stutters DEF vars, coordinator, participants
<1>2. ASSUME NEW p \in Tablets, RegisterParticipant(p) \/ AddNewParticipant(p) PROVE AtomicStep
  <2>1. UNCHANGED <<part, owed>> /\ disk'.state = disk.state /\ disk'.ts = disk.ts
    BY <1>2 DEF RegisterParticipant, AddNewParticipant, participants, IInv, TypeOK, Entry
  <2> QED BY <2>1, Stutters
<1>3. ASSUME NEW p \in Tablets, BeginTxn(p) PROVE AtomicStep
  <2>1. PartStep /\ UNCHANGED <<disk, owed>>
    BY <1>3 DEF BeginTxn, PartStep, PartStepOf, IInv, TypeOK, Txn, coordinator
  <2> QED BY <2>1, PartStepIsAtomic
<1>4. ASSUME NEW p \in Tablets, DeleteTablet(p) PROVE AtomicStep
  BY <1>4, Stutters DEF DeleteTablet, coordinator
<1>5. ASSUME NEW p \in Tablets, NEW e \in Epochs, Participate(e, p) PROVE AtomicStep
  <2>1. PartStep
    BY <1>5, ParticipateExecutes, PerformOpIsPartStep DEF IInv
  <2> QED BY <1>5, <2>1, PartStepIsAtomic DEF Participate
<1>6. ASSUME NEW m \in sent, ParticipateLate(m) PROVE AtomicStep
  <2>1. PartStep
    BY <1>6, PerformOpIsPartStep DEF ParticipateLate, IInv
  <2> QED BY <1>6, <2>1, PartStepIsAtomic DEF ParticipateLate, coordinator
<1>7. CASE CommitMutation \/ NewLeader \/ \E e \in Epochs : NotTheLeader(e)
  BY <1>7, Stutters DEF CommitMutation, NewLeader, NotTheLeader, participants
<1>8. CASE BeginCommitTransaction
  BY <1>8, AskOrAbortIsAtomic DEF BeginCommitTransaction
<1>9. CASE AbortTransaction \/ AbortBotchedCommit
  <2>1. CASE BeginAbort
    BY <1>9, <2>1, AskOrAbortIsAtomic DEF AbortTransaction, AbortBotchedCommit
  <2>2. CASE ~BeginAbort
    BY <1>9, <2>2, Stutters DEF AbortTransaction, AbortBotchedCommit, StartAbort, participants
  <2> QED BY <2>1, <2>2
<1>10. CASE PoolWrite
  BY <1>10, PoolWriteIsAtomic
<1> QED BY <1>1, <1>2, <1>3, <1>4, <1>5, <1>6, <1>7, <1>8, <1>9, <1>10 DEF Next

\* The coordinator and its participants implement AtomicCommit: the write of
\* FINALIZE_IN_PROGRESS, ABORT_IN_PROGRESS or, without participants, COMMITTED
\* decides the outcome, and every participant obeys it, also when an operation of
\* a former leader arrives late (txn_status_manager.cc, FinalizeCommitTransaction,
\* BeginAbortTransaction; txn_participant.h, Validate...).
THEOREM TransactionIsAtomic == Spec => ImplementsAtomicCommit
<1>1. Init => Atomic!Init
  BY DEF Init, Atomic!Init, Atomic!Working, Atomic!Undecided, Outcome, Fate
<1>2. IInv /\ IInv' /\ [Next]_vars
      => [Atomic!Next]_<<Outcome, [p \in Tablets |-> Fate(part[p])], owed>>
  BY NextIsAtomic DEF AtomicStep, Fates
<1> QED BY <1>1, <1>2, TransactionInvariant, PTL DEF Spec, ImplementsAtomicCommit, Atomic!Spec
===============================================================================
