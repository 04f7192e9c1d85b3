------------------------------ MODULE TrackedWrites ----------------------------
(***************************************************************************)
(* Writes of one client that are executed exactly once, although the       *)
(* client repeats them, also on other servers, and the tablet's leader     *)
(* changes and crashes: the ResultTracker of each server composed with the *)
(* client's retries (rpc/retriable_rpc.h), the path of a write from its    *)
(* arrival to its answer (rpc/service_if.cc, tablet/ops/op_driver.cc) and  *)
(* the replay of the log after a crash (tablet/tablet_bootstrap.cc).       *)
(*                                                                         *)
(* Raft is the ReplicatedLog that RaftLog implements: a sequence of        *)
(* decided writes, which every new leader has. The replicas that are not   *)
(* among Servers complete the majorities and may lead, too.                *)
(***************************************************************************)
EXTENDS ResultTracker, Sequences, SequencesExt

CONSTANTS
    Servers,        \* replicas of the tablet
    MaxAttempts,    \* bound on the attempts of one write
    MaxTerm,        \* bound on the terms
    MaxCrashes,     \* bound on the crashes
    MaxGCs          \* bound on the collections of old responses


VARIABLES
    sent,           \* sent[q]: the number of attempts of write q
    complete,       \* the writes that the client has finished, or given up
    net,            \* the attempts on their way
    decided,        \* the writes that Raft has decided
    term, leader,   \* the latest term and its leader, Other if not among Servers
    role,           \* role[s]: as a leader, with its term
    log,            \* log[s]: the writes in the log of s, on disk
    applied,        \* applied[s]: the indexes of the writes that s has applied
    durable,        \* durable[s]: COMMIT messages up to here are surely on disk
    tracker,        \* tracker[s]: the ResultTracker
    arrived,        \* arrived[s]: attempts that TrackRpc said are NEW
    queue,          \* queue[s]: ops in the prepare queue
    replicating,    \* replicating[s]: prepared ops, which hold their row locks
    finished,       \* finished[s]: ops whose completion callback is to be called
    replay,         \* replay[s]: where s is in the replay of its log
    crashes, gcs    \* how often something crashed, or old responses were collected

client == <<sent, complete, net>>
raft == <<decided, term, leader, role>>
storage == <<log, applied, durable>>
drivers == <<arrived, queue, replicating, finished>>
faults == <<crashes, gcs>>
vars == <<client, raft, storage, tracker, drivers, replay, faults>>

(***************************************************************************)
(* State                                                                   *)
(***************************************************************************)
Attempts == 1 .. MaxAttempts

\* The id of an attempt; a log entry is the id of the attempt that was logged.
RequestIds == [seq : Seqs, no : Attempts, first : Seqs]

Terms == 0 .. MaxTerm

Indexes == 1 .. (Cardinality(Seqs) * MaxAttempts)

Other == "other"

ASSUME TrackedWritesAssumption ==
    /\ MaxAttempts \in Nat /\ MaxTerm \in Nat \ {0} /\ MaxCrashes \in Nat /\ MaxGCs \in Nat
    /\ Other \notin Servers

NotLeader == [lead |-> "no", term |-> 0]

Running == [at |-> 0, upto |-> 0, tracked |-> FALSE]

TypeOK ==
    /\ sent \in [Seqs -> 0 .. MaxAttempts] /\ complete \subseteq Seqs
    /\ net \subseteq [id : RequestIds, to : Servers]
    /\ decided \in Seq(RequestIds) /\ term \in Terms /\ leader \in Servers \cup {Other}
    /\ role \in [Servers -> [lead : {"no", "elected", "ready"}, term : Terms]]
    /\ log \in [Servers -> Seq(RequestIds)]
    /\ applied \in [Servers -> SUBSET Indexes] /\ durable \in [Servers -> Indexes \cup {0}]
    /\ \A s \in Servers :
          /\ tracker[s].stale \in Nat
          /\ \A q \in Seqs : tracker[s].records[q]
                \in {NoRecord} \cup CompletionRecords(Attempts, Indexes \cup {0})
          /\ arrived[s] \subseteq RequestIds
          /\ queue[s] \in Seq([id : RequestIds, kind : {"LEADER", "FOLLOWER"}, at : Nat,
                               failed : BOOLEAN])
          /\ replicating[s] \subseteq [id : RequestIds, at : Indexes, tracked : BOOLEAN]
          /\ finished[s] \subseteq [id : RequestIds, at : Indexes, ok : BOOLEAN]
          /\ replay[s] \in [at : Nat, upto : Nat, tracked : BOOLEAN]
    /\ crashes \in 0 .. MaxCrashes /\ gcs \in 0 .. MaxGCs

\* One server leads in the first term.
Init ==
    /\ sent = [q \in Seqs |-> 0] /\ complete = {} /\ net = {}
    /\ decided = <<>> /\ term = 1
    /\ \E s \in Servers :
          /\ leader = s
          /\ role = [x \in Servers |-> IF x = s THEN [lead |-> "ready", term |-> 1] ELSE NotLeader]
    /\ log = [s \in Servers |-> <<>>]
    /\ applied = [s \in Servers |-> {}] /\ durable = [s \in Servers |-> 0]
    /\ tracker = [s \in Servers |-> NewTracker]
    /\ arrived = [s \in Servers |-> {}]
    /\ queue = [s \in Servers |-> <<>>]
    /\ replicating = [s \in Servers |-> {}]
    /\ finished = [s \in Servers |-> {}]
    /\ replay = [s \in Servers |-> Running]
    /\ crashes = 0 /\ gcs = 0

IsRunning(s) == replay[s] = Running

LeadsNow(s) == leader = s /\ role[s].lead # "no"

\* Consensus holds its lock until the callbacks of the ops it aborts have run.
ConsensusUnlocked(s) == IsRunning(s) /\ \A o \in finished[s] : o.ok

(***************************************************************************)
(* The client                                                              *)
(***************************************************************************)
FirstIncomplete == Min(Seqs \ complete)

\* A first attempt, or another one when the last failed or timed out. Sequence
\* numbers are taken in order.
SendRpc(q, s) ==
    /\ q \notin complete /\ sent[q] < MaxAttempts
    /\ \A p \in Seqs : p < q => sent[p] > 0
    /\ sent' = [sent EXCEPT ![q] = @ + 1]
    /\ net' = net \cup {[id |-> [seq |-> q, no |-> sent[q] + 1, first |-> FirstIncomplete],
                         to |-> s]}
    /\ UNCHANGED <<complete, raft, storage, tracker, drivers, replay, faults>>

\* The answer to the last attempt is in, or the deadline has passed.
FinishInternal(q) ==
    /\ q \notin complete /\ sent[q] > 0
    /\ complete' = complete \cup {q}
    /\ UNCHANGED <<sent, net, raft, storage, tracker, drivers, replay, faults>>

(***************************************************************************)
(* From the arrival of an attempt to the prepare queue                     *)
(***************************************************************************)
Handle(m) ==
    LET s == m.to
        x == TrackRpc(tracker[s], m.id)
    IN  /\ net' = net \ {m}
        /\ tracker' = [tracker EXCEPT ![s] = x.tracker]
        /\ arrived' = IF x.state = "NEW" THEN [arrived EXCEPT ![s] = @ \cup {m.id}] ELSE arrived
        /\ UNCHANGED <<sent, complete, raft, storage, queue, replicating, finished, replay, faults>>

\* ExecuteAsync of a leader op, or an error before: the tablet does not run, or
\* the server does not lead it.
ExecuteAsync(s, id) ==
    /\ id \in arrived[s]
    /\ arrived' = [arrived EXCEPT ![s] = @ \ {id}]
    /\ IF IsRunning(s) /\ role[s].lead = "ready"
       THEN /\ queue' = [queue EXCEPT ![s] = Append(@, [id |-> id, kind |-> "LEADER",
                                                        at |-> role[s].term, failed |-> FALSE])]
            /\ UNCHANGED tracker
       ELSE /\ tracker' = [tracker EXCEPT ![s] = FailAndRespond(@, id)]
            /\ UNCHANGED queue
    /\ UNCHANGED <<client, raft, storage, replicating, finished, replay, faults>>

(***************************************************************************)
(* The prepare thread. It waits for the row locks, which two attempts of   *)
(* one write do not hold together.                                         *)
(***************************************************************************)
Prepared(s, o) ==
    /\ queue[s] # <<>> /\ o = Head(queue[s])
    /\ \A p \in replicating[s] : p.id.seq # o.id.seq
    /\ queue' = [queue EXCEPT ![s] = Tail(@)]

StillDriverUnchecked(s, o) == TRUE

StillDriver(s, o) == IsCurrentDriver(tracker[s], o.id)

\* A leader op: it must still be the driver, in the term it was bound to.
PrepareLeaderOp(s, o) ==
    /\ Prepared(s, o) /\ o.kind = "LEADER"
    /\ IF StillDriver(s, o) /\ role[s] = [lead |-> "ready", term |-> o.at]
       THEN /\ log' = [log EXCEPT ![s] = Append(@, o.id)]
            /\ replicating' = [replicating EXCEPT ![s] =
                  @ \cup {[id |-> o.id, at |-> Len(log[s]) + 1, tracked |-> TRUE]}]
            /\ UNCHANGED tracker
       ELSE /\ tracker' = [tracker EXCEPT ![s] = FailAndRespond(@, o.id)]
            /\ UNCHANGED <<log, replicating>>
    /\ UNCHANGED <<client, raft, applied, durable, arrived, finished, replay, faults>>

\* A leader op that has waited in the queue beyond its deadline.
PrepareTimedOut(s, o) ==
    /\ queue[s] # <<>> /\ o = Head(queue[s]) /\ o.kind = "LEADER"
    /\ queue' = [queue EXCEPT ![s] = Tail(@)]
    /\ tracker' = [tracker EXCEPT ![s] = FailAndRespond(@, o.id)]
    /\ UNCHANGED <<client, raft, storage, arrived, replicating, finished, replay, faults>>

\* A follower op, which becomes the driver. If it was aborted already, then
\* HandleFailure follows.
PrepareFollowerOp(s, o) ==
    LET x == TrackRpcOrChangeDriver(tracker[s], o.id)
        new == x.state = "NEW"
    IN  /\ Prepared(s, o) /\ o.kind = "FOLLOWER"
        /\ IF o.failed
           THEN /\ tracker' = [tracker EXCEPT
                      ![s] = IF new THEN FailAndRespond(x.tracker, o.id) ELSE x.tracker]
                /\ UNCHANGED replicating
           ELSE /\ tracker' = [tracker EXCEPT ![s] = x.tracker]
                /\ replicating' = [replicating EXCEPT ![s] =
                      @ \cup {[id |-> o.id, at |-> o.at, tracked |-> new]}]
        /\ UNCHANGED <<client, raft, storage, arrived, finished, replay, faults>>

(***************************************************************************)
(* The apply pool and the completion callbacks                             *)
(***************************************************************************)
Done(s, o, ok) ==
    finished' = IF o.tracked
                THEN [finished EXCEPT ![s] = @ \cup {[id |-> o.id, at |-> o.at, ok |-> ok]}]
                ELSE finished

\* ApplyTask, up to the release of the locks in Finish.
ApplyTask(s, o) ==
    /\ o \in replicating[s]
    /\ o.at <= Len(decided) /\ log[s][o.at] = decided[o.at]
    /\ applied' = [applied EXCEPT ![s] = @ \cup {o.at}]
    /\ replicating' = [replicating EXCEPT ![s] = @ \ {o}]
    /\ Done(s, o, TRUE)
    /\ UNCHANGED <<client, raft, log, durable, tracker, arrived, queue, replay, faults>>

OpCompleted(s, o) ==
    /\ o \in finished[s]
    /\ finished' = [finished EXCEPT ![s] = @ \ {o}]
    /\ tracker' = [tracker EXCEPT
          ![s] = IF o.ok THEN RecordCompletionAndRespond(@, o.id, o.at) ELSE FailAndRespond(@, o.id)]
    /\ UNCHANGED <<client, raft, storage, arrived, queue, replicating, replay, faults>>

CollectResponses(s, q) ==
    /\ gcs < MaxGCs
    /\ tracker' = [tracker EXCEPT ![s] = GCResults(@, q)]
    /\ tracker' # tracker
    /\ gcs' = gcs + 1
    /\ UNCHANGED <<client, raft, storage, drivers, replay, crashes>>

(***************************************************************************)
(* Raft                                                                    *)
(***************************************************************************)
BecomeLeader(s) ==
    /\ ConsensusUnlocked(s) /\ role[s].lead = "no"
    /\ term < MaxTerm /\ IsPrefix(decided, log[s])
    /\ term' = term + 1 /\ leader' = s
    /\ role' = [role EXCEPT ![s] = [lead |-> "elected", term |-> term + 1]]
    /\ UNCHANGED <<client, decided, storage, tracker, drivers, replay, faults>>

\* A replica that is not modelled leads.
OtherLeader ==
    /\ term < MaxTerm
    /\ term' = term + 1 /\ leader' = Other
    /\ UNCHANGED <<client, decided, role, storage, tracker, drivers, replay, faults>>

BecomeReplica(s) ==
    /\ role[s].lead # "no" /\ ~LeadsNow(s)
    /\ role' = [role EXCEPT ![s] = NotLeader]
    /\ UNCHANGED <<client, decided, term, leader, storage, tracker, drivers, replay, faults>>

\* The leader's NO_OP is decided, and all that precedes it.
LeaderIsReady(s) ==
    /\ LeadsNow(s) /\ role[s].lead = "elected"
    /\ role' = [role EXCEPT ![s].lead = "ready"]
    /\ decided' = log[s]
    /\ UNCHANGED <<client, term, leader, storage, tracker, drivers, replay, faults>>

Decide(s) ==
    /\ LeadsNow(s) /\ role[s].lead = "ready" /\ Len(decided) < Len(log[s])
    /\ decided' = SubSeq(log[s], 1, Len(decided) + 1)
    /\ UNCHANGED <<client, term, leader, role, storage, tracker, drivers, replay, faults>>

\* A follower starts an op that it received.
StartFollowerOp(l, s) ==
    /\ LeadsNow(l) /\ ConsensusUnlocked(s) /\ role[s].lead = "no"
    /\ IsStrictPrefix(log[s], log[l])
    /\ LET i == Len(log[s]) + 1
       IN  /\ log' = [log EXCEPT ![s] = Append(@, log[l][i])]
           /\ queue' = [queue EXCEPT ![s] = Append(@, [id |-> log[l][i], kind |-> "FOLLOWER",
                                                       at |-> i, failed |-> FALSE])]
    /\ UNCHANGED <<client, raft, applied, durable, tracker, arrived, replicating, finished, replay, faults>>

\* The writes from i on are not in the log of the leader: their ops are aborted.
AbortIfFrom(o, i) == [o EXCEPT !.failed = @ \/ (o.kind = "FOLLOWER" /\ o.at >= i)]

AbortOpsFrom(s, i) ==
    /\ log' = [log EXCEPT ![s] = SubSeq(@, 1, i - 1)]
    /\ queue' = [queue EXCEPT ![s] = [k \in DOMAIN @ |-> AbortIfFrom(@[k], i)]]
    /\ LET aborted == {o \in replicating[s] : o.at >= i}
       IN  /\ replicating' = [replicating EXCEPT ![s] = @ \ aborted]
           /\ finished' = [finished EXCEPT ![s] = @ \cup
                 {[id |-> o.id, at |-> o.at, ok |-> FALSE] : o \in {a \in aborted : a.tracked}}]

\* An undecided end of the log is not in that of the leader, whose NO_OP or next
\* write conflicts with it. The log of another leader may be any.
TruncateLog(s, i) ==
    /\ ConsensusUnlocked(s) /\ role[s].lead = "no" /\ i \in DOMAIN log[s]
    /\ ~IsPrefix(SubSeq(log[s], 1, i), decided)
    /\ leader # Other =>
          /\ LeadsNow(leader)
          /\ IsPrefix(SubSeq(log[s], 1, i - 1), log[leader])
          /\ ~IsPrefix(SubSeq(log[s], 1, i), log[leader])
    /\ AbortOpsFrom(s, i)
    /\ UNCHANGED <<client, raft, applied, durable, tracker, arrived, replay, faults>>

(***************************************************************************)
(* Crash and bootstrap. COMMIT messages are written asynchronously: those  *)
(* up to some index below the first unapplied op are on disk.              *)
(***************************************************************************)
Crash(s) ==
    /\ crashes < MaxCrashes /\ IsRunning(s)
    /\ \E n \in durable[s] .. Len(log[s]) :
          /\ 1 .. n \subseteq applied[s]
          /\ durable' = [durable EXCEPT ![s] = n]
          /\ applied' = [applied EXCEPT ![s] = 1 .. n]
          /\ replay' = [replay EXCEPT ![s] = [at |-> 1, upto |-> n, tracked |-> FALSE]]
    /\ role' = [role EXCEPT ![s] = NotLeader]
    /\ tracker' = [tracker EXCEPT ![s] = NewTracker]
    /\ arrived' = [arrived EXCEPT ![s] = {}]
    /\ queue' = [queue EXCEPT ![s] = <<>>]
    /\ replicating' = [replicating EXCEPT ![s] = {}]
    /\ finished' = [finished EXCEPT ![s] = {}]
    /\ net' = {m \in net : m.to # s}
    /\ crashes' = crashes + 1
    /\ UNCHANGED <<sent, complete, decided, term, leader, log, gcs>>

\* PlayWriteRequest tracks the write, and then records its result.
PlayWriteRequest(s) ==
    LET r == replay[s]
        x == TrackRpcOrChangeDriver(tracker[s], log[s][r.at])
    IN  /\ r.at \in 1 .. r.upto
        /\ IF r.tracked
           THEN /\ tracker' = [tracker EXCEPT
                      ![s] = RecordCompletionAndRespond(@, log[s][r.at], r.at)]
                /\ replay' = [replay EXCEPT ![s].at = r.at + 1, ![s].tracked = FALSE]
           ELSE /\ tracker' = [tracker EXCEPT ![s] = x.tracker]
                /\ replay' = IF x.state = "NEW" THEN [replay EXCEPT ![s].tracked = TRUE]
                             ELSE [replay EXCEPT ![s].at = r.at + 1]
        /\ UNCHANGED <<client, raft, storage, drivers, faults>>

\* RaftConsensus::Start: the rest of the log are pending ops.
StartOrphanedReplicates(s) ==
    /\ replay[s].at = replay[s].upto + 1
    /\ queue' = [queue EXCEPT ![s] =
          [k \in 1 .. (Len(log[s]) - replay[s].upto) |->
              LET i == replay[s].upto + k
              IN  [id |-> log[s][i], kind |-> "FOLLOWER", at |-> i, failed |-> FALSE]]]
    /\ replay' = [replay EXCEPT ![s] = Running]
    /\ UNCHANGED <<client, raft, storage, tracker, arrived, replicating, finished, faults>>

Next ==
    \/ \E q \in Seqs : FinishInternal(q) \/ \E s \in Servers : SendRpc(q, s)
    \/ \E m \in net : Handle(m)
    \/ \E s \in Servers :
          \/ \E id \in arrived[s] : ExecuteAsync(s, id)
          \/ \E o \in ToSet(queue[s]) :
                PrepareLeaderOp(s, o) \/ PrepareTimedOut(s, o) \/ PrepareFollowerOp(s, o)
          \/ \E o \in replicating[s] : ApplyTask(s, o)
          \/ \E o \in finished[s] : OpCompleted(s, o)
          \/ \E q \in Seqs : CollectResponses(s, q)
          \/ BecomeLeader(s) \/ BecomeReplica(s) \/ LeaderIsReady(s) \/ Decide(s)
          \/ \E l \in Servers \ {s} : StartFollowerOp(l, s)
          \/ \E i \in DOMAIN log[s] : TruncateLog(s, i)
          \/ Crash(s) \/ PlayWriteRequest(s) \/ StartOrphanedReplicates(s)
    \/ OtherLeader

Spec == Init /\ [][Next]_vars

(***************************************************************************)
(* Properties                                                              *)
(***************************************************************************)

\* Exactly once: no log has two attempts of one write, whatever the client
\* repeats where, and so no replica applies a write twice (op_driver.cc, the
\* synchronized block of Prepare; result_tracker.h).
ExactlyOnce ==
    \A s \in Servers : \A i, j \in DOMAIN log[s] : log[s][i].seq = log[s][j].seq => i = j

\* The CHECKs of RecordCompletionAndRespond hold: when the write was applied, or
\* replayed, its record is there, in progress, and driven by this attempt.
HasItsRecord(s, id) ==
    IsCurrentDriver(tracker[s], id) /\ tracker[s].records[id.seq].state = "IN_PROGRESS"

OnlyTheDriverCompletes ==
    \A s \in Servers :
        /\ \A o \in finished[s] : o.ok => HasItsRecord(s, o.id)
        /\ replay[s].tracked => HasItsRecord(s, log[s][replay[s].at])

\* A response that a server keeps for later attempts is that of a decided write,
\* at the index where every log has it, also after it was computed by replay
\* (tablet_bootstrap.cc, PlayWriteRequest).
CachedResponseIsDecided ==
    \A s \in Servers, q \in Seqs :
        LET r == tracker[s].records[q]
        IN  r.state = "COMPLETED" =>
                r.result \in DOMAIN decided /\ decided[r.result].seq = q

\* "If the RPC is still ongoing, the attempt gets attached to the ongoing one and
\* will receive the same response when its handler finishes": somebody is left
\* to answer every attempt that waits.
Handlers(s) ==
    arrived[s] \cup {o.id : o \in ToSet(queue[s]) \cup replicating[s] \cup finished[s]}
        \cup {log[s][i] : i \in {replay[s].at} \cap (IF replay[s].tracked THEN Indexes ELSE {})}

NoOrphanedAttempt ==
    \A s \in Servers, q \in Seqs :
        LET r == tracker[s].records[q]
        IN  r # NoRecord =>
                \A rpc \in r.ongoing : \E id \in Handlers(s) :
                    id.seq = q /\ MustHandleRpc(r, id.no, rpc)
===============================================================================
