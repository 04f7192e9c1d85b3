------------------------------- MODULE RaftLog -------------------------------
(***************************************************************************)
(* Replication of a tablet's log: RaftConsensus (raft_consensus.cc) with   *)
(* its PendingRounds (pending_rounds.cc), PeerMessageQueue and LogCache    *)
(* (consensus_queue.cc, log_cache.cc) and the Peers that carry requests    *)
(* (consensus_peers.cc, peer_manager.cc), over the asynchronous append of  *)
(* the write-ahead log.                                                    *)
(*                                                                         *)
(* An operation is in three places of a server: in the queue from the      *)
(* moment it is appended, on its way to the WAL, and in the WAL. Requests  *)
(* are built from the queue; a follower answers when its own WAL has the   *)
(* batch, and holds update_lock_ until then; the leader counts itself when *)
(* the callback of its WAL runs. Commit indexes travel from the queue to   *)
(* RaftConsensus by a task of its own. There is one request per Peer at a  *)
(* time, but a request that timed out, or whose Peer was closed, may still *)
(* be executed, and an answer may be handled after its Peer was closed and *)
(* created again.                                                          *)
(*                                                                         *)
(* The handlers are operators on the state of one server; the actions at   *)
(* the end apply them. A message is handled in the step that sends it,     *)
(* unless it goes under way (transit): then anything may happen before.    *)
(*                                                                         *)
(* An election is one step: the candidate's new term, the votes, and       *)
(* leadership if they are a majority. The interleavings of vote requests,  *)
(* the flushes of the metadata and the timing of elections are the subject *)
(* of RaftElection. Non-voters, unsafe config changes and the garbage      *)
(* collection of the log are left out.                                     *)
(***************************************************************************)
EXTENDS Integers, Sequences, FiniteSets, FiniteSetsExt, SequencesExt

CONSTANTS
    Servers,        \* the replicas; all are voters at first
    None,           \* no server
    StalledAppends, \* whether a server may call an election while operations
                    \* that it has truncated are still queued for its WAL
    MaxTerm,        \* bound on terms
    MaxLog,         \* bound on the length of a log
    MaxBatch,       \* consensus_max_batch_size_bytes, in operations
    MaxTransit,     \* bound on messages that are under way while others act
    MaxWork,        \* bound on writes, failed RPCs, rejections and restarts together
    MaxConfigs      \* bound on config changes

ASSUME RaftLogAssumption ==
    /\ IsFiniteSet(Servers) /\ Servers # {}
    /\ None \notin Servers
    /\ StalledAppends \in BOOLEAN
    /\ MaxBatch \in Nat \ {0}
    /\ {MaxTerm, MaxLog, MaxTransit, MaxWork, MaxConfigs} \subseteq Nat

VARIABLES
    srv,        \* the state of each server, see Server
    rpc,        \* rpc[l][p]: what the Peer of l for p waits for
    transit,    \* messages under way; live: the Peer that sent it waits for it
    chosen,     \* history: the operations some leader's queue has committed
    work        \* failures, writes, config changes and restarts so far

vars == <<srv, rpc, transit, chosen, work>>

WithinMaxWork == work.failures + work.writes + work.restarts < MaxWork

(***************************************************************************)
(* Operations, logs and configs                                            *)
(***************************************************************************)

\* An operation is its term and, for a CHANGE_CONFIG_OP, the new voters. Its
\* index is its place in the log.
Op == [term : 1 .. MaxTerm, voters : SUBSET Servers]

Logs == UNION {[1 .. n -> Op] : n \in 0 .. MaxLog}

OpId == [term : 0 .. MaxTerm, index : 0 .. MaxLog]

MinimumOpId == [term |-> 0, index |-> 0]

IdAt(log, i) == IF i = 0 THEN MinimumOpId ELSE [term |-> log[i].term, index |-> i]

LastId(log) == IdAt(log, Len(log))

OpIdLeq(a, b) == a.term < b.term \/ (a.term = b.term /\ a.index <= b.index)

IsOpInLog(log, id) == id.index <= Len(log) /\ IdAt(log, id.index) = id

Config == [index : 0 .. MaxLog, voters : SUBSET Servers]

NoConfig == [index |-> 0, voters |-> {}]

ActiveConfig(r) == IF r.pconf = NoConfig THEN r.cconf ELSE r.pconf

IsHalf(Q, V) == 2 * Cardinality(Q \cap V) >= Cardinality(V)

IsMajority(Q, V) == 2 * Cardinality(Q \cap V) > Cardinality(V)

(***************************************************************************)
(* A server. The queue: log, committed index, current Peers' state.        *)
(* RaftConsensus: term, vote, role, last_received_cur_leader_, committed   *)
(* index of PendingRounds, committed and pending config. notify: the       *)
(* commit index that a NotifyCommitIndex task carries. appendq: batches    *)
(* on their way to the WAL.                                                *)
(***************************************************************************)
TrackedPeer == [status : {"NONE", "NEW", "OK", "ERROR"}, last : OpId,
                next : 0 .. MaxLog + 1, known : 0 .. MaxLog]

\* A batch: the index it follows, its operations, and the leader whose Update
\* waits for it (None for a leader's own operations).
Batch == [prev : 0 .. MaxLog, ops : Logs, for : Servers \cup {None}]

Untracked == [status |-> "NONE", last |-> MinimumOpId, next |-> 0, known |-> 0]

NoPeers == [p \in Servers |-> Untracked]

NewServer ==
    [term |-> 0, voted_for |-> None, leading |-> FALSE, curlead |-> MinimumOpId,
     log |-> << >>, qcommitted |-> 0, peer |-> NoPeers, notify |-> 0,
     committed |-> 0, cconf |-> [index |-> 0, voters |-> Servers], pconf |-> NoConfig,
     appendq |-> << >>, wal |-> << >>]

\* An Update that waits for the WAL holds update_lock_.
UpdateLocked(r) == \E k \in DOMAIN r.appendq : r.appendq[k].for # None

BatchId(b) == [term |-> Last(b.ops).term, index |-> b.prev + Len(b.ops)]

\* Operations were truncated whose batch is still queued for the WAL.
TruncatedQueued(r) ==
    \E k \in DOMAIN r.appendq : ~IsOpInLog(r.log, BatchId(r.appendq[k]))

QueueBatch(r, prev, ops, l) ==
    [r EXCEPT !.appendq = Append(@, [prev |-> prev, ops |-> ops, for |-> l])]

(***************************************************************************)
(* PendingRounds: the operations of the log beyond the committed index     *)
(***************************************************************************)

TruncateKeepingPendingConfig(r, i) == [r EXCEPT !.log = SubSeq(@, 1, i)]

\* Operations after i are aborted and removed from the queue; a config that
\* was pending because of one of them is forgotten.
TruncateAndAbortOpsAfter(r, i) ==
    [r EXCEPT !.log = SubSeq(@, 1, i),
              !.pconf = IF @.index > i THEN NoConfig ELSE @]

AdvanceCommittedIndex(r, c) ==
    LET n == Min({c, Len(r.log)})
        done == {i \in r.committed + 1 .. n : r.log[i].voters # {} /\ i > r.cconf.index}
    IN  IF c <= r.committed THEN r
        ELSE IF done = {} THEN [r EXCEPT !.committed = n]
        ELSE [r EXCEPT !.committed = n,
                       !.cconf = [index |-> Max(done), voters |-> r.log[Max(done)].voters],
                       !.pconf = NoConfig]

AddPendingOperation(r, op) ==
    LET i == Len(r.log) + 1
    IN  [r EXCEPT !.log = Append(@, op),
                  !.pconf = IF op.voters # {} /\ i > r.cconf.index
                            THEN [index |-> i, voters |-> op.voters] ELSE @]

AddPendingOperations(r, ops) == FoldLeft(AddPendingOperation, r, ops)

\* How many of ops can be started: no config change while one is pending.
NumPrepared(r, ops) ==
    LET bad == {k \in 1 .. Len(ops) :
                  /\ ops[k].voters # {}
                  /\ \/ r.pconf # NoConfig
                     \/ \E j \in 1 .. k - 1 :
                           ops[j].voters # {} /\ Len(r.log) + j > r.cconf.index}
    IN  IF bad = {} THEN Len(ops) ELSE Min(bad) - 1

\* AppendNewRoundToQueue of a leader.
AppendNewRound(r, op) == QueueBatch(AddPendingOperation(r, op), Len(r.log), <<op>>, None)

(***************************************************************************)
(* Roles                                                                   *)
(***************************************************************************)

\* A leader steps down; its Peers are closed.
HandleTermAdvance(r, t) ==
    [r EXCEPT !.term = t, !.voted_for = None, !.leading = FALSE,
              !.curlead = MinimumOpId, !.peer = NoPeers]

\* The queue tracks every member of the active config afresh and falls back to
\* the committed index of PendingRounds.
RefreshConsensusQueueAndPeers(r) ==
    [r EXCEPT !.qcommitted = r.committed,
              !.peer = [p \in Servers |->
                           IF p \in ActiveConfig(r).voters
                           THEN [Untracked EXCEPT !.status = "NEW", !.next = Len(r.log) + 1]
                           ELSE Untracked]]

\* The leader's first operation is a NO_OP of its term.
BecomeLeader(r) ==
    AppendNewRound(RefreshConsensusQueueAndPeers([r EXCEPT !.leading = TRUE]),
                   [term |-> r.term, voters |-> {}])

\* A voter takes part in the election of term t unless it is in a later one or
\* an Update runs.
HandlesVote(r, t) == ~UpdateLocked(r) /\ r.term <= t

GrantsVoteToAnyLog(r, t, last) == r.term = t => r.voted_for = None

GrantsVote(r, t, last) ==
    /\ r.term = t => r.voted_for = None
    /\ OpIdLeq(LastId(r.log), last)

\* The voter r after the vote request of s.
RequestVote(r, s, t, last) ==
    LET r1 == IF r.term < t THEN HandleTermAdvance(r, t) ELSE r
    IN  IF GrantsVote(r, t, last) THEN [r1 EXCEPT !.voted_for = s]
        ELSE r1

(***************************************************************************)
(* The leader's queue                                                      *)
(***************************************************************************)

FirstIndexInTerm(r) == Min({i \in DOMAIN r.log : r.log[i].term = r.term})

\* A Peer has something to send: it never got an answer, the last exchange
\* failed, or its follower lacks operations or the committed index. A heartbeat
\* to a peer that has everything would change nothing there and is left out.
\* Nothing is sent to a peer that is ahead of the log.
HasRequest(r, p) ==
    LET t == r.peer[p]
    IN  /\ r.leading /\ t.status # "NONE"
        /\ t.status # "NEW" => t.next <= Len(r.log) + 1
        /\ t.status # "OK" \/ t.next <= Len(r.log) \/ t.known < r.qcommitted

\* A peer that never answered gets a status-only request.
RequestForPeer(r, p) ==
    LET t == r.peer[p]
        from == IF t.status = "NEW" THEN Len(r.log) ELSE t.next - 1
    IN  [kind |-> "request", term |-> r.term, preceding |-> IdAt(r.log, from),
         ops |-> SubSeq(r.log, from + 1, Min({from + MaxBatch, Len(r.log)})),
         committed |-> r.qcommitted]

PeerAfterSkipping(log, old, m) ==
    [status |-> "OK", last |-> m.last, next |-> m.last.index + 2, known |-> m.committed]

\* Where to resume after an answer: after the last operation the peer has, if it
\* is in our log; else after the last one it got from us; else after what it
\* knows to be committed.
PeerAfter(log, old, m) ==
    LET status == IF m.error = "none" THEN "OK" ELSE "ERROR"
        At(id, next) == [status |-> status, last |-> id, next |-> next,
                         known |-> m.committed]
    IN  IF IsOpInLog(log, m.last) THEN At(m.last, m.last.index + 1)
        ELSE IF m.curlead # MinimumOpId THEN At(m.curlead, m.curlead.index + 1)
        ELSE At(old.last, m.committed + 1)

HighestReplicated(peers, V) ==
    Max({0} \cup {peers[p].last.index : p \in {q \in V : peers[q].status = "OK"}})

\* AdvanceQueueWatermark: the highest index that a majority of the voters have,
\* counting those whose last exchange was a success.
MajorityReplicated(peers, V) ==
    LET ok == {p \in V : peers[p].status = "OK"}
    IN  Max({0} \cup {i \in {peers[p].last.index : p \in ok} :
                         IsMajority({p \in ok : peers[p].last.index >= i}, V)})

\* An answer of the tracked peer p. Only an operation of the leader's own term
\* is committed by counting.
ResponseFromPeer(r, p, m) ==
    LET peers == [r.peer EXCEPT ![p] = PeerAfter(r.log, @, m)]
        i == MajorityReplicated(peers, ActiveConfig(r).voters)
    IN  IF m.error = "none" /\ i >= FirstIndexInTerm(r) /\ i > r.qcommitted
        THEN [r EXCEPT !.peer = peers, !.qcommitted = i, !.notify = i]
        ELSE [r EXCEPT !.peer = peers]

\* A Peer handles the answer of its follower. CANNOT_PREPARE and errors of the
\* RPC only change the status; a higher term makes the leader step down.
ProcessResponse(r, p, m) ==
    IF m.error = "cannot prepare" THEN [r EXCEPT !.peer[p].status = "ERROR"]
    ELSE IF m.error = "invalid term" /\ m.term > r.term THEN HandleTermAdvance(r, m.term)
    ELSE ResponseFromPeer(r, p, m)

\* The append thread has written the oldest batch of the server s. For a leader
\* the callback is an answer from itself: the last operation of the batch,
\* whether it is still in the log or not.
LocalPeerAppendFinished(r, s) ==
    LET b == Head(r.appendq)
        id == BatchId(b)
        written == [r EXCEPT !.wal = SubSeq(@, 1, b.prev) \o b.ops, !.appendq = Tail(@)]
    IN  IF r.leading
        THEN ResponseFromPeer(written, s,
                 [error |-> "none", last |-> id, curlead |-> id, committed |-> r.qcommitted])
        ELSE written

(***************************************************************************)
(* The follower                                                            *)
(***************************************************************************)

\* The operations that are committed, or pending with the same id, are skipped
\* up to the first that is neither.
DeduplicateLeaderRequest(r, m) ==
    LET index(k) == m.preceding.index + k
        new == {k \in 1 .. Len(m.ops) :
                  /\ index(k) > r.committed
                  /\ index(k) <= Len(r.log) => r.log[index(k)].term # m.ops[k].term}
        first == IF new = {} THEN Len(m.ops) + 1 ELSE Min(new)
    IN  [preceding |-> IF first = 1 THEN m.preceding
                       ELSE [term |-> m.ops[first - 1].term, index |-> index(first - 1)],
         ops |-> SubSeq(m.ops, first, Len(m.ops))]

IsIndexCommittedOrPending(r, id) == id.index <= Len(r.log)

IsOpCommittedOrPending(r, id) == id.index <= r.committed \/ IsOpInLog(r.log, id)

\* What contradicts the leader's preceding operation is aborted as well.
EnforceLogMatchingProperty(r, preceding) ==
    IF preceding.index <= Len(r.log)
    THEN TruncateAndAbortOpsAfter(r, preceding.index - 1) ELSE r

\* The first new operation replaces the one at its index and what follows it.
ReplaceInFlight(r, d) ==
    IF d.ops # << >> /\ d.preceding.index < Len(r.log)
    THEN TruncateAndAbortOpsAfter(r, d.preceding.index) ELSE r

\* How far the leader's commit index may be applied: not beyond the last operation
\* known to be the leader's.
ApplyUpTo(last, m) == Min({last.index, m.committed})

LastPendingIndex(r) == IF r.committed < Len(r.log) THEN Len(r.log) ELSE 0

\* The follower r handles the request m of l: its new state, the answer, and
\* whether the answer waits for the WAL. pressure: the request is rejected, once
\* the early commits are done, for lack of memory. qcommitted is set to what this
\* request allows, even if that is less than before.
UpdateReplica(r, l, m, pressure) ==
    LET d == DeduplicateLeaderRequest(r, m)
        follower == IF m.term > r.term THEN HandleTermAdvance(r, m.term) ELSE r
        replaced == ReplaceInFlight(follower, d)
        early == AdvanceCommittedIndex(replaced,
                     Min({LastPendingIndex(replaced), d.preceding.index, m.committed}))
        ops == SubSeq(d.ops, 1, NumPrepared(early, d.ops))
        last == IF ops = << >> THEN d.preceding
                ELSE [term |-> Last(ops).term, index |-> d.preceding.index + Len(ops)]
        upto == ApplyUpTo(last, m)
        appended ==
            [AdvanceCommittedIndex(AddPendingOperations(early, ops), upto) EXCEPT
                !.qcommitted = upto, !.curlead = last]
        Answer(rr, error, waits) ==
            [replica |-> rr, waits |-> waits,
             msg |-> [kind |-> "response", error |-> error, term |-> rr.term,
                      last |-> LastId(rr.log), curlead |-> rr.curlead,
                      committed |-> rr.qcommitted]]
    IN  IF m.term < r.term THEN Answer(r, "invalid term", FALSE)
        ELSE IF ~IsOpCommittedOrPending(r, d.preceding)
        THEN Answer(EnforceLogMatchingProperty(follower, d.preceding),
                    "preceding entry didnt match", FALSE)
        ELSE IF d.ops # << >> /\ (pressure \/ ops = << >>)
        THEN Answer(early, "cannot prepare", FALSE)
        ELSE IF ops = << >> THEN Answer(appended, "none", FALSE)
        ELSE Answer(QueueBatch(appended, Len(early.log), ops, l), "none", TRUE)

\* The replica starts again from its WAL, its consensus metadata and the commit
\* messages in the WAL, which reach up to c. Operations without one are pending.
Start(r, c) ==
    AddPendingOperations(
        [NewServer EXCEPT !.term = r.term, !.voted_for = r.voted_for, !.cconf = r.cconf,
                          !.wal = r.wal, !.log = SubSeq(r.wal, 1, c),
                          !.committed = c, !.qcommitted = c],
        SubSeq(r.wal, c + 1, Len(r.wal)))

(***************************************************************************)
(* Messages                                                                *)
(***************************************************************************)

NoRpc == [kind |-> "none"]

Sent == [kind |-> "sent"]

Message(l, p, m, live) == [from |-> l, to |-> p, msg |-> m, live |-> live]

\* The messages and Peers after a step that makes them net and rpcs, and that
\* closes the Peers of the servers of C. Of what these sent some is lost and some
\* still takes effect: a request is executed, an answer is handled to the end. A
\* follower that has yet to answer does so in vain.
Messages(net, rpcs, C) ==
    /\ rpc' = [l \in Servers |-> IF l \in C THEN [p \in Servers |-> NoRpc] ELSE rpcs[l]]
    /\ \E kept \in SUBSET {x \in net : x.from \in C} :
          transit' = {x \in net : x.from \notin C} \cup {[x EXCEPT !.live = FALSE] : x \in kept}

\* Servers whose term changes close their Peers.
Deposed == {s \in Servers : srv[s].leading /\ srv'[s].term # srv[s].term}

\* The follower p has become r and its answer m to l is ready: it is handled at
\* once, or goes under way, or nobody waits for it.
Answered(p, r, l, m, live, net) ==
    \/ /\ live
       /\ srv' = [srv EXCEPT ![p] = r, ![l] = ProcessResponse(@, p, m)]
       /\ Messages(net, [rpc EXCEPT ![l][p] = NoRpc], Deposed)
    \/ /\ live /\ Cardinality(net) < MaxTransit
       /\ srv' = [srv EXCEPT ![p] = r]
       /\ Messages(net \cup {Message(l, p, m, TRUE)}, [rpc EXCEPT ![l][p] = Sent], Deposed)
    \/ /\ ~live
       /\ srv' = [srv EXCEPT ![p] = r]
       /\ Messages(net, rpc, Deposed)

\* The follower p handles the request m of l; net is what else is under way.
HandleRequest(l, p, m, live, net) ==
    /\ ~UpdateLocked(srv[p])
    /\ \E pressure \in BOOLEAN :
          LET u == UpdateReplica(srv[p], l, m, pressure)
          IN  /\ pressure => u.msg.error = "cannot prepare" /\ WithinMaxWork
              /\ work' = [work EXCEPT !.failures = IF pressure THEN @ + 1 ELSE @]
              /\ IF u.waits /\ live
                 THEN /\ srv' = [srv EXCEPT ![p] = u.replica]
                      /\ Messages(net, [rpc EXCEPT ![l][p] = [kind |-> "waiting",
                                                              msg |-> u.msg]], Deposed)
                 ELSE Answered(p, u.replica, l, u.msg, live, net)

\* chosen grows with the commit index of a leader's queue.
Choose ==
    LET ahead == {s \in Servers : srv'[s].leading /\ srv'[s].qcommitted > Len(chosen)}
    IN  chosen' = IF ahead = {} THEN chosen
                  ELSE LET r == srv'[CHOOSE s \in ahead : TRUE]
                       IN  SubSeq(r.log, 1, Min({r.qcommitted, Len(r.log)}))

(***************************************************************************)
(* Actions                                                                 *)
(***************************************************************************)
Init ==
    /\ srv = [s \in Servers |-> NewServer]
    /\ rpc = [l \in Servers |-> [p \in Servers |-> NoRpc]]
    /\ transit = {}
    /\ chosen = << >>
    /\ work = [failures |-> 0, writes |-> 0, configs |-> 0, restarts |-> 0]

\* s calls an election in the next term. R: the voters that get its request and
\* take part; the others do not change.
StartElection(s, R) ==
    LET t == srv[s].term + 1
        last == LastId(srv[s].log)
        self == [HandleTermAdvance(srv[s], t) EXCEPT !.voted_for = s]
        granted == {v \in R : GrantsVote(srv[v], t, last)} \cup {s}
    IN  /\ ~srv[s].leading /\ s \in ActiveConfig(srv[s]).voters
        /\ t <= MaxTerm /\ Len(srv[s].log) < MaxLog
        /\ StalledAppends \/ ~TruncatedQueued(srv[s])
        /\ \A v \in R : HandlesVote(srv[v], t)
        /\ srv' = [v \in Servers |->
                      IF v = s
                      THEN IF IsMajority(granted, ActiveConfig(srv[s]).voters)
                           THEN BecomeLeader(self) ELSE self
                      ELSE IF v \in R THEN RequestVote(srv[v], s, t, last)
                      ELSE srv[v]]
        /\ Messages(transit, rpc, Deposed)
        /\ UNCHANGED <<chosen, work>>

\* A write op is appended by the leader.
Replicate(s) ==
    /\ srv[s].leading /\ ~UpdateLocked(srv[s])
    /\ WithinMaxWork /\ Len(srv[s].log) < MaxLog
    /\ srv' = [srv EXCEPT ![s] = AppendNewRound(@, [term |-> @.term, voters |-> {}])]
    /\ work' = [work EXCEPT !.writes = @ + 1]
    /\ UNCHANGED <<rpc, transit, chosen>>

\* One voter is added or removed, never the leader itself. The new config is in
\* force from here on: the Peers are closed and created for it before the
\* operation is appended.
BulkChangeConfig(s, V) ==
    LET r == srv[s]
        op == [term |-> r.term, voters |-> V]
        pending == [r EXCEPT !.pconf = [index |-> Len(r.log) + 1, voters |-> V]]
    IN  /\ r.leading /\ s \in V
        /\ work.configs < MaxConfigs /\ Len(r.log) < MaxLog
        /\ r.pconf = NoConfig
        /\ r.qcommitted >= FirstIndexInTerm(r)
        /\ Cardinality((V \ r.cconf.voters) \cup (r.cconf.voters \ V)) = 1
        /\ srv' = [srv EXCEPT ![s] = AppendNewRound(RefreshConsensusQueueAndPeers(pending), op)]
        /\ work' = [work EXCEPT !.configs = @ + 1]
        /\ Messages(transit, rpc, {s})
        /\ UNCHANGED chosen

\* The append thread writes a batch; the Update that waited for it answers.
AppendFinished(s) ==
    /\ srv[s].appendq # << >>
    /\ LET l == Head(srv[s].appendq).for
           r == LocalPeerAppendFinished(srv[s], s)
       IN  IF l # None /\ rpc[l][s].kind = "waiting"
           THEN Answered(s, r, l, rpc[l][s].msg, TRUE, transit)
           ELSE srv' = [srv EXCEPT ![s] = r] /\ UNCHANGED <<rpc, transit>>
    /\ Choose
    /\ UNCHANGED work

\* A Peer sends a request and its follower handles it.
Update(l, p) ==
    /\ l # p /\ rpc[l][p] = NoRpc /\ HasRequest(srv[l], p)
    /\ HandleRequest(l, p, RequestForPeer(srv[l], p), TRUE, transit)
    /\ Choose

\* A Peer sends a request, and other steps happen before it arrives.
SendNextRequest(l, p) ==
    /\ l # p /\ rpc[l][p] = NoRpc /\ HasRequest(srv[l], p)
    /\ Cardinality(transit) < MaxTransit
    /\ transit' = transit \cup {Message(l, p, RequestForPeer(srv[l], p), TRUE)}
    /\ rpc' = [rpc EXCEPT ![l][p] = Sent]
    /\ UNCHANGED <<srv, chosen, work>>

RequestArrives(x) ==
    /\ x.msg.kind = "request"
    /\ HandleRequest(x.from, x.to, x.msg, x.live, transit \ {x})
    /\ Choose

\* An answer that was under way is handled. If its Peer was closed it counts for
\* the Peer that was created since, if there is one.
ResponseArrives(x) ==
    /\ x.msg.kind = "response"
    /\ srv' = [srv EXCEPT ![x.from] =
                  IF x.live \/ (/\ @.leading /\ @.peer[x.to].status # "NONE"
                                /\ x.msg.error # "cannot prepare")
                  THEN ProcessResponse(@, x.to, x.msg) ELSE @]
    /\ Messages(transit \ {x},
                IF x.live THEN [rpc EXCEPT ![x.from][x.to] = NoRpc] ELSE rpc, Deposed)
    /\ Choose
    /\ UNCHANGED work

\* An RPC times out or its connection breaks; its request may still be executed.
\* A follower that restarted does not answer.
RpcFails(l, p) ==
    /\ rpc[l][p] # NoRpc
    /\ IF rpc[l][p].kind = "waiting" /\ ~UpdateLocked(srv[p])
       THEN UNCHANGED work
       ELSE /\ WithinMaxWork
            /\ work' = [work EXCEPT !.failures = @ + 1]
    /\ srv' = [srv EXCEPT ![l].peer[p].status = "ERROR"]
    /\ rpc' = [rpc EXCEPT ![l][p] = NoRpc]
    /\ LET sent == {x \in transit : x.live /\ x.from = l /\ x.to = p}
       IN  \/ transit' = transit \ sent
           \/ transit' = (transit \ sent) \cup
                            {[x EXCEPT !.live = FALSE] : x \in {y \in sent : y.msg.kind = "request"}}
    /\ UNCHANGED chosen

\* The task that tells RaftConsensus of the queue's commit index. It may run
\* after the server stepped down.
NotifyCommitIndex(s) ==
    /\ srv[s].notify # 0
    /\ srv' = [srv EXCEPT ![s] = [AdvanceCommittedIndex(@, @.notify) EXCEPT !.notify = 0]]
    /\ UNCHANGED <<rpc, transit, chosen, work>>

\* A server stops and starts again. The commit messages of the last operations
\* may be lost.
Restart(s) ==
    /\ WithinMaxWork
    /\ work' = [work EXCEPT !.restarts = @ + 1]
    /\ \E c \in 0 .. Min({srv[s].committed, Len(srv[s].wal)}) :
          /\ SubSeq(srv[s].wal, 1, c) = SubSeq(srv[s].log, 1, c)
          /\ srv' = [srv EXCEPT ![s] = Start(@, c)]
    /\ Messages({x \in transit : x.from = s => x.msg.kind = "request"}, rpc, {s})
    /\ UNCHANGED chosen

Next ==
    \/ \E s \in Servers :
          \/ AppendFinished(s)
          \/ Replicate(s)
          \/ NotifyCommitIndex(s)
          \/ Restart(s)
          \/ \E R \in SUBSET (ActiveConfig(srv[s]).voters \ {s}) : StartElection(s, R)
          \/ \E V \in SUBSET Servers : BulkChangeConfig(s, V)
          \/ \E p \in Servers : Update(s, p) \/ SendNextRequest(s, p) \/ RpcFails(s, p)
    \/ \E x \in transit : RequestArrives(x) \/ ResponseArrives(x)

Spec == Init /\ [][Next]_vars

(***************************************************************************)
(* Properties                                                              *)
(***************************************************************************)

Server ==
    [term : 0 .. MaxTerm, voted_for : Servers \cup {None}, leading : BOOLEAN,
     curlead : OpId, log : Logs, qcommitted : 0 .. MaxLog, peer : [Servers -> TrackedPeer],
     notify : 0 .. MaxLog, committed : 0 .. MaxLog, cconf : Config, pconf : Config,
     appendq : Seq(Batch), wal : Logs]

\* The variables have their types, and no server has committed beyond its log:
\* the CHECK in PendingRounds::AbortOpsAfter holds.
TypeOK ==
    /\ srv \in [Servers -> Server]
    /\ \A s \in Servers : srv[s].committed <= Len(srv[s].log)
    /\ chosen \in Logs

\* Two logs that have an operation with the same id agree up to it, whatever
\* batches were repeated, overlapped, arrived late or were cut short
\* (DeduplicateLeaderRequest, EnforceLogMatchingPropertyMatches). The same holds
\* of what is in the WALs.
LogMatching ==
    LET all == {srv[s].log : s \in Servers} \cup {srv[s].wal : s \in Servers}
    IN  \A a, b \in all :
            \A i \in 1 .. Min({Len(a), Len(b)}) :
                a[i].term = b[i].term => SubSeq(a, 1, i) = SubSeq(b, 1, i)

\* The config in force is that of the last config change in the log, or a later
\* one that was committed before the WAL had it; aborting a round, committing it
\* and replaying it after a restart keep this (CompleteConfigChangeRound).
ConfigMatchesLog ==
    \A s \in Servers :
        LET r == srv[s]
            c == ActiveConfig(r)
            changes == {i \in DOMAIN r.log : r.log[i].voters # {}}
        IN  /\ \A i \in changes : i <= c.index
            /\ c.index \in DOMAIN r.log
                   => c.index \in changes /\ r.log[c.index].voters = c.voters
            /\ c.index = 0 => c.voters = Servers
            /\ r.pconf # NoConfig => r.pconf.index \in r.committed + 1 .. Len(r.log)

\* The operations of a commit index are in the WALs of a majority of the voters
\* at the moment the leader's queue advances to it (ResponseFromPeer).
CommitIsDurable ==
    [][\A s \in Servers :
          LET r == srv'[s]
          IN  srv[s].leading /\ r.leading /\ r.qcommitted > srv[s].qcommitted
                  => IsMajority({v \in Servers :
                                    IsPrefix(SubSeq(r.log, 1, r.qcommitted), srv'[v].wal)},
                                ActiveConfig(r).voters)]_vars

\* What the replicas apply is a prefix of one sequence that only grows, and only
\* a restart takes a replica back: PendingRounds never commits an operation that
\* another replica does not commit at the same index, and never aborts one that
\* was committed.
RL == INSTANCE ReplicatedLog WITH
          Ops <- Op, decided <- chosen, restarts <- work.restarts,
          applied <- [s \in Servers |-> SubSeq(srv[s].log, 1, srv[s].committed)]

ImplementsReplicatedLog == RL!Spec
==============================================================================
