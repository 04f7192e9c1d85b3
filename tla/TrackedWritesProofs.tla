-------------------------- MODULE TrackedWritesProofs --------------------------
(***************************************************************************)
(* Proofs about TrackedWrites: a write is logged once however often the    *)
(* client repeats it and on whatever server, the CHECKs of the tracker     *)
(* hold, and a cached response is that of a decided write; for any number  *)
(* of servers, writes, attempts, terms, crashes and collections.           *)
(*                                                                         *)
(* Why a leader never logs a second attempt of a write: it logs an attempt *)
(* only if it drives the record of its write, and while it is a ready      *)
(* leader no follower op is left in the queue behind a leader op. So the   *)
(* tracker has seen every write of the log (Known), and it remembers each  *)
(* of them: the write is stale, or its record is completed or still driven *)
(* by the attempt that was logged. The record of another attempt that      *)
(* fails is not erased as long as the logged attempt has an ongoing RPC,   *)
(* or nobody waits who could fail (Remembers). Attempts that were logged   *)
(* and attempts that wait are never the same one (FreshInv), and logs that *)
(* share an entry share all that precedes it (LogInv).                     *)
(*                                                                         *)
(* The invariant has a part about attempts (FreshInv, DistinctInv), one    *)
(* about logs (LogInv, ExactlyOnce) and one about each server (LocalInv).  *)
(* For each action, one lemma (...Step) says what it changes, one          *)
(* (...Attempts) that it keeps the first part, one (...Local) the third,   *)
(* and one (...Keeps) puts them together.                                  *)
(***************************************************************************)
EXTENDS TrackedWrites, WellFoundedInduction, TLAPS

(***************************************************************************)
(* Types, and the inductive invariant                                      *)
(***************************************************************************)
Ops == [id : RequestIds, kind : {"LEADER", "FOLLOWER"}, at : Nat, failed : BOOLEAN]

Records == CompletionRecords(Attempts, Nat)

Trackers == [stale : Nat, records : [Seqs -> {NoRecord} \cup Records]]

Types ==
    /\ sent \in [Seqs -> 0 .. MaxAttempts] /\ complete \subseteq Seqs
    /\ net \subseteq [id : RequestIds, to : Servers]
    /\ decided \in Seq(RequestIds) /\ term \in Nat /\ leader \in Servers \cup {Other}
    /\ role \in [Servers -> [lead : {"no", "elected", "ready"}, term : Nat]]
    /\ log \in [Servers -> Seq(RequestIds)]
    /\ applied \in [Servers -> SUBSET Nat] /\ durable \in [Servers -> Nat]
    /\ tracker \in [Servers -> Trackers]
    /\ arrived \in [Servers -> SUBSET RequestIds]
    /\ queue \in [Servers -> Seq(Ops)]
    /\ replicating \in [Servers -> SUBSET [id : RequestIds, at : Nat, tracked : BOOLEAN]]
    /\ finished \in [Servers -> SUBSET [id : RequestIds, at : Nat, ok : BOOLEAN]]
    /\ replay \in [Servers -> [at : Nat, upto : Nat, tracked : BOOLEAN]]

\* An id also has the watermark of the client, which does not identify the attempt.
SameAttempt(a, b) == a.seq = b.seq /\ a.no = b.no

LeaderOps(s) == {k \in DOMAIN queue[s] : queue[s][k].kind = "LEADER"}
FollowerOps(s) == {k \in DOMAIN queue[s] : queue[s][k].kind = "FOLLOWER"}

\* The follower ops that were not aborted, and where their writes are in the log.
PendingOps(s) == {k \in FollowerOps(s) : ~queue[s][k].failed}

PendingAt(s) == {queue[s][k].at : k \in PendingOps(s)}

\* The attempts of the client that s has yet to log or to fail.
Waiting(s) == arrived[s] \cup {queue[s][k].id : k \in LeaderOps(s)}

Unlogged == {m.id : m \in net} \cup UNION {Waiting(s) : s \in Servers}

LoggedOn(s) ==
    {log[s][i] : i \in DOMAIN log[s]} \cup {queue[s][k].id : k \in FollowerOps(s)}
        \cup {o.id : o \in replicating[s] \cup finished[s]}

Logged == {decided[i] : i \in DOMAIN decided} \cup UNION {LoggedOn(s) : s \in Servers}

\* An attempt that was logged anywhere does not wait anywhere, and every attempt
\* is one that the client sent.
FreshInv ==
    /\ \A a \in Unlogged, b \in Logged : ~SameAttempt(a, b)
    /\ \A a \in Unlogged \cup Logged : a.no <= sent[a.seq] /\ a.first <= a.seq

\* An attempt that was not logged yet is in one place only.
DistinctInv ==
    /\ \A m, n \in net : SameAttempt(m.id, n.id) => m = n
    /\ \A m \in net, s \in Servers : \A a \in Waiting(s) : ~SameAttempt(m.id, a)
    /\ \A s, u \in Servers : \A a \in Waiting(s), b \in Waiting(u) :
          SameAttempt(a, b) => s = u /\ a = b
    /\ \A s \in Servers : \A a \in arrived[s], k \in LeaderOps(s) :
          ~SameAttempt(a, queue[s][k].id)
    /\ \A s \in Servers : \A k, l \in LeaderOps(s) :
          SameAttempt(queue[s][k].id, queue[s][l].id) => k = l

Agree(a, b) == \A i \in DOMAIN a \cap DOMAIN b : a[i] = b[i] => \A j \in 1 .. i : a[j] = b[j]

Extends(a, b) == Len(b) <= Len(a) /\ \A i \in DOMAIN b : a[i] = b[i]

\* Logs that share an entry share what precedes it, also with the decided writes,
\* which the leader has and of which every server has applied some.
LogInv ==
    /\ \A s, u \in Servers : Agree(log[s], log[u])
    /\ \A s \in Servers : Agree(log[s], decided)
    /\ \A s \in Servers : LeadsNow(s) => Extends(log[s], decided)
    /\ \A s \in Servers : \A i \in applied[s] :
          i \in DOMAIN log[s] \cap DOMAIN decided /\ \A j \in 1 .. i : log[s][j] = decided[j]

\* The tracker of s has seen the write at i: its op has left the prepare queue, or
\* it was replayed.
Known(s, i) ==
    /\ i \in DOMAIN log[s]
    /\ IF IsRunning(s) THEN i \notin PendingAt(s)
       ELSE i < replay[s].at \/ (i = replay[s].at /\ replay[s].tracked)

\* The tracker t remembers that attempt e was logged, while the attempts W wait: a
\* record in progress is erased when the last of its RPCs fails, so e has one of
\* them, or no attempt is left that could fail.
Remembers(t, e, W) ==
    \/ t.stale > e.seq
    \/ /\ t.records[e.seq] # NoRecord /\ t.records[e.seq].driver = e.no
       /\ \/ t.records[e.seq].state = "COMPLETED"
          \/ \E rpc \in t.records[e.seq].ongoing : rpc.handler = e.no
          \/ \A a \in W : a.seq # e.seq

\* The attempt a is the handler of an RPC, which it is to answer.
Attached(t, a) ==
    \/ t.stale > a.seq
    \/ /\ t.records[a.seq] # NoRecord
       /\ \E rpc \in t.records[a.seq].ongoing : rpc.handler = a.no

\* No record is stale.
TrackerOK(t) == \A q \in Seqs : t.records[q] # NoRecord => t.stale # 0 /\ t.stale <= q

\* A pending follower op is that of its log entry, and its write is neither applied
\* nor replicated nor known to the tracker. A follower op behind a leader op is of
\* a later term than the leader op was bound to.
QueueOK(s) ==
    /\ \A k \in LeaderOps(s) : queue[s][k].at <= term
    /\ \A k \in PendingOps(s) :
          LET o == queue[s][k]
          IN  /\ o.at \in DOMAIN log[s] /\ log[s][o.at] = o.id
              /\ o.at \notin applied[s] /\ \A p \in replicating[s] : p.at # o.at
    /\ \A k \in LeaderOps(s), l \in FollowerOps(s) :
          k < l => role[s].lead = "no" \/ role[s].term # queue[s][k].at
    /\ \A k, l \in PendingOps(s) : queue[s][k].at = queue[s][l].at => k = l
    /\ \A k \in PendingOps(s), l \in FollowerOps(s) :
          k < l => queue[s][k].id.seq # queue[s][l].id.seq
    /\ \A k \in FollowerOps(s), i \in DOMAIN log[s] :
          Known(s, i) => log[s][i].seq # queue[s][k].id.seq

\* A server that replays its log has no ops, and replays what it had applied.
ReplayOK(s) ==
    /\ role[s].term <= term
    /\ ~IsRunning(s) =>
         /\ queue[s] = <<>> /\ replicating[s] = {} /\ finished[s] = {} /\ role[s].lead = "no"
         /\ replay[s].at \in 1 .. replay[s].upto + 1
         /\ replay[s].tracked => replay[s].at <= replay[s].upto
         /\ applied[s] = 1 .. replay[s].upto

\* The attempt id may complete its record.
Owns(t, id) == IsCurrentDriver(t, id) /\ t.records[id.seq].state = "IN_PROGRESS"

\* A prepared op is that of its log entry and owns its record, also when it is
\* applied; when it is aborted, its write is not in the log any more.
OpsOK(s) ==
    /\ \A o \in replicating[s] :
          /\ o.at \in DOMAIN log[s] /\ log[s][o.at] = o.id /\ o.at \notin applied[s]
          /\ o.tracked => Owns(tracker[s], o.id)
    /\ \A o, p \in replicating[s] : o.at = p.at => o = p
    /\ \A o \in finished[s] :
          /\ o.ok => o.at \in applied[s] /\ log[s][o.at] = o.id /\ Owns(tracker[s], o.id)
          /\ ~o.ok => role[s].lead = "no" /\ \A i \in DOMAIN log[s] : log[s][i].seq # o.id.seq

\* The tracker remembers the writes it has seen, every waiting attempt is attached,
\* and a response is that of an applied write.
TrackOK(s) ==
    /\ TrackerOK(tracker[s])
    /\ \A i \in DOMAIN log[s] : Known(s, i) => Remembers(tracker[s], log[s][i], Waiting(s))
    /\ \A a \in Waiting(s) : Attached(tracker[s], a)
    /\ \A q \in Seqs : tracker[s].records[q].state = "COMPLETED" =>
          LET i == tracker[s].records[q].result
          IN  i \in applied[s] /\ Known(s, i) /\ log[s][i].seq = q
    /\ replay[s].tracked => Owns(tracker[s], log[s][replay[s].at])

LocalInv(s) == QueueOK(s) /\ ReplayOK(s) /\ OpsOK(s) /\ TrackOK(s)

IInv ==
    /\ Types /\ FreshInv /\ DistinctInv /\ LogInv /\ ExactlyOnce
    /\ \A s \in Servers : LocalInv(s)

-----------------------------------------------------------------------------
(***************************************************************************)
(* Numbers                                                                 *)
(***************************************************************************)

LEMMA LeastExists ==
    ASSUME NEW S \in SUBSET Nat, S # {}
    PROVE  \E m \in S : \A y \in S : m <= y
<1>1. OpToRel(<, Nat) = {ss \in Nat \X Nat : ss[1] < ss[2]}
  BY Zenon DEF OpToRel
<1>2. PICK x \in S : \A y \in S : ~(<<y, x>> \in OpToRel(<, Nat))
  BY NatLessThanWellFounded, WFMin, Zenon
<1>3. \A y \in S : ~(<<y, x>> \in {ss \in Nat \X Nat : ss[1] < ss[2]})
  BY <1>1, <1>2, Zenon
<1>4. ASSUME NEW y \in S PROVE x <= y
  <2>1. x \in Nat /\ y \in Nat
    OBVIOUS
  <2>2. <<y, x>> \in Nat \X Nat
    BY <2>1
  <2>3. ~(<<y, x>>[1] < <<y, x>>[2])
    BY <1>3, <2>2, Zenon
  <2> QED BY <2>1, <2>3
<1> QED BY <1>4

LEMMA MinIs ==
    ASSUME NEW S \in SUBSET Nat, S # {}
    PROVE  Min(S) \in S /\ \A y \in S : Min(S) <= y
BY LeastExists DEF Min

\* A set that is bounded has a greatest element.
LEMMA MaxIs ==
    ASSUME NEW S \in SUBSET Nat, S # {}, NEW b \in Nat, \A x \in S : x <= b
    PROVE  Max(S) \in S /\ \A y \in S : Max(S) >= y
<1> DEFINE T == {n \in Nat : \A x \in S : x <= n}
<1>1. PICK m \in T : \A y \in T : m <= y
  <2>1. T \in SUBSET Nat /\ b \in T
    OBVIOUS
  <2> HIDE DEF T
  <2> QED BY <2>1, LeastExists
<1>2. m \in S
  <2> SUFFICES ASSUME m \notin S PROVE FALSE
    OBVIOUS
  <2>1. m \in Nat /\ \A x \in S : x < m
    OBVIOUS
  <2>2. PICK w \in S : TRUE
    OBVIOUS
  <2>3. w \in Nat /\ w < m
    BY <2>1
  <2>4. m - 1 \in Nat
    BY <2>1, <2>3
  <2>5. \A x \in S : x <= m - 1
    BY <2>1, <2>4
  <2> QED BY <1>1, <2>1, <2>4, <2>5
<1>3. \A x \in S : x <= m
  OBVIOUS
<1>4. \E x \in S : \A y \in S : x >= y
  BY <1>2, <1>3
<1> QED BY <1>4 DEF Max

-----------------------------------------------------------------------------
(***************************************************************************)
(* The tracker of one server                                               *)
(***************************************************************************)

LEMMA RecordTypes ==
    /\ NoRecord.state = "none"
    /\ \A r \in Records : /\ r # NoRecord /\ r.state \in {"IN_PROGRESS", "COMPLETED"}
                          /\ r.driver \in Attempts /\ r.result \in Nat
                          /\ r.ongoing \subseteq [handler : Attempts \cup {NO_HANDLER},
                                                  call : Attempts \cup {0}]
BY DEF NoRecord, Records, CompletionRecords

LEMMA AttemptsAreNat == Attempts \subseteq Nat \ {0} /\ Seqs \subseteq Nat \ {0}
BY TrackedWritesAssumption, SeqsAssumption DEF Attempts

\* From t to u the record of q is kept, or collected: then q is stale.
Survives(t, u, q) ==
    \/ u.records[q] = t.records[q]
    \/ u.records[q] = NoRecord /\ u.stale > q /\ t.records[q].state = "COMPLETED"

Collects(t, old, u) ==
    /\ u \in Trackers /\ TrackerOK(u) /\ u.stale >= t.stale
    /\ \A q \in Seqs : Survives(t, u, q) /\ (q \notin old => u.records[q] = t.records[q])
    /\ u.stale = t.stale \/ \E p \in old : u.stale = p + 1

LEMMA CollectionIs ==
    ASSUME NEW t \in Trackers, TrackerOK(t), NEW old \in SUBSET Seqs,
           NEW b \in Nat, \A q \in old : q <= b
    PROVE  Collects(t, old, GCCompletionRecords(t, old))
<1> DEFINE kept(q) == t.records[q] # NoRecord
                          /\ (q \notin old \/ t.records[q].state # "COMPLETED")
           gone == {q \in Seqs : t.records[q] # NoRecord /\ \A p \in Seqs : p <= q => ~kept(p)}
           ends == {t.stale} \cup {q + 1 : q \in gone}
           u == GCCompletionRecords(t, old)
<1>1. /\ t.stale \in Nat /\ Seqs \subseteq Nat
      /\ \A q \in Seqs : t.records[q] \in {NoRecord} \cup Records
  BY AttemptsAreNat DEF Trackers
<1>2. \A q \in gone : q \in old /\ t.records[q].state = "COMPLETED"
  BY <1>1
<1>3. u = [stale |-> Max(ends), records |-> [q \in Seqs |-> IF q \in gone THEN NoRecord ELSE t.records[q]]]
  BY DEF GCCompletionRecords
<1>4. Max(ends) \in ends /\ \A y \in ends : Max(ends) >= y
  <2> DEFINE c == t.stale + b + 1
  <2>1. c \in Nat
    BY <1>1
  <2>2. ASSUME NEW x \in ends PROVE x \in Nat /\ x <= c
    <3>1. CASE x = t.stale
      BY <1>1, <3>1
    <3>2. CASE x # t.stale
      <4>1. PICK q \in gone : x = q + 1
        BY <3>2
      <4>2. q \in Nat /\ q <= b
        BY <1>1, <1>2
      <4> QED BY <1>1, <4>1, <4>2
    <3> QED BY <3>1, <3>2
  <2>3. t.stale \in ends
    OBVIOUS
  <2> HIDE DEF ends, c
  <2> QED BY <2>1, <2>2, <2>3, MaxIs
<1>5. /\ u.stale \in Nat /\ u.stale >= t.stale /\ \A q \in gone : u.stale >= q + 1
      /\ u.stale = t.stale \/ \E p \in gone : u.stale = p + 1
  <2>1. u.stale \in ends /\ \A y \in ends : u.stale >= y
    BY <1>3, <1>4
  <2>2. t.stale \in ends /\ \A q \in gone : q + 1 \in ends
    OBVIOUS
  <2>3. \A q \in gone : q + 1 \in Nat
    BY <1>1
  <2>4. u.stale = t.stale \/ \E p \in gone : u.stale = p + 1
    BY <2>1
  <2> HIDE DEF ends, gone, u
  <2> QED BY <1>1, <2>1, <2>2, <2>3, <2>4
<1>6. \A q \in Seqs : u.records[q] = IF q \in gone THEN NoRecord ELSE t.records[q]
  BY <1>3
<1>7. u \in Trackers
  <2>1. u.records \in [Seqs -> {NoRecord} \cup Records]
    BY <1>1, <1>3
  <2> QED BY <1>3, <1>5, <2>1 DEF Trackers
<1>8. TrackerOK(u)
  <2> SUFFICES ASSUME NEW q \in Seqs, u.records[q] # NoRecord
               PROVE  u.stale # 0 /\ u.stale <= q
    BY DEF TrackerOK
  <2>1. q \notin gone /\ t.records[q] # NoRecord /\ t.stale # 0 /\ t.stale <= q
    BY <1>6 DEF TrackerOK
  <2>2. PICK k \in Seqs : k <= q /\ kept(k)
    BY <2>1
  <2>3. \A p \in gone : p + 1 <= q
    <3> SUFFICES ASSUME NEW p \in gone PROVE p + 1 <= q
      OBVIOUS
    <3>1. p < k
      BY <1>1, <2>2
    <3> QED BY <1>1, <2>2, <3>1
  <2> HIDE DEF gone, u, kept
  <2> QED BY <1>1, <1>5, <2>1, <2>3
<1>9. ASSUME NEW q \in Seqs PROVE Survives(t, u, q) /\ (q \notin old => u.records[q] = t.records[q])
  <2>1. q \in gone => u.stale > q
    BY <1>1, <1>5
  <2> HIDE DEF gone, u
  <2> QED BY <1>2, <1>6, <2>1 DEF Survives
<1> HIDE DEF gone
<1> QED BY <1>2, <1>5, <1>7, <1>8, <1>9 DEF Collects

InProgress(no, rpcs) ==
    [state |-> "IN_PROGRESS", driver |-> no, result |-> 0, ongoing |-> rpcs]

\* What TrackRpcUnlocked returns as x, with the RPCs that it adds for the call.
TracksFrom(t, id, own, attached, x) ==
    /\ x.tracker \in Trackers /\ TrackerOK(x.tracker) /\ x.tracker.stale >= t.stale
    /\ \A q \in Seqs : q # id.seq => Survives(t, x.tracker, q)
    /\ \/ /\ x.state = "STALE" /\ x.tracker.stale > id.seq
          /\ x.tracker.records[id.seq] = t.records[id.seq]
       \/ /\ x.state = "NEW" /\ t.records[id.seq] = NoRecord /\ ~(t.stale > id.seq)
          /\ x.tracker.records[id.seq] = InProgress(id.no, own)
       \/ /\ x.state = "COMPLETED" /\ t.records[id.seq].state = "COMPLETED"
          /\ x.tracker.records[id.seq] = t.records[id.seq]
       \/ /\ x.state = "IN_PROGRESS" /\ t.records[id.seq].state = "IN_PROGRESS"
          /\ x.tracker.records[id.seq] =
                [t.records[id.seq] EXCEPT !.ongoing = @ \cup attached]

OwnRpcs(id, call) == IF call = 0 THEN {} ELSE {OngoingRpc(id.no, call)}

AttachedRpcs(call) == IF call = 0 THEN {} ELSE {OngoingRpc(NO_HANDLER, call)}

LEMMA TrackedIs ==
    ASSUME NEW t \in Trackers, TrackerOK(t), NEW id \in RequestIds, id.first <= id.seq,
           NEW call \in Attempts \cup {0}
    PROVE  TracksFrom(t, id, OwnRpcs(id, call), AttachedRpcs(call), Tracked(t, id, call))
<1> DEFINE c == IF t.stale = 0 THEN [t EXCEPT !.stale = id.first] ELSE t
           old == {q \in Seqs : q < id.first}
           g == GCCompletionRecords(c, old)
           r == g.records[id.seq]
           x == Tracked(t, id, call)
<1>1. /\ id.seq \in Seqs /\ id.seq \in Nat /\ id.first \in Seqs /\ id.first \in Nat \ {0}
      /\ id.no \in Attempts /\ Seqs \subseteq Nat /\ t.stale \in Nat
      /\ \A q \in Seqs : t.records[q] \in {NoRecord} \cup Records
  BY AttemptsAreNat DEF RequestIds, Trackers
<1>2. /\ c.stale = (IF t.stale = 0 THEN id.first ELSE t.stale) /\ c.records = t.records
      /\ c \in Trackers
  BY <1>1 DEF Trackers
<1>3. c.stale >= t.stale /\ c.stale \in Nat /\ TrackerOK(c)
  BY <1>1, <1>2 DEF TrackerOK
<1>4. Collects(c, old, g)
  <2>1. old \in SUBSET Seqs /\ \A q \in old : q <= id.first
    BY <1>1
  <2> HIDE DEF c, old
  <2> QED BY <1>1, <1>2, <1>3, <2>1, CollectionIs
<1>5. r = t.records[id.seq] /\ (c.stale <= id.seq => g.stale <= id.seq)
  <2>1. id.seq \notin old /\ \A p \in old : p + 1 <= id.seq
    BY <1>1
  <2> HIDE DEF c, old, g
  <2> QED BY <1>1, <1>2, <1>3, <1>4, <2>1 DEF Collects
<1>6. x = CASE id.seq < c.stale -> [state |-> "STALE", tracker |-> c]
          [] id.seq >= c.stale /\ r = NoRecord ->
                [state |-> "NEW",
                 tracker |-> WithRecord(g, id.seq, InProgress(id.no, OwnRpcs(id, call)))]
          [] id.seq >= c.stale /\ r.state = "COMPLETED" ->
                [state |-> "COMPLETED", tracker |-> g]
          [] OTHER ->
                [state |-> "IN_PROGRESS",
                 tracker |-> [g EXCEPT !.records[id.seq].ongoing = @ \cup AttachedRpcs(call)]]
  BY DEF Tracked, InProgress, OwnRpcs, AttachedRpcs
<1>7. \A q \in Seqs : Survives(t, g, q)
  BY <1>2, <1>4 DEF Collects, Survives
<1>8. g \in Trackers /\ TrackerOK(g) /\ g.stale >= t.stale /\ g.stale \in Nat
  <2> HIDE DEF c, old, g
  <2> QED BY <1>1, <1>3, <1>4 DEF Collects, Trackers
<1> HIDE DEF c, g, old, x
<1>9. CASE id.seq < c.stale
  <2>1. x = [state |-> "STALE", tracker |-> c]
    BY <1>1, <1>3, <1>6, <1>9
  <2>2. \A q \in Seqs : Survives(t, c, q)
    BY <1>2 DEF Survives
  <2> QED BY <1>1, <1>2, <1>3, <1>9, <2>1, <2>2 DEF TracksFrom, x
<1>10. CASE id.seq >= c.stale /\ r = NoRecord
  <2> DEFINE rec == InProgress(id.no, OwnRpcs(id, call))
             u == WithRecord(g, id.seq, rec)
  <2>1. x = [state |-> "NEW", tracker |-> u]
    BY <1>1, <1>3, <1>6, <1>10, RecordTypes
  <2>2. rec \in Records
    BY <1>1 DEF InProgress, OwnRpcs, OngoingRpc, Records, CompletionRecords
  <2>3. /\ u.stale = g.stale /\ u.records = [g.records EXCEPT ![id.seq] = rec]
        /\ u \in Trackers
    BY <1>1, <1>8, <2>2 DEF WithRecord, Trackers
  <2>4. \A q \in Seqs : u.records[q] = IF q = id.seq THEN rec ELSE g.records[q]
    BY <1>1, <1>8, <2>3 DEF Trackers
  <2>5. g.stale <= id.seq /\ g.stale # 0
    BY <1>1, <1>2, <1>3, <1>5, <1>10, <1>4 DEF Collects
  <2> HIDE DEF u, rec
  <2>6. TrackerOK(u)
    BY <1>8, <2>3, <2>4, <2>5 DEF TrackerOK
  <2>7. \A q \in Seqs : q # id.seq => Survives(t, u, q)
    BY <1>7, <2>3, <2>4 DEF Survives
  <2>8. t.records[id.seq] = NoRecord /\ ~(t.stale > id.seq) /\ u.records[id.seq] = rec
    BY <1>1, <1>3, <1>5, <1>10, <2>4
  <2>9. x.state = "NEW" /\ x.tracker = u
    BY <2>1
  <2> HIDE DEF r
  <2> QED BY <1>8, <2>3, <2>6, <2>7, <2>8, <2>9 DEF TracksFrom, x, rec
<1>11. CASE id.seq >= c.stale /\ r.state = "COMPLETED"
  <2>1. x = [state |-> "COMPLETED", tracker |-> g]
    BY <1>1, <1>3, <1>6, <1>11, RecordTypes
  <2>2. t.records[id.seq].state = "COMPLETED" /\ g.records[id.seq] = t.records[id.seq]
    BY <1>5, <1>11
  <2> QED BY <1>7, <1>8, <2>1, <2>2 DEF TracksFrom, x
<1>12. CASE id.seq >= c.stale /\ r # NoRecord /\ r.state # "COMPLETED"
  <2> DEFINE u == [g EXCEPT !.records[id.seq].ongoing = @ \cup AttachedRpcs(call)]
             rec == [t.records[id.seq] EXCEPT !.ongoing = @ \cup AttachedRpcs(call)]
  <2>1. x = [state |-> "IN_PROGRESS", tracker |-> u]
    BY <1>1, <1>3, <1>6, <1>12
  <2>2. t.records[id.seq] \in Records /\ t.records[id.seq].state = "IN_PROGRESS"
    BY <1>1, <1>5, <1>12, RecordTypes
  <2>3. rec \in Records
    BY <2>2 DEF AttachedRpcs, OngoingRpc, Records, CompletionRecords
  <2>4. /\ u.stale = g.stale /\ u.records = [g.records EXCEPT ![id.seq] = rec]
        /\ u \in Trackers
    BY <1>1, <1>5, <1>8, <2>3 DEF Trackers
  <2>5. \A q \in Seqs : u.records[q] = IF q = id.seq THEN rec ELSE g.records[q]
    BY <1>1, <1>8, <2>4 DEF Trackers
  <2> HIDE DEF u, rec
  <2>6. TrackerOK(u)
    BY <1>5, <1>8, <1>12, <2>4, <2>5 DEF TrackerOK
  <2>7. \A q \in Seqs : q # id.seq => Survives(t, u, q)
    BY <1>7, <2>4, <2>5 DEF Survives
  <2>8. x.state = "IN_PROGRESS" /\ x.tracker = u /\ u.records[id.seq] = rec
    BY <1>1, <2>1, <2>5
  <2> HIDE DEF r
  <2> QED BY <1>8, <2>2, <2>4, <2>6, <2>7, <2>8 DEF TracksFrom, x, rec
<1> QED BY <1>1, <1>3, <1>9, <1>10, <1>11, <1>12

\* What TrackRpcOrChangeDriver returns as x.
DrivesFrom(t, id, x) ==
    /\ x.tracker \in Trackers /\ TrackerOK(x.tracker) /\ x.tracker.stale >= t.stale
    /\ \A q \in Seqs : q # id.seq => Survives(t, x.tracker, q)
    /\ \/ /\ x.state = "STALE" /\ x.tracker.stale > id.seq
          /\ x.tracker.records[id.seq] = t.records[id.seq]
       \/ /\ x.state = "COMPLETED" /\ t.records[id.seq].state = "COMPLETED"
       \/ /\ x.state = "NEW" /\ t.records[id.seq] = NoRecord /\ ~(t.stale > id.seq)
          /\ x.tracker.records[id.seq] = InProgress(id.no, {})
       \/ /\ x.state = "NEW" /\ t.records[id.seq].state = "IN_PROGRESS"
          /\ x.tracker.records[id.seq] =
                [t.records[id.seq] EXCEPT !.driver = id.no,
                                          !.ongoing = @ \cup {OngoingRpc(id.no, 0)}]

LEMMA ChangeDriver ==
    ASSUME NEW r \in Records, NEW no \in Attempts
    PROVE  [r EXCEPT !.driver = no, !.ongoing = @ \cup {OngoingRpc(no, 0)}] \in Records
<1>1. r.ongoing \cup {OngoingRpc(no, 0)}
         \in SUBSET [handler : Attempts \cup {NO_HANDLER}, call : Attempts \cup {0}]
  BY DEF OngoingRpc, Records, CompletionRecords
<1> QED BY <1>1 DEF Records, CompletionRecords

LEMMA TrackRpcOrChangeDriverIs ==
    ASSUME NEW t \in Trackers, TrackerOK(t), NEW id \in RequestIds, id.first <= id.seq
    PROVE  DrivesFrom(t, id, TrackRpcOrChangeDriver(t, id))
<1> DEFINE x == Tracked(t, id, 0)
           y == TrackRpcOrChangeDriver(t, id)
<1>1. TracksFrom(t, id, {}, {}, x)
  BY TrackedIs DEF OwnRpcs, AttachedRpcs
<1>2. /\ id.seq \in Seqs /\ id.no \in Attempts
      /\ \A q \in Seqs : t.records[q] \in {NoRecord} \cup Records
  BY DEF RequestIds, Trackers
<1>3. CASE x.state # "IN_PROGRESS"
  <2>1. y = x
    BY <1>3 DEF TrackRpcOrChangeDriver
  <2> HIDE DEF x, y
  <2> QED BY <1>1, <1>3, <2>1 DEF TracksFrom, DrivesFrom, y
<1>4. CASE x.state = "IN_PROGRESS"
  <2> DEFINE g == x.tracker
             u == WithRecord(g, id.seq,
                             [g.records[id.seq] EXCEPT
                                 !.driver = id.no, !.ongoing = @ \cup {OngoingRpc(id.no, 0)}])
             rec == [t.records[id.seq] EXCEPT !.driver = id.no,
                                              !.ongoing = @ \cup {OngoingRpc(id.no, 0)}]
  <2>1. y = [state |-> "NEW", tracker |-> u]
    BY <1>4 DEF TrackRpcOrChangeDriver
  <2>2. /\ t.records[id.seq].state = "IN_PROGRESS" /\ t.records[id.seq] \in Records
        /\ g \in Trackers /\ TrackerOK(g) /\ g.stale >= t.stale
        /\ g.records[id.seq] = [t.records[id.seq] EXCEPT !.ongoing = @ \cup {}]
    <3> HIDE DEF x
    <3> QED BY <1>1, <1>2, <1>4, RecordTypes DEF TracksFrom
  <2>3. g.records[id.seq] = t.records[id.seq]
    BY <2>2 DEF Records, CompletionRecords
  <2>4. rec \in Records
    <3> HIDE DEF x
    <3> QED BY <1>2, <2>2, ChangeDriver
  <2>5. /\ u.stale = g.stale /\ u.records = [g.records EXCEPT ![id.seq] = rec]
        /\ u \in Trackers
    <3> HIDE DEF x
    <3>1. u = WithRecord(g, id.seq, rec)
      BY <2>3
    <3> HIDE DEF u, rec
    <3> QED BY <1>2, <2>2, <2>4, <3>1 DEF WithRecord, Trackers
  <2>6. \A q \in Seqs : u.records[q] = IF q = id.seq THEN rec ELSE g.records[q]
    <3> HIDE DEF x, u, rec
    <3> QED BY <1>2, <2>2, <2>5 DEF Trackers
  <2>7. TrackerOK(u)
    <3> HIDE DEF x, u, rec
    <3> QED BY <2>2, <2>3, <2>5, <2>6, RecordTypes DEF TrackerOK
  <2>8. \A q \in Seqs : q # id.seq => Survives(t, g, q)
    <3> HIDE DEF x
    <3> QED BY <1>1 DEF TracksFrom
  <2>9. \A q \in Seqs : q # id.seq => Survives(t, u, q)
    <3> HIDE DEF x, u, rec
    <3> QED BY <2>5, <2>6, <2>8 DEF Survives
  <2>10. y.state = "NEW" /\ y.tracker = u /\ u.records[id.seq] = rec
    <3> HIDE DEF x, u, rec
    <3> QED BY <1>2, <2>1, <2>6
  <2> HIDE DEF x, y, u
  <2> QED BY <2>2, <2>5, <2>7, <2>9, <2>10 DEF DrivesFrom, y
<1> QED BY <1>3, <1>4

\* What FailAndRespond makes of t.
FailsFrom(t, id, u) ==
    /\ u \in Trackers /\ TrackerOK(u) /\ u.stale = t.stale
    /\ \A q \in Seqs : q # id.seq => u.records[q] = t.records[q]
    /\ LET r == t.records[id.seq]
       IN  \/ r = NoRecord /\ u.records[id.seq] = NoRecord
           \/ /\ r # NoRecord /\ r.state # "COMPLETED" /\ OthersRpcs(r, id.no) = {}
              /\ u.records[id.seq] = NoRecord
           \/ /\ r # NoRecord /\ (r.state = "COMPLETED" \/ OthersRpcs(r, id.no) # {})
              /\ u.records[id.seq] = [r EXCEPT !.ongoing = OthersRpcs(r, id.no)]

LEMMA WithRecordIs ==
    ASSUME NEW t \in Trackers, NEW q \in Seqs, NEW r \in {NoRecord} \cup Records,
           TrackerOK(t), r # NoRecord => t.records[q] # NoRecord
    PROVE  LET u == WithRecord(t, q, r)
           IN  /\ u \in Trackers /\ TrackerOK(u) /\ u.stale = t.stale /\ u.records[q] = r
               /\ \A p \in Seqs : p # q => u.records[p] = t.records[p]
<1> DEFINE u == WithRecord(t, q, r)
<1>1. u \in Trackers /\ u.stale = t.stale /\ u.records = [t.records EXCEPT ![q] = r]
  BY DEF WithRecord, Trackers
<1>2. \A p \in Seqs : u.records[p] = IF p = q THEN r ELSE t.records[p]
  BY <1>1 DEF Trackers
<1> HIDE DEF u
<1>3. TrackerOK(u)
  BY <1>1, <1>2 DEF TrackerOK
<1> QED BY <1>1, <1>2, <1>3 DEF u

LEMMA FailAndRespondIs ==
    ASSUME NEW t \in Trackers, TrackerOK(t), NEW id \in RequestIds
    PROVE  FailsFrom(t, id, FailAndRespond(t, id))
<1> DEFINE r == t.records[id.seq]
           others == OthersRpcs(r, id.no)
           rec == [r EXCEPT !.ongoing = others]
           u == FailAndRespond(t, id)
<1>1. id.seq \in Seqs /\ r \in {NoRecord} \cup Records
  BY DEF RequestIds, Trackers
<1>2. CASE r = NoRecord
  <2>1. u = t
    BY <1>2 DEF FailAndRespond, IsTracked
  <2> HIDE DEF u
  <2> QED BY <1>2, <2>1 DEF FailsFrom, u
<1>3. CASE r # NoRecord /\ others = {} /\ r.state # "COMPLETED"
  <2>1. u = WithRecord(t, id.seq, NoRecord)
    BY <1>3 DEF FailAndRespond, IsTracked
  <2> HIDE DEF u
  <2> QED BY <1>1, <1>3, <2>1, WithRecordIs DEF FailsFrom, u
<1>4. CASE r # NoRecord /\ (others # {} \/ r.state = "COMPLETED")
  <2>1. u = [t EXCEPT !.records[id.seq].ongoing = others]
    BY <1>4 DEF FailAndRespond, IsTracked
  <2>2. rec \in Records
    BY <1>1, <1>4 DEF OthersRpcs, Records, CompletionRecords
  <2>3. u = WithRecord(t, id.seq, rec)
    BY <1>1, <2>1 DEF WithRecord, Trackers
  <2> HIDE DEF u, rec
  <2>4. FailsFrom(t, id, WithRecord(t, id.seq, rec))
    BY <1>1, <1>4, <2>2, WithRecordIs DEF FailsFrom, rec
  <2> QED BY <2>3, <2>4 DEF u
<1> QED BY <1>2, <1>3, <1>4

\* What RecordCompletionAndRespond makes of t.
CompletesFrom(t, id, at, u) ==
    /\ u \in Trackers /\ TrackerOK(u) /\ u.stale = t.stale
    /\ \A q \in Seqs : q # id.seq => u.records[q] = t.records[q]
    /\ LET r == t.records[id.seq]
       IN  u.records[id.seq] = [r EXCEPT !.state = "COMPLETED", !.result = at,
                                         !.ongoing = OthersRpcs(r, id.no)]

LEMMA RecordCompletionIs ==
    ASSUME NEW t \in Trackers, TrackerOK(t), NEW id \in RequestIds, NEW at \in Nat,
           t.records[id.seq] # NoRecord
    PROVE  CompletesFrom(t, id, at, RecordCompletionAndRespond(t, id, at))
<1> DEFINE r == t.records[id.seq]
           rec == [r EXCEPT !.state = "COMPLETED", !.result = at,
                            !.ongoing = OthersRpcs(r, id.no)]
<1>1. id.seq \in Seqs /\ r \in Records
  BY DEF RequestIds, Trackers
<1>2. rec \in Records
  BY <1>1 DEF OthersRpcs, Records, CompletionRecords
<1>3. RecordCompletionAndRespond(t, id, at) = WithRecord(t, id.seq, rec)
  BY DEF RecordCompletionAndRespond
<1>4. CompletesFrom(t, id, at, WithRecord(t, id.seq, rec))
  <2> DEFINE u == WithRecord(t, id.seq, rec)
  <2> HIDE DEF rec
  <2>1. /\ u \in Trackers /\ TrackerOK(u) /\ u.stale = t.stale /\ u.records[id.seq] = rec
        /\ \A p \in Seqs : p # id.seq => u.records[p] = t.records[p]
    BY <1>1, <1>2, WithRecordIs
  <2> HIDE DEF u
  <2>2. CompletesFrom(t, id, at, u)
    BY <2>1 DEF CompletesFrom, rec
  <2> QED BY <2>2 DEF u
<1> QED BY <1>3, <1>4

(***************************************************************************)
(* What the operations on a tracker keep of Remembers, Attached and Owns,  *)
(* and that only a completion adds a response.                             *)
(***************************************************************************)

\* From t to u the responses stay as they are or are collected.
SameResponses(t, u) ==
    \A q \in Seqs : u.records[q].state = "COMPLETED" =>
        t.records[q].state = "COMPLETED" /\ t.records[q].result = u.records[q].result

LEMMA IdTypes ==
    ASSUME NEW id \in RequestIds
    PROVE  /\ id.seq \in Seqs /\ id.seq \in Nat \ {0} /\ id.no \in Attempts /\ id.no \in Nat \ {0}
           /\ id.first \in Seqs /\ id.no # NO_HANDLER
BY AttemptsAreNat DEF RequestIds, NO_HANDLER

LEMMA TrackerTypes ==
    ASSUME NEW t \in Trackers
    PROVE  t.stale \in Nat /\ \A q \in Seqs : t.records[q] \in {NoRecord} \cup Records
BY DEF Trackers

LEMMA FewerWaiting ==
    ASSUME NEW t, NEW e, NEW W, NEW V \in SUBSET W, Remembers(t, e, W)
    PROVE  Remembers(t, e, V)
BY DEF Remembers

\* What survives keeps its promises.
LEMMA SurvivorsKeep ==
    ASSUME NEW t \in Trackers, NEW u \in Trackers, u.stale >= t.stale,
           NEW e \in RequestIds, Survives(t, u, e.seq), NEW W
    PROVE  /\ Remembers(t, e, W) => Remembers(u, e, W)
           /\ Attached(t, e) => Attached(u, e)
           /\ Owns(t, e) => Owns(u, e)
<1>1. e.seq \in Seqs /\ e.seq \in Nat /\ t.stale \in Nat /\ u.stale \in Nat
  BY IdTypes, TrackerTypes
<1>2. CASE u.records[e.seq] = t.records[e.seq]
  BY <1>1, <1>2 DEF Remembers, Attached, Owns, IsCurrentDriver, IsTracked
<1>3. CASE u.stale > e.seq /\ t.records[e.seq].state = "COMPLETED"
  BY <1>1, <1>3 DEF Remembers, Attached, Owns
<1> QED BY <1>2, <1>3 DEF Survives

\* TrackRpc of the attempt id.
LEMMA TrackKeeps ==
    ASSUME NEW t \in Trackers, NEW id \in RequestIds, NEW x,
           TracksFrom(t, id, OwnRpcs(id, id.no), AttachedRpcs(id.no), x)
    PROVE  /\ \A e \in RequestIds : \A W :
                 Remembers(t, e, W) =>
                     Remembers(x.tracker, e, IF x.state = "NEW" THEN W \cup {id} ELSE W)
           /\ \A a \in RequestIds : Attached(t, a) => Attached(x.tracker, a)
           /\ \A e \in RequestIds : Owns(t, e) => Owns(x.tracker, e)
           /\ x.state = "NEW" => Attached(x.tracker, id)
           /\ SameResponses(t, x.tracker)
<1> DEFINE u == x.tracker
           q == id.seq
<1>1. q \in Seqs /\ q \in Nat /\ t.stale \in Nat /\ u.stale \in Nat /\ u.stale >= t.stale
  BY IdTypes, TrackerTypes DEF TracksFrom
<1>2. u \in Trackers /\ \A p \in Seqs : p # q => Survives(t, u, p)
  BY DEF TracksFrom
<1>3. x.state = "NEW" => Attached(u, id)
  <2> SUFFICES ASSUME x.state = "NEW" PROVE Attached(u, id)
    OBVIOUS
  <2>1. u.records[q] = InProgress(id.no, OwnRpcs(id, id.no))
    BY DEF TracksFrom
  <2>2. u.records[q] # NoRecord /\ OngoingRpc(id.no, id.no) \in u.records[q].ongoing
    BY <2>1, IdTypes DEF InProgress, OwnRpcs, NoRecord
  <2> QED BY <2>2 DEF Attached, OngoingRpc
<1>4. ASSUME NEW e \in RequestIds, NEW W
      PROVE  /\ Remembers(t, e, W) => Remembers(u, e, IF x.state = "NEW" THEN W \cup {id} ELSE W)
             /\ Attached(t, e) => Attached(u, e)
             /\ Owns(t, e) => Owns(u, e)
  <2>1. e.seq \in Seqs
    BY IdTypes
  <2>2. CASE e.seq # q
    <3>1. /\ Remembers(t, e, W) => Remembers(u, e, W)
          /\ Attached(t, e) => Attached(u, e)
          /\ Owns(t, e) => Owns(u, e)
      BY <1>1, <1>2, <2>1, <2>2, SurvivorsKeep
    <3> QED BY <2>2, <3>1 DEF Remembers
  <2>3. CASE e.seq = q /\ x.state = "NEW"
    <3>1. t.records[q] = NoRecord /\ ~(t.stale > q)
      BY <2>3 DEF TracksFrom
    <3> QED BY <2>3, <3>1 DEF Remembers, Attached, Owns, IsCurrentDriver, IsTracked
  <2>4. CASE e.seq = q /\ x.state = "STALE"
    <3>1. u.records[q] = t.records[q]
      BY <2>4 DEF TracksFrom
    <3> QED BY <1>1, <2>4, <3>1 DEF Remembers, Attached, Owns, IsCurrentDriver, IsTracked
  <2>5. CASE e.seq = q /\ x.state = "COMPLETED"
    <3>1. u.records[q] = t.records[q]
      BY <2>5 DEF TracksFrom
    <3> QED BY <1>1, <2>5, <3>1 DEF Remembers, Attached, Owns, IsCurrentDriver, IsTracked
  <2>6. CASE e.seq = q /\ x.state = "IN_PROGRESS"
    <3>1. /\ t.records[q].state = "IN_PROGRESS" /\ t.records[q] \in Records
          /\ u.records[q] = [t.records[q] EXCEPT !.ongoing = @ \cup AttachedRpcs(id.no)]
      BY <1>1, <2>6, TrackerTypes, RecordTypes DEF TracksFrom
    <3>2. /\ u.records[q].state = "IN_PROGRESS" /\ u.records[q].driver = t.records[q].driver
          /\ t.records[q].ongoing \subseteq u.records[q].ongoing /\ u.records[q] # NoRecord
      BY <3>1, RecordTypes DEF Records, CompletionRecords
    <3> QED BY <1>1, <2>6, <3>1, <3>2 DEF Remembers, Attached, Owns, IsCurrentDriver, IsTracked
  <2> QED BY <2>2, <2>3, <2>4, <2>5, <2>6 DEF TracksFrom
<1>5. SameResponses(t, u)
  <2> SUFFICES ASSUME NEW p \in Seqs, u.records[p].state = "COMPLETED"
               PROVE  t.records[p].state = "COMPLETED" /\ t.records[p].result = u.records[p].result
    BY DEF SameResponses
  <2>1. CASE p # q
    BY <1>2, <2>1, RecordTypes DEF Survives
  <2>2. CASE p = q
    <3>1. InProgress(id.no, OwnRpcs(id, id.no)).state = "IN_PROGRESS"
      BY DEF InProgress
    <3>2. t.records[q].state = "IN_PROGRESS" =>
             [t.records[q] EXCEPT !.ongoing = @ \cup AttachedRpcs(id.no)].state # "COMPLETED"
      BY <1>1, TrackerTypes, RecordTypes DEF Records, CompletionRecords
    <3> QED BY <2>2, <3>1, <3>2 DEF TracksFrom
  <2> QED BY <2>1, <2>2
<1> HIDE DEF u
<1> QED BY <1>3, <1>4, <1>5 DEF u

\* TrackRpcOrChangeDriver of the logged attempt id, whose write has no response:
\* the trackers remember it.
LEMMA DriveKeeps ==
    ASSUME NEW t \in Trackers, NEW id \in RequestIds, NEW x, DrivesFrom(t, id, x),
           t.records[id.seq].state # "COMPLETED",
           NEW W, \A a \in W : Attached(t, a)
    PROVE  /\ x.state \in {"NEW", "STALE"}
           /\ \A e \in RequestIds :
                 e.seq # id.seq /\ Remembers(t, e, W) => Remembers(x.tracker, e, W)
           /\ Remembers(x.tracker, id, W)
           /\ \A a \in RequestIds : Attached(t, a) => Attached(x.tracker, a)
           /\ \A e \in RequestIds : e.seq # id.seq /\ Owns(t, e) => Owns(x.tracker, e)
           /\ x.state = "NEW" => Owns(x.tracker, id)
           /\ SameResponses(t, x.tracker)
<1> DEFINE u == x.tracker
           q == id.seq
           added == [t.records[q] EXCEPT !.driver = id.no,
                                         !.ongoing = @ \cup {OngoingRpc(id.no, 0)}]
<1>1. q \in Seqs /\ q \in Nat /\ t.stale \in Nat /\ u.stale \in Nat /\ u.stale >= t.stale
  BY IdTypes, TrackerTypes DEF DrivesFrom
<1>2. u \in Trackers /\ \A p \in Seqs : p # q => Survives(t, u, p)
  BY DEF DrivesFrom
<1>3. ASSUME t.records[q].state = "IN_PROGRESS", u.records[q] = added
      PROVE  /\ u.records[q].state = "IN_PROGRESS" /\ u.records[q].driver = id.no
             /\ u.records[q] # NoRecord
             /\ t.records[q].ongoing \subseteq u.records[q].ongoing
             /\ OngoingRpc(id.no, 0) \in u.records[q].ongoing
  <2>1. t.records[q] \in Records /\ id.no \in Attempts
    BY <1>1, <1>3, TrackerTypes, RecordTypes, IdTypes
  <2>2. added \in Records
    BY <2>1, ChangeDriver
  <2>3. /\ added.state = t.records[q].state /\ added.driver = id.no
        /\ added.ongoing = t.records[q].ongoing \cup {OngoingRpc(id.no, 0)}
    BY <2>1 DEF Records, CompletionRecords
  <2> HIDE DEF added
  <2> QED BY <1>3, <2>2, <2>3, RecordTypes
<1>4. ASSUME u.records[q] = InProgress(id.no, {})
      PROVE  /\ u.records[q].state = "IN_PROGRESS" /\ u.records[q].driver = id.no
             /\ u.records[q] # NoRecord
  BY <1>4 DEF InProgress, NoRecord
<1>5. \/ x.state = "STALE" /\ u.stale > q /\ u.records[q] = t.records[q]
      \/ /\ x.state = "NEW" /\ t.records[q] = NoRecord /\ ~(t.stale > q)
         /\ u.records[q] = InProgress(id.no, {})
      \/ x.state = "NEW" /\ t.records[q].state = "IN_PROGRESS" /\ u.records[q] = added
  BY DEF DrivesFrom
<1> HIDE DEF added
<1>6. Remembers(u, id, W)
  <2>1. CASE u.stale > q
    BY <2>1 DEF Remembers
  <2>2. CASE t.records[q] = NoRecord /\ ~(t.stale > q) /\ u.records[q] = InProgress(id.no, {})
    <3>1. \A a \in W : a.seq # q
      BY <2>2 DEF Attached
    <3> QED BY <1>4, <2>2, <3>1 DEF Remembers
  <2>3. CASE t.records[q].state = "IN_PROGRESS" /\ u.records[q] = added
    BY <1>3, <2>3 DEF Remembers, OngoingRpc
  <2> QED BY <1>5, <2>1, <2>2, <2>3
<1>7. ASSUME NEW e \in RequestIds
      PROVE  /\ e.seq # q /\ Remembers(t, e, W) => Remembers(u, e, W)
             /\ Attached(t, e) => Attached(u, e)
             /\ e.seq # q /\ Owns(t, e) => Owns(u, e)
  <2>1. CASE e.seq # q
    BY <1>1, <1>2, <2>1, SurvivorsKeep, IdTypes
  <2>2. CASE e.seq = q
    BY <1>1, <1>3, <1>5, <2>2 DEF Attached
  <2> QED BY <2>1, <2>2
<1>8. SameResponses(t, u)
  <2> SUFFICES ASSUME NEW p \in Seqs, u.records[p].state = "COMPLETED"
               PROVE  t.records[p].state = "COMPLETED" /\ t.records[p].result = u.records[p].result
    BY DEF SameResponses
  <2>1. CASE p # q
    BY <1>2, <2>1, RecordTypes DEF Survives
  <2>2. CASE p = q
    BY <1>3, <1>4, <1>5, <2>2
  <2> QED BY <2>1, <2>2
<1>9. x.state = "NEW" => Owns(u, id)
  BY <1>3, <1>4, <1>5 DEF Owns, IsCurrentDriver, IsTracked
<1> HIDE DEF u
<1> QED BY <1>5, <1>6, <1>7, <1>8, <1>9 DEF u

\* The same of an attempt that is no longer in the log, which then fails: nobody
\* else drives its write.
LEMMA DriveAndFailKeeps ==
    ASSUME NEW t \in Trackers, NEW id \in RequestIds, NEW x, DrivesFrom(t, id, x),
           t.records[id.seq].state # "COMPLETED"
    PROVE  /\ \A e \in RequestIds : \A W :
                 e.seq # id.seq /\ Remembers(t, e, W) => Remembers(x.tracker, e, W)
           /\ \A a \in RequestIds : Attached(t, a) => Attached(x.tracker, a)
           /\ \A e \in RequestIds : e.seq # id.seq /\ Owns(t, e) => Owns(x.tracker, e)
           /\ SameResponses(t, x.tracker)
<1>1. SameResponses(t, x.tracker) /\ \A a \in RequestIds : Attached(t, a) => Attached(x.tracker, a)
  <2>1. PICK W : W = {}
    OBVIOUS
  <2>2. \A a \in W : Attached(t, a)
    BY <2>1
  <2> QED BY <2>2, DriveKeeps
<1>2. \A p \in Seqs : p # id.seq => Survives(t, x.tracker, p)
  BY DEF DrivesFrom
<1>3. x.tracker \in Trackers /\ x.tracker.stale >= t.stale
  BY DEF DrivesFrom
<1>4. \A e \in RequestIds : \A W :
         e.seq # id.seq => /\ Remembers(t, e, W) => Remembers(x.tracker, e, W)
                           /\ Owns(t, e) => Owns(x.tracker, e)
  BY <1>2, <1>3, SurvivorsKeep, IdTypes
<1> QED BY <1>1, <1>4

\* FailAndRespond of the attempt id: those who wait are still attached. If the
\* attempt was waiting itself, then a logged attempt of its write keeps its record.
LEMMA FailKeeps ==
    ASSUME NEW t \in Trackers, TrackerOK(t), NEW id \in RequestIds, NEW u, FailsFrom(t, id, u)
    PROVE  /\ \A e \in RequestIds : \A W :
                 /\ Remembers(t, e, W)
                 /\ e.seq # id.seq \/ (e.no # id.no /\ id \in W)
                 => /\ Remembers(u, e, W)
                    /\ Owns(t, e) => Owns(u, e)
           /\ \A e \in RequestIds : e.seq # id.seq /\ Owns(t, e) => Owns(u, e)
           /\ \A a \in RequestIds : ~SameAttempt(a, id) /\ Attached(t, a) => Attached(u, a)
           /\ SameResponses(t, u)
<1> DEFINE q == id.seq
           r == t.records[q]
           others == OthersRpcs(r, id.no)
<1>1. q \in Seqs /\ q \in Nat /\ u.stale = t.stale /\ r \in {NoRecord} \cup Records
  BY IdTypes, TrackerTypes DEF FailsFrom
<1>2. \A p \in Seqs : p # q => u.records[p] = t.records[p]
  BY DEF FailsFrom
<1>3. \A no \in Attempts : \A rpc \in r.ongoing :
         no # id.no /\ rpc.handler = no => rpc \in others
  BY AttemptsAreNat DEF OthersRpcs, MustHandleRpc, NO_HANDLER
<1>4. \/ r = NoRecord /\ u.records[q] = NoRecord
      \/ r # NoRecord /\ r.state # "COMPLETED" /\ others = {} /\ u.records[q] = NoRecord
      \/ /\ r # NoRecord /\ u.records[q].state = r.state /\ u.records[q].driver = r.driver
         /\ u.records[q].result = r.result /\ u.records[q].ongoing = others
         /\ u.records[q] # NoRecord
  <2>1. r \in Records => LET z == [r EXCEPT !.ongoing = others]
                         IN  /\ z.state = r.state /\ z.driver = r.driver /\ z # NoRecord
                             /\ z.result = r.result /\ z.ongoing = others
    BY RecordTypes DEF Records, CompletionRecords, NoRecord
  <2> HIDE DEF others
  <2> QED BY <1>1, <2>1 DEF FailsFrom, others
<1> HIDE DEF others
<1>5. ASSUME NEW e \in RequestIds, NEW W, Remembers(t, e, W),
             e.seq # q \/ (e.no # id.no /\ id \in W)
      PROVE  Remembers(u, e, W) /\ (Owns(t, e) => Owns(u, e))
  <2>1. e.seq \in Seqs /\ e.no \in Attempts
    BY IdTypes
  <2>2. CASE e.seq # q
    BY <1>1, <1>2, <1>5, <2>1, <2>2 DEF Remembers, Owns, IsCurrentDriver, IsTracked
  <2>3. CASE e.seq = q /\ t.stale > q
    <3>1. Remembers(u, e, W)
      BY <1>1, <2>3 DEF Remembers
    <3>2. ~Owns(t, e)
      BY <1>1, <2>3, TrackerTypes DEF TrackerOK, Owns, IsCurrentDriver, IsTracked
    <3> QED BY <3>1, <3>2
  <2>4. CASE e.seq = q /\ ~(t.stale > q)
    <3>1. /\ r # NoRecord /\ r.driver = e.no
          /\ r.state = "COMPLETED" \/ \E rpc \in r.ongoing : rpc.handler = e.no
      BY <1>5, <2>4 DEF Remembers
    <3>2. r.state = "COMPLETED" \/ \E rpc \in others : rpc.handler = e.no
      BY <1>3, <1>5, <2>1, <2>4, <3>1
    <3>3. /\ u.records[q] # NoRecord /\ u.records[q].driver = e.no
          /\ u.records[q].state = r.state /\ u.records[q].ongoing = others
      BY <1>4, <3>1, <3>2
    <3> QED BY <1>1, <2>4, <3>1, <3>2, <3>3 DEF Remembers, Owns, IsCurrentDriver, IsTracked
  <2> QED BY <2>2, <2>3, <2>4
<1>6. ASSUME NEW e \in RequestIds, e.seq # q, Owns(t, e) PROVE Owns(u, e)
  BY <1>2, <1>6, IdTypes DEF Owns, IsCurrentDriver, IsTracked
<1>7. ASSUME NEW a \in RequestIds, ~SameAttempt(a, id), Attached(t, a) PROVE Attached(u, a)
  <2>1. a.seq \in Seqs /\ a.no \in Attempts
    BY IdTypes
  <2>2. CASE a.seq # q
    BY <1>1, <1>2, <1>7, <2>1, <2>2 DEF Attached
  <2>3. CASE a.seq = q
    <3>1. a.no # id.no
      BY <1>7, <2>3 DEF SameAttempt
    <3>2. t.stale > q \/ (r # NoRecord /\ \E rpc \in others : rpc.handler = a.no)
      BY <1>3, <1>7, <2>1, <2>3, <3>1 DEF Attached
    <3> QED BY <1>1, <1>4, <2>3, <3>2 DEF Attached
  <2> QED BY <2>2, <2>3
<1>8. SameResponses(t, u)
  <2> SUFFICES ASSUME NEW p \in Seqs, u.records[p].state = "COMPLETED"
               PROVE  t.records[p].state = "COMPLETED" /\ t.records[p].result = u.records[p].result
    BY DEF SameResponses
  <2>1. CASE p # q
    BY <1>2, <2>1
  <2>2. CASE p = q
    BY <1>4, <2>2, RecordTypes
  <2> QED BY <2>1, <2>2
<1> QED BY <1>5, <1>6, <1>7, <1>8

\* RecordCompletionAndRespond of the attempt id, at the index at.
LEMMA CompleteKeeps ==
    ASSUME NEW t \in Trackers, NEW id \in RequestIds, NEW at \in Nat, NEW u,
           t.records[id.seq] # NoRecord, CompletesFrom(t, id, at, u)
    PROVE  /\ \A e \in RequestIds : \A W : Remembers(t, e, W) => Remembers(u, e, W)
           /\ \A e \in RequestIds : e.seq # id.seq /\ Owns(t, e) => Owns(u, e)
           /\ \A a \in RequestIds : ~SameAttempt(a, id) /\ Attached(t, a) => Attached(u, a)
           /\ \A q \in Seqs : u.records[q].state = "COMPLETED" =>
                 \/ q = id.seq /\ u.records[q].result = at
                 \/ t.records[q].state = "COMPLETED" /\ t.records[q].result = u.records[q].result
<1> DEFINE q == id.seq
           r == t.records[q]
           others == OthersRpcs(r, id.no)
<1>1. q \in Seqs /\ q \in Nat /\ u.stale = t.stale /\ r \in Records
  BY IdTypes, TrackerTypes DEF CompletesFrom
<1>2. \A p \in Seqs : p # q => u.records[p] = t.records[p]
  BY DEF CompletesFrom
<1>3. \A no \in Attempts : \A rpc \in r.ongoing :
         no # id.no /\ rpc.handler = no => rpc \in others
  BY AttemptsAreNat DEF OthersRpcs, MustHandleRpc, NO_HANDLER
<1>4. /\ u.records[q].state = "COMPLETED" /\ u.records[q].driver = r.driver
      /\ u.records[q].result = at /\ u.records[q].ongoing = others
      /\ u.records[q] # NoRecord
  <2> DEFINE z == [r EXCEPT !.state = "COMPLETED", !.result = at, !.ongoing = others]
  <2>1. /\ z.state = "COMPLETED" /\ z.driver = r.driver /\ z # NoRecord
        /\ z.result = at /\ z.ongoing = others
    BY <1>1, RecordTypes DEF Records, CompletionRecords, NoRecord
  <2>2. u.records[q] = z
    BY DEF CompletesFrom
  <2> HIDE DEF z
  <2> QED BY <2>1, <2>2
<1> HIDE DEF others
<1>5. ASSUME NEW e \in RequestIds, NEW W, Remembers(t, e, W) PROVE Remembers(u, e, W)
  <2>1. CASE e.seq # q
    BY <1>1, <1>2, <1>5, <2>1, IdTypes DEF Remembers
  <2>2. CASE e.seq = q
    BY <1>1, <1>4, <1>5, <2>2 DEF Remembers
  <2> QED BY <2>1, <2>2
<1>6. ASSUME NEW e \in RequestIds, e.seq # q, Owns(t, e) PROVE Owns(u, e)
  BY <1>2, <1>6, IdTypes DEF Owns, IsCurrentDriver, IsTracked
<1>7. ASSUME NEW a \in RequestIds, ~SameAttempt(a, id), Attached(t, a) PROVE Attached(u, a)
  <2>1. a.seq \in Seqs /\ a.no \in Attempts
    BY IdTypes
  <2>2. CASE a.seq # q
    BY <1>1, <1>2, <1>7, <2>1, <2>2 DEF Attached
  <2>3. CASE a.seq = q
    <3>1. a.no # id.no
      BY <1>7, <2>3 DEF SameAttempt
    <3>2. t.stale > q \/ (\E rpc \in others : rpc.handler = a.no)
      BY <1>3, <1>7, <2>1, <2>3, <3>1 DEF Attached
    <3> QED BY <1>1, <1>4, <2>3, <3>2 DEF Attached
  <2> QED BY <2>2, <2>3
<1> QED BY <1>2, <1>4, <1>5, <1>6, <1>7

\* GCResults.
LEMMA CollectKeeps ==
    ASSUME NEW t \in Trackers, NEW old \in SUBSET Seqs, NEW u, Collects(t, old, u)
    PROVE  /\ \A e \in RequestIds : \A W : Remembers(t, e, W) => Remembers(u, e, W)
           /\ \A e \in RequestIds : Owns(t, e) => Owns(u, e)
           /\ \A a \in RequestIds : Attached(t, a) => Attached(u, a)
           /\ SameResponses(t, u)
<1>1. u \in Trackers /\ u.stale >= t.stale /\ \A q \in Seqs : Survives(t, u, q)
  BY DEF Collects
<1>2. \A e \in RequestIds : e.seq \in Seqs
  BY IdTypes
<1>3. \A e \in RequestIds : \A W :
         /\ Remembers(t, e, W) => Remembers(u, e, W)
         /\ Attached(t, e) => Attached(u, e)
         /\ Owns(t, e) => Owns(u, e)
  BY <1>1, <1>2, SurvivorsKeep
<1>4. SameResponses(t, u)
  BY <1>1, RecordTypes DEF SameResponses, Survives
<1> QED BY <1>3, <1>4

-----------------------------------------------------------------------------
(***************************************************************************)
(* Sequences                                                               *)
(***************************************************************************)

LEMMA SeqIs ==
    ASSUME NEW S, NEW q \in Seq(S)
    PROVE  /\ Len(q) \in Nat /\ DOMAIN q = 1 .. Len(q) /\ \A k \in DOMAIN q : q[k] \in S
           /\ q = <<>> <=> Len(q) = 0
OBVIOUS

LEMMA AppendIs ==
    ASSUME NEW S, NEW q \in Seq(S), NEW x \in S
    PROVE  LET r == Append(q, x)
           IN  /\ r \in Seq(S) /\ Len(r) = Len(q) + 1 /\ DOMAIN r = 1 .. Len(q) + 1
               /\ \A k \in DOMAIN q : k \in DOMAIN r /\ r[k] = q[k]
               /\ r[Len(q) + 1] = x
               /\ \A k \in DOMAIN r : k \in DOMAIN q \/ k = Len(q) + 1
OBVIOUS

LEMMA TailIs ==
    ASSUME NEW S, NEW q \in Seq(S), q # <<>>
    PROVE  LET r == Tail(q)
           IN  /\ r \in Seq(S) /\ Len(r) = Len(q) - 1 /\ Head(q) = q[1] /\ 1 \in DOMAIN q
               /\ \A k \in DOMAIN r : k \in Nat /\ k >= 1 /\ k + 1 \in DOMAIN q /\ r[k] = q[k + 1]
               /\ \A k \in DOMAIN q : k = 1 \/ k - 1 \in DOMAIN r
<1>1. Len(q) \in Nat \ {0} /\ Tail(q) \in Seq(S) /\ Len(Tail(q)) = Len(q) - 1 /\ Head(q) = q[1]
  OBVIOUS
<1>2. DOMAIN Tail(q) = 1 .. Len(q) - 1 /\ DOMAIN q = 1 .. Len(q)
  BY <1>1
<1>3. \A k \in 1 .. Len(q) - 1 : Tail(q)[k] = q[k + 1]
  BY <1>1
<1> QED BY <1>1, <1>2, <1>3

LEMMA PrefixIs ==
    ASSUME NEW S, NEW q \in Seq(S), NEW n \in 0 .. Len(q)
    PROVE  LET r == SubSeq(q, 1, n)
           IN  /\ r \in Seq(S) /\ Len(r) = n /\ DOMAIN r = 1 .. n
               /\ \A k \in 1 .. n : k \in DOMAIN q /\ r[k] = q[k]
OBVIOUS

LEMMA IsPrefixIs ==
    ASSUME NEW S, NEW a \in Seq(S), NEW b \in Seq(S)
    PROVE  IsPrefix(a, b) <=> Extends(b, a)
<1>1. Len(a) \in Nat /\ Len(b) \in Nat /\ DOMAIN a = 1 .. Len(a) /\ DOMAIN b = 1 .. Len(b)
  OBVIOUS
<1>2. SubSeq(a, 1, Len(a)) = a
  OBVIOUS
<1>3. ASSUME Len(a) <= Len(b)
      PROVE  a = SubSeq(b, 1, Len(a)) <=> \A i \in 1 .. Len(a) : b[i] = a[i]
  <2>1. SubSeq(b, 1, Len(a)) = [i \in 1 .. Len(a) |-> b[i]]
    BY <1>1, <1>3
  <2>2. a = [i \in 1 .. Len(a) |-> a[i]]
    BY <1>1
  <2> QED BY <2>1, <2>2
<1> QED BY <1>1, <1>2, <1>3 DEF IsPrefix, Extends

-----------------------------------------------------------------------------
(***************************************************************************)
(* Types                                                                   *)
(***************************************************************************)

LEMMA ServerTypes ==
    ASSUME Types, NEW s \in Servers
    PROVE  /\ log[s] \in Seq(RequestIds) /\ queue[s] \in Seq(Ops) /\ tracker[s] \in Trackers
           /\ arrived[s] \subseteq RequestIds /\ applied[s] \subseteq Nat
           /\ replicating[s] \subseteq [id : RequestIds, at : Nat, tracked : BOOLEAN]
           /\ finished[s] \subseteq [id : RequestIds, at : Nat, ok : BOOLEAN]
           /\ role[s] \in [lead : {"no", "elected", "ready"}, term : Nat]
           /\ replay[s] \in [at : Nat, upto : Nat, tracked : BOOLEAN]
           /\ DOMAIN log[s] = 1 .. Len(log[s]) /\ DOMAIN queue[s] = 1 .. Len(queue[s])
           /\ Len(log[s]) \in Nat /\ Len(queue[s]) \in Nat
BY SeqIs DEF Types

LEMMA OpTypes ==
    ASSUME NEW o \in Ops
    PROVE  /\ o.id \in RequestIds /\ o.kind \in {"LEADER", "FOLLOWER"} /\ o.at \in Nat
           /\ o.failed \in BOOLEAN
BY DEF Ops

LEMMA NewTrackerType == NewTracker \in Trackers /\ TrackerOK(NewTracker)
BY DEF NewTracker, Trackers, TrackerOK

LEMMA InitTypes == Init => Types
<1> SUFFICES ASSUME Init PROVE Types
  OBVIOUS
<1>1. sent \in [Seqs -> 0 .. MaxAttempts] /\ complete \subseteq Seqs
  BY TrackedWritesAssumption DEF Init
<1>2. net \subseteq [id : RequestIds, to : Servers] /\ decided \in Seq(RequestIds)
  BY DEF Init
<1>3. term \in Nat /\ leader \in Servers \cup {Other}
  BY DEF Init
<1>4. role \in [Servers -> [lead : {"no", "elected", "ready"}, term : Nat]]
  BY DEF Init, NotLeader
<1>5. tracker \in [Servers -> Trackers]
  BY NewTrackerType DEF Init
<1>6. /\ log \in [Servers -> Seq(RequestIds)] /\ queue \in [Servers -> Seq(Ops)]
      /\ applied \in [Servers -> SUBSET Nat] /\ durable \in [Servers -> Nat]
      /\ arrived \in [Servers -> SUBSET RequestIds]
  BY DEF Init
<1>7. /\ replicating \in [Servers -> SUBSET [id : RequestIds, at : Nat, tracked : BOOLEAN]]
      /\ finished \in [Servers -> SUBSET [id : RequestIds, at : Nat, ok : BOOLEAN]]
      /\ replay \in [Servers -> [at : Nat, upto : Nat, tracked : BOOLEAN]]
  BY DEF Init, Running
<1> QED BY <1>1, <1>2, <1>3, <1>4, <1>5, <1>6, <1>7 DEF Types

\* What each action uses of the operations on a tracker.
LEMMA TrackerSteps ==
    ASSUME NEW t \in Trackers, TrackerOK(t), NEW id \in RequestIds, id.first <= id.seq
    PROVE  /\ TracksFrom(t, id, OwnRpcs(id, id.no), AttachedRpcs(id.no), TrackRpc(t, id))
           /\ DrivesFrom(t, id, TrackRpcOrChangeDriver(t, id))
           /\ FailsFrom(t, id, FailAndRespond(t, id))
<1>1. id.no \in Attempts
  BY IdTypes
<1> QED BY <1>1, TrackedIs, TrackRpcOrChangeDriverIs, FailAndRespondIs DEF TrackRpc

LEMMA GCResultsIs ==
    ASSUME NEW t \in Trackers, TrackerOK(t), NEW q \in Seqs
    PROVE  Collects(t, {p \in Seqs : p <= q}, GCResults(t, q))
<1> DEFINE old == {p \in Seqs : p <= q}
<1>1. old \in SUBSET Seqs /\ q \in Nat /\ \A p \in old : p <= q
  BY AttemptsAreNat
<1> HIDE DEF old
<1>2. Collects(t, old, GCCompletionRecords(t, old))
  BY <1>1, CollectionIs
<1> QED BY <1>2 DEF GCResults, old

\* The first sequence number of an attempt is not above its own.
LEMMA FirstIncompleteIs ==
    ASSUME Types, NEW q \in Seqs, q \notin complete
    PROVE  FirstIncomplete \in Seqs /\ FirstIncomplete <= q
<1> DEFINE S == Seqs \ complete
<1>1. S \in SUBSET Nat /\ q \in S
  BY AttemptsAreNat
<1> HIDE DEF S
<1>2. Min(S) \in S /\ \A y \in S : Min(S) <= y
  BY <1>1, MinIs
<1> QED BY <1>1, <1>2 DEF FirstIncomplete, S

\* The invariants of server s that the types of an action rest on.
LEMMA LocalTypes ==
    ASSUME IInv, NEW s \in Servers
    PROVE  /\ Types /\ TrackerOK(tracker[s]) /\ LocalInv(s)
           /\ \A k \in DOMAIN queue[s] : queue[s][k] \in Ops
           /\ \A o \in finished[s] : o.ok => tracker[s].records[o.id.seq] # NoRecord
           /\ \A o \in replicating[s] : o.at \in DOMAIN log[s] /\ log[s][o.at] = o.id
<1>1. Types /\ LocalInv(s)
  BY DEF IInv
<1>2. \A k \in DOMAIN queue[s] : queue[s][k] \in Ops
  BY <1>1, ServerTypes, SeqIs
<1> QED BY <1>1, <1>2 DEF LocalInv, TrackOK, OpsOK, Owns, IsCurrentDriver, IsTracked

\* Attempts of a server have a first number that is not above their own.
LEMMA FirstIsLow ==
    ASSUME IInv
    PROVE  /\ \A m \in net : m.id \in RequestIds /\ m.id.first <= m.id.seq
           /\ \A s \in Servers :
                 /\ \A a \in arrived[s] : a \in RequestIds /\ a.first <= a.seq
                 /\ \A k \in DOMAIN queue[s] :
                       queue[s][k].id \in RequestIds /\ queue[s][k].id.first <= queue[s][k].id.seq
                 /\ \A i \in DOMAIN log[s] :
                       log[s][i] \in RequestIds /\ log[s][i].first <= log[s][i].seq
                 /\ \A o \in finished[s] \cup replicating[s] :
                       o.id \in RequestIds /\ o.id.first <= o.id.seq
<1>1. \A a \in Unlogged \cup Logged : a.first <= a.seq
  BY DEF IInv, FreshInv
<1>2. \A m \in net : m.id \in Unlogged
  BY DEF Unlogged
<1>3. ASSUME NEW s \in Servers
      PROVE  /\ \A a \in arrived[s] : a \in Unlogged
             /\ \A k \in DOMAIN queue[s] : queue[s][k].id \in Unlogged \cup Logged
             /\ \A i \in DOMAIN log[s] : log[s][i] \in Logged
             /\ \A o \in finished[s] \cup replicating[s] : o.id \in Logged
  <2>1. Waiting(s) \subseteq Unlogged /\ LoggedOn(s) \subseteq Logged
    BY DEF Unlogged, Logged
  <2>2. \A k \in DOMAIN queue[s] : k \in LeaderOps(s) \/ k \in FollowerOps(s)
    BY LocalTypes, OpTypes DEF LeaderOps, FollowerOps
  <2>3. \A k \in DOMAIN queue[s] : queue[s][k].id \in Waiting(s) \/ queue[s][k].id \in LoggedOn(s)
    BY <2>2 DEF Waiting, LoggedOn
  <2>4. \A a \in arrived[s] : a \in Waiting(s)
    BY DEF Waiting
  <2>5. /\ \A i \in DOMAIN log[s] : log[s][i] \in LoggedOn(s)
        /\ \A o \in finished[s] \cup replicating[s] : o.id \in LoggedOn(s)
    BY DEF LoggedOn
  <2> QED BY <2>1, <2>3, <2>4, <2>5
<1>4. \A m \in net : m.id \in RequestIds
  BY DEF IInv, Types
<1>5. ASSUME NEW s \in Servers
      PROVE  /\ \A a \in arrived[s] : a \in RequestIds
             /\ \A k \in DOMAIN queue[s] : queue[s][k].id \in RequestIds
             /\ \A i \in DOMAIN log[s] : log[s][i] \in RequestIds
             /\ \A o \in finished[s] \cup replicating[s] : o.id \in RequestIds
  BY LocalTypes, ServerTypes, OpTypes, SeqIs
<1> QED BY <1>1, <1>2, <1>3, <1>4, <1>5

-----------------------------------------------------------------------------
(***************************************************************************)
(* What each action does to the variables of one server                    *)
(***************************************************************************)

SameServer(u) ==
    /\ log'[u] = log[u] /\ applied'[u] = applied[u] /\ role'[u] = role[u]
    /\ replay'[u] = replay[u] /\ tracker'[u] = tracker[u] /\ arrived'[u] = arrived[u]
    /\ queue'[u] = queue[u] /\ replicating'[u] = replicating[u] /\ finished'[u] = finished[u]

\* Only the variables of server s may change.
Elsewhere(s) == \A u \in Servers \ {s} : SameServer(u)

SameStore(s) ==
    /\ log'[s] = log[s] /\ applied'[s] = applied[s] /\ role'[s] = role[s]
    /\ replay'[s] = replay[s]

SameRaft == term' = term /\ leader' = leader /\ decided' = decided

LEMMA Update ==
    ASSUME NEW T, NEW f \in [Servers -> T], NEW s \in Servers, NEW e \in T, NEW g,
           g = [f EXCEPT ![s] = e]
    PROVE  g \in [Servers -> T] /\ g[s] = e /\ \A u \in Servers \ {s} : g[u] = f[u]
OBVIOUS

LEMMA FinishInternalStep ==
    ASSUME IInv, NEW q \in Seqs, FinishInternal(q)
    PROVE  Types' /\ SameRaft /\ sent' = sent /\ net' = net /\ \A u \in Servers : SameServer(u)
<1>1. Types
  BY DEF IInv
<1>2. complete' \subseteq Seqs
  BY <1>1 DEF Types, FinishInternal
<1> QED BY <1>1, <1>2 DEF Types, FinishInternal, raft, storage, drivers, SameRaft, SameServer

LEMMA SendRpcStep ==
    ASSUME IInv, NEW q \in Seqs, NEW s \in Servers, SendRpc(q, s)
    PROVE  /\ Types' /\ SameRaft /\ \A u \in Servers : SameServer(u)
           /\ \E id \in RequestIds :
                 /\ id.seq = q /\ id.no = sent[q] + 1 /\ id.first <= q
                 /\ net' = net \cup {[id |-> id, to |-> s]}
           /\ sent'[q] = sent[q] + 1 /\ \A p \in Seqs : sent'[p] >= sent[p]
<1>1. Types
  BY DEF IInv
<1>2. sent[q] \in Nat /\ sent[q] + 1 \in 1 .. MaxAttempts /\ sent[q] + 1 \in 0 .. MaxAttempts
  BY <1>1, TrackedWritesAssumption DEF Types, SendRpc
<1>3. FirstIncomplete \in Seqs /\ FirstIncomplete <= q
  BY <1>1, FirstIncompleteIs DEF SendRpc
<1>4. PICK id \in RequestIds : id = [seq |-> q, no |-> sent[q] + 1, first |-> FirstIncomplete]
  BY <1>2, <1>3 DEF RequestIds, Attempts
<1>5. id.seq = q /\ id.no = sent[q] + 1 /\ id.first <= q
  BY <1>3, <1>4
<1>6. net' = net \cup {[id |-> id, to |-> s]}
  BY <1>4 DEF SendRpc
<1>7. net' \subseteq [id : RequestIds, to : Servers]
  BY <1>1, <1>6 DEF Types
<1>8. /\ sent \in [Seqs -> 0 .. MaxAttempts] /\ sent' = [sent EXCEPT ![q] = sent[q] + 1]
  BY <1>1 DEF Types, SendRpc
<1>9. /\ sent' \in [Seqs -> 0 .. MaxAttempts] /\ sent'[q] = sent[q] + 1
      /\ \A p \in Seqs : p # q => sent'[p] = sent[p]
  BY <1>2, <1>8
<1>10. \A p \in Seqs : sent'[p] >= sent[p]
  <2> SUFFICES ASSUME NEW p \in Seqs PROVE sent'[p] >= sent[p]
    OBVIOUS
  <2>1. sent[p] \in Nat
    BY <1>8
  <2> QED BY <1>2, <1>9, <2>1
<1>11. /\ complete' = complete /\ SameRaft /\ role' = role /\ storage' = storage
       /\ tracker' = tracker /\ drivers' = drivers /\ replay' = replay
  BY DEF SendRpc, raft, SameRaft
<1>12. Types' /\ \A u \in Servers : SameServer(u)
  BY <1>1, <1>7, <1>9, <1>11 DEF Types, SameRaft, storage, drivers, SameServer
<1> QED BY <1>5, <1>6, <1>9, <1>10, <1>11, <1>12

LEMMA HandleStep ==
    ASSUME IInv, NEW m \in net, Handle(m), NEW s, s = m.to
    PROVE  /\ s \in Servers /\ m.id \in RequestIds
           /\ Types' /\ SameRaft /\ Elsewhere(s) /\ SameStore(s)
           /\ sent' = sent /\ net' = net \ {m}
           /\ \E x : /\ TracksFrom(tracker[s], m.id, OwnRpcs(m.id, m.id.no), AttachedRpcs(m.id.no), x)
                     /\ tracker'[s] = x.tracker
                     /\ arrived'[s] = IF x.state = "NEW" THEN arrived[s] \cup {m.id} ELSE arrived[s]
           /\ queue'[s] = queue[s] /\ replicating'[s] = replicating[s] /\ finished'[s] = finished[s]
<1>1. Types
  BY DEF IInv
<1>2. s \in Servers /\ m.id \in RequestIds
  BY <1>1 DEF Types
<1>3. tracker[s] \in Trackers /\ TrackerOK(tracker[s]) /\ m.id.first <= m.id.seq
  BY <1>1, <1>2, LocalTypes, ServerTypes, FirstIsLow
<1>4. PICK x : x = TrackRpc(tracker[s], m.id)
  OBVIOUS
<1>5. TracksFrom(tracker[s], m.id, OwnRpcs(m.id, m.id.no), AttachedRpcs(m.id.no), x)
  BY <1>2, <1>3, <1>4, TrackerSteps
<1>6. x.tracker \in Trackers
  BY <1>5 DEF TracksFrom
<1>7. /\ net' = net \ {m} /\ tracker' = [tracker EXCEPT ![s] = x.tracker]
      /\ arrived' = IF x.state = "NEW" THEN [arrived EXCEPT ![s] = @ \cup {m.id}] ELSE arrived
      /\ sent' = sent /\ complete' = complete /\ SameRaft /\ role' = role /\ storage' = storage
      /\ queue' = queue /\ replicating' = replicating /\ finished' = finished /\ replay' = replay
  BY <1>4 DEF Handle, raft, SameRaft
<1>8. /\ tracker' \in [Servers -> Trackers] /\ tracker'[s] = x.tracker
      /\ \A u \in Servers \ {s} : tracker'[u] = tracker[u]
  BY <1>1, <1>2, <1>6, <1>7, Update DEF Types
<1>9. PICK b \in SUBSET RequestIds :
         /\ b = IF x.state = "NEW" THEN arrived[s] \cup {m.id} ELSE arrived[s]
         /\ arrived' = [arrived EXCEPT ![s] = b]
  <2>1. arrived[s] \in SUBSET RequestIds /\ arrived = [arrived EXCEPT ![s] = arrived[s]]
    BY <1>1, <1>2 DEF Types
  <2> QED BY <1>2, <1>7, <2>1
<1>10. /\ arrived' \in [Servers -> SUBSET RequestIds] /\ arrived'[s] = b
       /\ \A u \in Servers \ {s} : arrived'[u] = arrived[u]
  BY <1>1, <1>2, <1>9, Update DEF Types
<1>11. Types'
  BY <1>1, <1>7, <1>8, <1>10 DEF Types, SameRaft, storage
<1>12. Elsewhere(s) /\ SameStore(s)
  BY <1>2, <1>7, <1>8, <1>10 DEF Elsewhere, SameServer, SameStore, storage
<1> QED BY <1>2, <1>5, <1>7, <1>8, <1>9, <1>10, <1>11, <1>12

SameClient == sent' = sent /\ complete' = complete /\ net' = net

LEMMA ExecuteAsyncStep ==
    ASSUME IInv, NEW s \in Servers, NEW id \in arrived[s], ExecuteAsync(s, id)
    PROVE  /\ Types' /\ SameRaft /\ Elsewhere(s) /\ SameStore(s) /\ SameClient
           /\ id \in RequestIds /\ arrived'[s] = arrived[s] \ {id}
           /\ replicating'[s] = replicating[s] /\ finished'[s] = finished[s]
           /\ \/ /\ IsRunning(s) /\ role[s].lead = "ready" /\ tracker'[s] = tracker[s]
                 /\ \E o \in Ops : /\ o.id = id /\ o.kind = "LEADER" /\ o.at = role[s].term
                                   /\ queue'[s] = Append(queue[s], o)
              \/ queue'[s] = queue[s] /\ FailsFrom(tracker[s], id, tracker'[s])
<1>1. Types
  BY DEF IInv
<1>2. id \in RequestIds
  BY <1>1, ServerTypes
<1>3. tracker[s] \in Trackers /\ TrackerOK(tracker[s]) /\ id.first <= id.seq
  BY <1>1, LocalTypes, ServerTypes, FirstIsLow
<1>4. /\ arrived' = [arrived EXCEPT ![s] = arrived[s] \ {id}]
      /\ SameClient /\ SameRaft /\ role' = role /\ storage' = storage
      /\ replicating' = replicating /\ finished' = finished /\ replay' = replay
  BY DEF ExecuteAsync, client, raft, SameClient, SameRaft
<1>5. /\ arrived' \in [Servers -> SUBSET RequestIds] /\ arrived'[s] = arrived[s] \ {id}
      /\ \A u \in Servers \ {s} : arrived'[u] = arrived[u]
  BY <1>1, <1>4 DEF Types
<1>6. CASE IsRunning(s) /\ role[s].lead = "ready"
  <2>1. PICK o \in Ops : /\ o.id = id /\ o.kind = "LEADER" /\ o.at = role[s].term
                         /\ queue' = [queue EXCEPT ![s] = Append(queue[s], o)]
    <3> DEFINE o == [id |-> id, kind |-> "LEADER", at |-> role[s].term, failed |-> FALSE]
    <3>1. o \in Ops
      BY <1>1, <1>2, ServerTypes DEF Ops
    <3>2. queue' = [queue EXCEPT ![s] = Append(queue[s], o)]
      BY <1>6 DEF ExecuteAsync
    <3> QED BY <3>1, <3>2
  <2>2. Append(queue[s], o) \in Seq(Ops) /\ tracker' = tracker
    BY <1>1, <1>6, ServerTypes, AppendIs DEF ExecuteAsync
  <2>3. /\ queue' \in [Servers -> Seq(Ops)] /\ queue'[s] = Append(queue[s], o)
        /\ \A u \in Servers \ {s} : queue'[u] = queue[u]
    BY <1>1, <2>1, <2>2, Update DEF Types
  <2>4. Types'
    BY <1>1, <1>4, <1>5, <2>2, <2>3 DEF Types, SameClient, SameRaft, storage
  <2>5. Elsewhere(s) /\ SameStore(s)
    BY <1>4, <1>5, <2>2, <2>3 DEF Elsewhere, SameServer, SameStore, storage
  <2> QED BY <1>2, <1>4, <1>5, <1>6, <2>1, <2>2, <2>3, <2>4, <2>5
<1>7. CASE ~(IsRunning(s) /\ role[s].lead = "ready")
  <2>1. PICK t : t = FailAndRespond(tracker[s], id)
    OBVIOUS
  <2>2. tracker' = [tracker EXCEPT ![s] = t] /\ queue' = queue
    BY <1>7, <2>1 DEF ExecuteAsync
  <2>3. FailsFrom(tracker[s], id, t) /\ t \in Trackers
    BY <1>2, <1>3, <2>1, TrackerSteps DEF FailsFrom
  <2>4. /\ tracker' \in [Servers -> Trackers] /\ tracker'[s] = t
        /\ \A u \in Servers \ {s} : tracker'[u] = tracker[u]
    BY <1>1, <2>2, <2>3, Update DEF Types
  <2>5. Types'
    BY <1>1, <1>4, <1>5, <2>2, <2>4 DEF Types, SameClient, SameRaft, storage
  <2>6. Elsewhere(s) /\ SameStore(s)
    BY <1>4, <1>5, <2>2, <2>4 DEF Elsewhere, SameServer, SameStore, storage
  <2> QED BY <1>2, <1>4, <1>5, <2>2, <2>3, <2>4, <2>5, <2>6
<1> QED BY <1>6, <1>7

\* The head of the prepare queue of s is the op o.
IsHead(s, o) == 1 \in DOMAIN queue[s] /\ o = queue[s][1] /\ queue'[s] = Tail(queue[s])

LEMMA HeadStep ==
    ASSUME IInv, NEW s \in Servers, NEW o, queue[s] # <<>>, o = Head(queue[s]),
           queue' = [queue EXCEPT ![s] = Tail(@)]
    PROVE  /\ IsHead(s, o) /\ queue' \in [Servers -> Seq(Ops)]
           /\ \A u \in Servers \ {s} : queue'[u] = queue[u]
           /\ o.id \in RequestIds /\ o.id.first <= o.id.seq /\ o.at \in Nat /\ o \in Ops
           /\ tracker[s] \in Trackers /\ TrackerOK(tracker[s])
<1>1. Types
  BY DEF IInv
<1>2. Tail(queue[s]) \in Seq(Ops) /\ 1 \in DOMAIN queue[s] /\ o = queue[s][1]
  BY <1>1, ServerTypes, TailIs
<1>3. o \in Ops
  BY <1>2, LocalTypes
<1>4. /\ queue' \in [Servers -> Seq(Ops)] /\ queue'[s] = Tail(queue[s])
      /\ \A u \in Servers \ {s} : queue'[u] = queue[u]
  BY <1>1, <1>2, Update DEF Types
<1>5. o.id \in RequestIds /\ o.at \in Nat /\ o.id.first <= o.id.seq
  BY <1>2, <1>3, OpTypes, FirstIsLow
<1>6. tracker[s] \in Trackers /\ TrackerOK(tracker[s])
  BY <1>1, ServerTypes, LocalTypes
<1> QED BY <1>2, <1>3, <1>4, <1>5, <1>6 DEF IsHead

\* A leader op leaves the queue without being logged.
LeaderOpFails(s, o) ==
    /\ IsHead(s, o) /\ o.kind = "LEADER" /\ FailsFrom(tracker[s], o.id, tracker'[s])
    /\ SameStore(s) /\ arrived'[s] = arrived[s]
    /\ replicating'[s] = replicating[s] /\ finished'[s] = finished[s]

LEMMA FailStep ==
    ASSUME IInv, NEW s \in Servers, NEW o, queue[s] # <<>>, o = Head(queue[s]), o.kind = "LEADER",
           queue' = [queue EXCEPT ![s] = Tail(@)],
           tracker' = [tracker EXCEPT ![s] = FailAndRespond(@, o.id)],
           SameClient, SameRaft, role' = role, storage' = storage, arrived' = arrived,
           replicating' = replicating, finished' = finished, replay' = replay
    PROVE  Types' /\ Elsewhere(s) /\ LeaderOpFails(s, o) /\ o.id \in RequestIds
<1>1. Types
  BY DEF IInv
<1>2. /\ IsHead(s, o) /\ queue' \in [Servers -> Seq(Ops)]
      /\ \A u \in Servers \ {s} : queue'[u] = queue[u]
      /\ o.id \in RequestIds /\ o.id.first <= o.id.seq
      /\ tracker[s] \in Trackers /\ TrackerOK(tracker[s])
  BY HeadStep
<1>3. PICK t : t = FailAndRespond(tracker[s], o.id)
  OBVIOUS
<1>4. FailsFrom(tracker[s], o.id, t) /\ t \in Trackers
  <2>1. FailsFrom(tracker[s], o.id, t)
    BY <1>2, <1>3, FailAndRespondIs
  <2> QED BY <2>1 DEF FailsFrom
<1>5. /\ tracker' \in [Servers -> Trackers] /\ tracker'[s] = t
      /\ \A u \in Servers \ {s} : tracker'[u] = tracker[u]
  BY <1>1, <1>3, <1>4, Update DEF Types
<1>6. Types'
  BY <1>1, <1>2, <1>5 DEF Types, SameClient, SameRaft, storage
<1>7. Elsewhere(s) /\ SameStore(s)
  BY <1>2, <1>5 DEF Elsewhere, SameServer, SameStore, storage
<1> QED BY <1>2, <1>4, <1>5, <1>6, <1>7 DEF LeaderOpFails

LEMMA PrepareTimedOutStep ==
    ASSUME IInv, NEW s \in Servers, NEW o, PrepareTimedOut(s, o)
    PROVE  /\ Types' /\ SameRaft /\ Elsewhere(s) /\ SameClient
           /\ LeaderOpFails(s, o) /\ o.id \in RequestIds
<1>1. /\ queue[s] # <<>> /\ o = Head(queue[s]) /\ o.kind = "LEADER"
      /\ queue' = [queue EXCEPT ![s] = Tail(@)]
      /\ tracker' = [tracker EXCEPT ![s] = FailAndRespond(@, o.id)]
      /\ SameClient /\ SameRaft /\ role' = role /\ storage' = storage /\ arrived' = arrived
      /\ replicating' = replicating /\ finished' = finished /\ replay' = replay
  BY DEF PrepareTimedOut, client, raft, SameClient, SameRaft
<1> QED BY <1>1, FailStep

\* A leader op is logged.
LeaderOpLogged(s, o) ==
    /\ IsHead(s, o) /\ o.kind = "LEADER" /\ IsCurrentDriver(tracker[s], o.id)
    /\ role[s].lead = "ready" /\ role[s].term = o.at
    /\ log'[s] = Append(log[s], o.id)
    /\ \E p : /\ p.id = o.id /\ p.at = Len(log[s]) + 1 /\ p.tracked = TRUE
              /\ replicating'[s] = replicating[s] \cup {p}
    /\ applied'[s] = applied[s] /\ role'[s] = role[s] /\ replay'[s] = replay[s]
    /\ tracker'[s] = tracker[s] /\ arrived'[s] = arrived[s] /\ finished'[s] = finished[s]

LEMMA PrepareLeaderOpStep ==
    ASSUME IInv, NEW s \in Servers, NEW o, PrepareLeaderOp(s, o)
    PROVE  /\ Types' /\ SameRaft /\ Elsewhere(s) /\ SameClient /\ o.id \in RequestIds
           /\ LeaderOpFails(s, o) \/ LeaderOpLogged(s, o)
<1> DEFINE c == StillDriver(s, o) /\ role[s] = [lead |-> "ready", term |-> o.at]
           p == [id |-> o.id, at |-> Len(log[s]) + 1, tracked |-> TRUE]
<1>1. Types
  BY DEF IInv
<1>2. /\ queue[s] # <<>> /\ o = Head(queue[s]) /\ o.kind = "LEADER"
      /\ queue' = [queue EXCEPT ![s] = Tail(@)]
      /\ SameClient /\ SameRaft /\ role' = role /\ applied' = applied /\ durable' = durable
      /\ arrived' = arrived /\ finished' = finished /\ replay' = replay
  BY DEF PrepareLeaderOp, Prepared, client, raft, SameClient, SameRaft
<1>3. /\ c => /\ log' = [log EXCEPT ![s] = Append(log[s], o.id)]
              /\ replicating' = [replicating EXCEPT ![s] = replicating[s] \cup {p}]
              /\ tracker' = tracker
      /\ ~c => /\ tracker' = [tracker EXCEPT ![s] = FailAndRespond(@, o.id)]
               /\ log' = log /\ replicating' = replicating
  BY DEF PrepareLeaderOp
<1>4. CASE c
  <2>1. /\ IsHead(s, o) /\ queue' \in [Servers -> Seq(Ops)]
        /\ \A u \in Servers \ {s} : queue'[u] = queue[u]
        /\ o.id \in RequestIds
    BY <1>2, HeadStep
  <2>2. IsCurrentDriver(tracker[s], o.id) /\ role[s].lead = "ready" /\ role[s].term = o.at
    BY <1>4 DEF StillDriver
  <2>3. Append(log[s], o.id) \in Seq(RequestIds) /\ Len(log[s]) + 1 \in Nat
    BY <1>1, <2>1, ServerTypes, AppendIs
  <2>4. p \in [id : RequestIds, at : Nat, tracked : BOOLEAN]
    BY <2>1, <2>3
  <2>5. p.id = o.id /\ p.at = Len(log[s]) + 1 /\ p.tracked = TRUE
    OBVIOUS
  <2> HIDE DEF p, c
  <2>6. /\ log' \in [Servers -> Seq(RequestIds)] /\ log'[s] = Append(log[s], o.id)
        /\ \A u \in Servers \ {s} : log'[u] = log[u]
    <3>1. log \in [Servers -> Seq(RequestIds)] /\ log' = [log EXCEPT ![s] = Append(log[s], o.id)]
      BY <1>1, <1>3, <1>4 DEF Types
    <3> QED BY <2>3, <3>1
  <2>7. replicating[s] \cup {p} \in SUBSET [id : RequestIds, at : Nat, tracked : BOOLEAN]
    BY <1>1, <2>4, ServerTypes
  <2>8. /\ replicating' \in [Servers -> SUBSET [id : RequestIds, at : Nat, tracked : BOOLEAN]]
        /\ replicating'[s] = replicating[s] \cup {p}
        /\ \A u \in Servers \ {s} : replicating'[u] = replicating[u]
    <3>1. /\ replicating \in [Servers -> SUBSET [id : RequestIds, at : Nat, tracked : BOOLEAN]]
          /\ replicating' = [replicating EXCEPT ![s] = replicating[s] \cup {p}]
      BY <1>1, <1>3, <1>4 DEF Types
    <3> QED BY <2>7, <3>1
  <2>9. Types'
    BY <1>1, <1>2, <1>3, <1>4, <2>1, <2>6, <2>8 DEF Types, SameClient, SameRaft
  <2>10. Elsewhere(s)
    BY <1>2, <1>3, <1>4, <2>1, <2>6, <2>8 DEF Elsewhere, SameServer
  <2>11. LeaderOpLogged(s, o)
    BY <1>2, <1>3, <1>4, <2>1, <2>2, <2>5, <2>6, <2>8 DEF LeaderOpLogged
  <2> QED BY <1>2, <2>1, <2>9, <2>10, <2>11
<1>5. CASE ~c
  <2>1. storage' = storage
    BY <1>2, <1>3, <1>5 DEF storage
  <2> HIDE DEF c
  <2> QED BY <1>2, <1>3, <1>5, <2>1, FailStep
<1> QED BY <1>4, <1>5

\* A follower op that was aborted leaves the queue.
FollowerOpFails(s, o, x) ==
    /\ o.failed /\ replicating'[s] = replicating[s]
    /\ tracker'[s] = x.tracker \/ FailsFrom(x.tracker, o.id, tracker'[s])

\* A follower op becomes the driver of its write, or finds that it is stale.
FollowerOpDrives(s, o, x) ==
    /\ ~o.failed /\ tracker'[s] = x.tracker
    /\ \E p : /\ p.id = o.id /\ p.at = o.at /\ p.tracked = (x.state = "NEW")
              /\ replicating'[s] = replicating[s] \cup {p}

LEMMA PrepareFollowerOpStep ==
    ASSUME IInv, NEW s \in Servers, NEW o, PrepareFollowerOp(s, o)
    PROVE  /\ Types' /\ SameRaft /\ Elsewhere(s) /\ SameClient /\ SameStore(s)
           /\ arrived'[s] = arrived[s] /\ finished'[s] = finished[s]
           /\ IsHead(s, o) /\ o.kind = "FOLLOWER" /\ o.id \in RequestIds
           /\ \E x : /\ DrivesFrom(tracker[s], o.id, x)
                     /\ FollowerOpFails(s, o, x) \/ FollowerOpDrives(s, o, x)
<1>1. Types
  BY DEF IInv
<1>2. /\ queue[s] # <<>> /\ o = Head(queue[s]) /\ o.kind = "FOLLOWER"
      /\ queue' = [queue EXCEPT ![s] = Tail(@)]
      /\ SameClient /\ SameRaft /\ role' = role /\ storage' = storage
      /\ arrived' = arrived /\ finished' = finished /\ replay' = replay
  BY DEF PrepareFollowerOp, Prepared, client, raft, SameClient, SameRaft
<1>3. /\ IsHead(s, o) /\ queue' \in [Servers -> Seq(Ops)]
      /\ \A u \in Servers \ {s} : queue'[u] = queue[u]
      /\ o.id \in RequestIds /\ o.id.first <= o.id.seq /\ o.at \in Nat
      /\ tracker[s] \in Trackers /\ TrackerOK(tracker[s])
  BY <1>2, HeadStep
<1>4. PICK x : x = TrackRpcOrChangeDriver(tracker[s], o.id)
  OBVIOUS
<1>5. DrivesFrom(tracker[s], o.id, x)
  BY <1>3, <1>4, TrackerSteps
<1>6. x.tracker \in Trackers /\ TrackerOK(x.tracker)
  BY <1>5 DEF DrivesFrom
<1>7. PICK p : p = [id |-> o.id, at |-> o.at, tracked |-> (x.state = "NEW")]
  OBVIOUS
<1>8. PICK f : f = FailAndRespond(x.tracker, o.id)
  OBVIOUS
<1>9. FailsFrom(x.tracker, o.id, f)
  BY <1>3, <1>6, <1>8, FailAndRespondIs
<1>10. f \in Trackers
  BY <1>9 DEF FailsFrom
<1>11. /\ o.failed => /\ tracker' = [tracker EXCEPT ![s] = IF x.state = "NEW" THEN f ELSE x.tracker]
                      /\ replicating' = replicating
       /\ ~o.failed => /\ tracker' = [tracker EXCEPT ![s] = x.tracker]
                       /\ replicating' = [replicating EXCEPT ![s] = replicating[s] \cup {p}]
  BY <1>4, <1>7, <1>8 DEF PrepareFollowerOp
<1>12. CASE o.failed
  <2>1. PICK t \in Trackers : /\ tracker' = [tracker EXCEPT ![s] = t]
                              /\ t = x.tracker \/ FailsFrom(x.tracker, o.id, t)
    BY <1>6, <1>9, <1>10, <1>11, <1>12
  <2>2. /\ tracker' \in [Servers -> Trackers] /\ tracker'[s] = t
        /\ \A u \in Servers \ {s} : tracker'[u] = tracker[u]
    BY <1>1, <2>1, Update DEF Types
  <2>3. replicating' = replicating
    BY <1>11, <1>12
  <2>4. Types'
    BY <1>1, <1>2, <1>3, <2>2, <2>3 DEF Types, SameClient, SameRaft, storage
  <2>5. Elsewhere(s) /\ SameStore(s)
    BY <1>2, <1>3, <2>2, <2>3 DEF Elsewhere, SameServer, SameStore, storage
  <2>6. FollowerOpFails(s, o, x)
    BY <1>12, <2>1, <2>2, <2>3 DEF FollowerOpFails
  <2> QED BY <1>2, <1>3, <1>5, <2>4, <2>5, <2>6
<1>13. CASE ~o.failed
  <2>1. /\ tracker' \in [Servers -> Trackers] /\ tracker'[s] = x.tracker
        /\ \A u \in Servers \ {s} : tracker'[u] = tracker[u]
    <3>1. tracker \in [Servers -> Trackers] /\ tracker' = [tracker EXCEPT ![s] = x.tracker]
      BY <1>1, <1>11, <1>13 DEF Types
    <3> QED BY <1>6, <3>1
  <2>2. /\ p \in [id : RequestIds, at : Nat, tracked : BOOLEAN]
        /\ p.id = o.id /\ p.at = o.at /\ p.tracked = (x.state = "NEW")
    BY <1>3, <1>7
  <2>3. replicating[s] \cup {p} \in SUBSET [id : RequestIds, at : Nat, tracked : BOOLEAN]
    BY <1>1, <2>2, ServerTypes
  <2>4. /\ replicating' \in [Servers -> SUBSET [id : RequestIds, at : Nat, tracked : BOOLEAN]]
        /\ replicating'[s] = replicating[s] \cup {p}
        /\ \A u \in Servers \ {s} : replicating'[u] = replicating[u]
    <3>1. /\ replicating \in [Servers -> SUBSET [id : RequestIds, at : Nat, tracked : BOOLEAN]]
          /\ replicating' = [replicating EXCEPT ![s] = replicating[s] \cup {p}]
      BY <1>1, <1>11, <1>13 DEF Types
    <3> QED BY <2>3, <3>1
  <2>5. Types'
    BY <1>1, <1>2, <1>3, <2>1, <2>4 DEF Types, SameClient, SameRaft, storage
  <2>6. Elsewhere(s) /\ SameStore(s)
    BY <1>2, <1>3, <2>1, <2>4 DEF Elsewhere, SameServer, SameStore, storage
  <2>7. FollowerOpDrives(s, o, x)
    BY <1>13, <2>1, <2>2, <2>4 DEF FollowerOpDrives
  <2> QED BY <1>2, <1>3, <1>5, <2>5, <2>6, <2>7
<1> QED BY <1>12, <1>13

LEMMA ApplyTaskStep ==
    ASSUME IInv, NEW s \in Servers, NEW o \in replicating[s], ApplyTask(s, o)
    PROVE  /\ Types' /\ SameRaft /\ Elsewhere(s) /\ SameClient
           /\ log'[s] = log[s] /\ role'[s] = role[s] /\ replay'[s] = replay[s]
           /\ tracker'[s] = tracker[s] /\ arrived'[s] = arrived[s] /\ queue'[s] = queue[s]
           /\ o.at \in DOMAIN decided /\ log[s][o.at] = decided[o.at]
           /\ applied'[s] = applied[s] \cup {o.at} /\ replicating'[s] = replicating[s] \ {o}
           /\ \A f \in finished'[s] :
                 f \in finished[s] \/ (o.tracked /\ f.id = o.id /\ f.at = o.at /\ f.ok = TRUE)
<1>1. Types
  BY DEF IInv
<1>2. o.id \in RequestIds /\ o.at \in Nat /\ o.at \in DOMAIN log[s]
  BY <1>1, ServerTypes, LocalTypes
<1>3. PICK f : f = [id |-> o.id, at |-> o.at, ok |-> TRUE]
  OBVIOUS
<1>4. f \in [id : RequestIds, at : Nat, ok : BOOLEAN] /\ f.id = o.id /\ f.at = o.at /\ f.ok = TRUE
  BY <1>2, <1>3
<1>5. /\ o.at <= Len(decided) /\ log[s][o.at] = decided[o.at]
      /\ applied' = [applied EXCEPT ![s] = applied[s] \cup {o.at}]
      /\ replicating' = [replicating EXCEPT ![s] = replicating[s] \ {o}]
      /\ finished' = IF o.tracked THEN [finished EXCEPT ![s] = finished[s] \cup {f}] ELSE finished
      /\ SameClient /\ SameRaft /\ role' = role /\ log' = log /\ durable' = durable
      /\ tracker' = tracker /\ arrived' = arrived /\ queue' = queue /\ replay' = replay
  BY <1>3 DEF ApplyTask, Done, client, raft, SameClient, SameRaft
<1>6. o.at \in DOMAIN decided
  <2>1. Len(decided) \in Nat /\ DOMAIN decided = 1 .. Len(decided) /\ o.at \in 1 .. Len(log[s])
    BY <1>1, <1>2, ServerTypes, SeqIs DEF Types
  <2> QED BY <1>2, <1>5, <2>1
<1>7. applied[s] \cup {o.at} \in SUBSET Nat
  BY <1>1, <1>2, ServerTypes
<1>8. /\ applied' \in [Servers -> SUBSET Nat] /\ applied'[s] = applied[s] \cup {o.at}
      /\ \A u \in Servers \ {s} : applied'[u] = applied[u]
  BY <1>1, <1>5, <1>7, Update DEF Types
<1>9. /\ replicating' \in [Servers -> SUBSET [id : RequestIds, at : Nat, tracked : BOOLEAN]]
      /\ replicating'[s] = replicating[s] \ {o}
      /\ \A u \in Servers \ {s} : replicating'[u] = replicating[u]
  BY <1>1, <1>5 DEF Types
<1>10. PICK F \in SUBSET [id : RequestIds, at : Nat, ok : BOOLEAN] :
          /\ finished' = [finished EXCEPT ![s] = F]
          /\ F = IF o.tracked THEN finished[s] \cup {f} ELSE finished[s]
  <2>1. /\ finished[s] \in SUBSET [id : RequestIds, at : Nat, ok : BOOLEAN]
        /\ finished[s] \cup {f} \in SUBSET [id : RequestIds, at : Nat, ok : BOOLEAN]
    BY <1>1, <1>4, ServerTypes
  <2>2. finished = [finished EXCEPT ![s] = finished[s]]
    BY <1>1 DEF Types
  <2> QED BY <1>5, <2>1, <2>2
<1>11. /\ finished' \in [Servers -> SUBSET [id : RequestIds, at : Nat, ok : BOOLEAN]]
       /\ finished'[s] = F /\ \A u \in Servers \ {s} : finished'[u] = finished[u]
  BY <1>1, <1>10, Update DEF Types
<1>12. Types'
  BY <1>1, <1>5, <1>8, <1>9, <1>11 DEF Types, SameClient, SameRaft
<1>13. Elsewhere(s)
  BY <1>5, <1>8, <1>9, <1>11 DEF Elsewhere, SameServer
<1>14. \A g \in finished'[s] :
          g \in finished[s] \/ (o.tracked /\ g.id = o.id /\ g.at = o.at /\ g.ok = TRUE)
  BY <1>4, <1>10, <1>11
<1> QED BY <1>5, <1>6, <1>8, <1>9, <1>12, <1>13, <1>14

LEMMA OpCompletedStep ==
    ASSUME IInv, NEW s \in Servers, NEW o \in finished[s], OpCompleted(s, o)
    PROVE  /\ Types' /\ SameRaft /\ Elsewhere(s) /\ SameClient /\ SameStore(s)
           /\ arrived'[s] = arrived[s] /\ queue'[s] = queue[s]
           /\ replicating'[s] = replicating[s] /\ finished'[s] = finished[s] \ {o}
           /\ o.id \in RequestIds /\ o.at \in Nat
           /\ IF o.ok THEN CompletesFrom(tracker[s], o.id, o.at, tracker'[s])
              ELSE FailsFrom(tracker[s], o.id, tracker'[s])
<1>1. Types
  BY DEF IInv
<1>2. o.id \in RequestIds /\ o.at \in Nat
  BY <1>1, ServerTypes
<1>3. /\ tracker[s] \in Trackers /\ TrackerOK(tracker[s])
      /\ o.ok => tracker[s].records[o.id.seq] # NoRecord
  BY <1>1, ServerTypes, LocalTypes
<1>4. PICK t : t = IF o.ok THEN RecordCompletionAndRespond(tracker[s], o.id, o.at)
                   ELSE FailAndRespond(tracker[s], o.id)
  OBVIOUS
<1>5. IF o.ok THEN CompletesFrom(tracker[s], o.id, o.at, t) ELSE FailsFrom(tracker[s], o.id, t)
  BY <1>2, <1>3, <1>4, RecordCompletionIs, FailAndRespondIs
<1>6. t \in Trackers
  BY <1>5 DEF CompletesFrom, FailsFrom
<1>7. /\ finished' = [finished EXCEPT ![s] = finished[s] \ {o}]
      /\ tracker' = [tracker EXCEPT ![s] = t]
      /\ SameClient /\ SameRaft /\ role' = role /\ storage' = storage /\ arrived' = arrived
      /\ queue' = queue /\ replicating' = replicating /\ replay' = replay
  BY <1>4 DEF OpCompleted, client, raft, SameClient, SameRaft
<1>8. /\ tracker' \in [Servers -> Trackers] /\ tracker'[s] = t
      /\ \A u \in Servers \ {s} : tracker'[u] = tracker[u]
  BY <1>1, <1>6, <1>7, Update DEF Types
<1>9. /\ finished' \in [Servers -> SUBSET [id : RequestIds, at : Nat, ok : BOOLEAN]]
      /\ finished'[s] = finished[s] \ {o}
      /\ \A u \in Servers \ {s} : finished'[u] = finished[u]
  BY <1>1, <1>7 DEF Types
<1>10. Types'
  BY <1>1, <1>7, <1>8, <1>9 DEF Types, SameClient, SameRaft, storage
<1>11. Elsewhere(s) /\ SameStore(s)
  BY <1>7, <1>8, <1>9 DEF Elsewhere, SameServer, SameStore, storage
<1> QED BY <1>2, <1>5, <1>7, <1>8, <1>9, <1>10, <1>11

LEMMA CollectResponsesStep ==
    ASSUME IInv, NEW s \in Servers, NEW q \in Seqs, CollectResponses(s, q)
    PROVE  /\ Types' /\ SameRaft /\ Elsewhere(s) /\ SameClient /\ SameStore(s)
           /\ arrived'[s] = arrived[s] /\ queue'[s] = queue[s]
           /\ replicating'[s] = replicating[s] /\ finished'[s] = finished[s]
           /\ \E old \in SUBSET Seqs : Collects(tracker[s], old, tracker'[s])
<1>1. Types
  BY DEF IInv
<1>2. tracker[s] \in Trackers /\ TrackerOK(tracker[s])
  BY <1>1, ServerTypes, LocalTypes
<1>3. PICK t : t = GCResults(tracker[s], q)
  OBVIOUS
<1>4. PICK old \in SUBSET Seqs : Collects(tracker[s], old, t)
  <2> DEFINE old == {p \in Seqs : p <= q}
  <2>1. Collects(tracker[s], old, t) /\ old \in SUBSET Seqs
    BY <1>2, <1>3, GCResultsIs
  <2> HIDE DEF old
  <2> QED BY <2>1
<1>5. t \in Trackers
  BY <1>4 DEF Collects
<1>6. /\ tracker' = [tracker EXCEPT ![s] = t]
      /\ SameClient /\ SameRaft /\ role' = role /\ storage' = storage /\ drivers' = drivers
      /\ replay' = replay
  BY <1>3 DEF CollectResponses, client, raft, SameClient, SameRaft
<1>7. /\ tracker' \in [Servers -> Trackers] /\ tracker'[s] = t
      /\ \A u \in Servers \ {s} : tracker'[u] = tracker[u]
  BY <1>1, <1>5, <1>6, Update DEF Types
<1>8. Types'
  BY <1>1, <1>6, <1>7 DEF Types, SameClient, SameRaft, storage, drivers
<1>9. Elsewhere(s) /\ SameStore(s)
  BY <1>6, <1>7 DEF Elsewhere, SameServer, SameStore, storage, drivers
<1> QED BY <1>4, <1>6, <1>7, <1>8, <1>9 DEF drivers

SameOps(s) ==
    /\ tracker'[s] = tracker[s] /\ arrived'[s] = arrived[s] /\ queue'[s] = queue[s]
    /\ replicating'[s] = replicating[s] /\ finished'[s] = finished[s]

SameLog(s) == log'[s] = log[s] /\ applied'[s] = applied[s] /\ replay'[s] = replay[s]

LEMMA BecomeLeaderStep ==
    ASSUME IInv, NEW s \in Servers, BecomeLeader(s)
    PROVE  /\ Types' /\ Elsewhere(s) /\ SameClient /\ SameOps(s) /\ SameLog(s)
           /\ IsRunning(s) /\ \A o \in finished[s] : o.ok
           /\ role[s].lead = "no" /\ Extends(log[s], decided)
           /\ decided' = decided /\ term' = term + 1 /\ leader' = s
           /\ role'[s].lead = "elected" /\ role'[s].term = term + 1
<1>1. Types /\ term \in Nat
  BY DEF IInv, Types
<1>2. PICK r : r = [lead |-> "elected", term |-> term + 1]
  OBVIOUS
<1>3. /\ r \in [lead : {"no", "elected", "ready"}, term : Nat]
      /\ r.lead = "elected" /\ r.term = term + 1 /\ term + 1 \in Nat
  BY <1>1, <1>2
<1>4. /\ IsRunning(s) /\ (\A o \in finished[s] : o.ok)
      /\ role[s].lead = "no" /\ IsPrefix(decided, log[s])
      /\ decided' = decided /\ term' = term + 1 /\ leader' = s
      /\ role' = [role EXCEPT ![s] = r]
      /\ SameClient /\ storage' = storage /\ tracker' = tracker /\ drivers' = drivers
      /\ replay' = replay
  BY <1>2 DEF BecomeLeader, ConsensusUnlocked, client, SameClient
<1>5. Extends(log[s], decided)
  BY <1>1, <1>4, ServerTypes, IsPrefixIs DEF Types
<1>6. /\ role' \in [Servers -> [lead : {"no", "elected", "ready"}, term : Nat]]
      /\ role'[s] = r /\ \A u \in Servers \ {s} : role'[u] = role[u]
  BY <1>1, <1>3, <1>4, Update DEF Types
<1>7. Types'
  BY <1>1, <1>3, <1>4, <1>6 DEF Types, SameClient, storage, drivers
<1>8. Elsewhere(s) /\ SameOps(s) /\ SameLog(s)
  BY <1>4, <1>6 DEF Elsewhere, SameServer, SameOps, SameLog, storage, drivers
<1> QED BY <1>3, <1>4, <1>5, <1>6, <1>7, <1>8

LEMMA OtherLeaderStep ==
    ASSUME IInv, OtherLeader
    PROVE  /\ Types' /\ SameClient /\ decided' = decided /\ term' = term + 1 /\ leader' = Other
           /\ \A u \in Servers : SameServer(u)
<1>1. Types /\ term \in Nat /\ term + 1 \in Nat
  BY DEF IInv, Types
<1> QED BY <1>1 DEF Types, OtherLeader, client, storage, drivers, SameClient, SameServer

LEMMA BecomeReplicaStep ==
    ASSUME IInv, NEW s \in Servers, BecomeReplica(s)
    PROVE  /\ Types' /\ Elsewhere(s) /\ SameClient /\ SameRaft /\ SameOps(s) /\ SameLog(s)
           /\ role'[s] = NotLeader
<1>1. Types
  BY DEF IInv
<1>2. NotLeader \in [lead : {"no", "elected", "ready"}, term : Nat]
  BY DEF NotLeader
<1>3. /\ role' = [role EXCEPT ![s] = NotLeader]
      /\ SameRaft /\ SameClient /\ storage' = storage /\ tracker' = tracker /\ drivers' = drivers
      /\ replay' = replay
  BY DEF BecomeReplica, client, SameClient, SameRaft
<1>4. /\ role' \in [Servers -> [lead : {"no", "elected", "ready"}, term : Nat]]
      /\ role'[s] = NotLeader /\ \A u \in Servers \ {s} : role'[u] = role[u]
  BY <1>1, <1>2, <1>3, Update DEF Types
<1>5. Types'
  BY <1>1, <1>3, <1>4 DEF Types, SameClient, SameRaft, storage, drivers
<1>6. Elsewhere(s) /\ SameOps(s) /\ SameLog(s)
  BY <1>3, <1>4 DEF Elsewhere, SameServer, SameOps, SameLog, storage, drivers
<1> QED BY <1>3, <1>4, <1>5, <1>6

LEMMA LeaderIsReadyStep ==
    ASSUME IInv, NEW s \in Servers, LeaderIsReady(s)
    PROVE  /\ Types' /\ Elsewhere(s) /\ SameClient /\ SameOps(s) /\ SameLog(s)
           /\ LeadsNow(s) /\ term' = term /\ leader' = leader /\ decided' = log[s]
           /\ role'[s].lead = "ready" /\ role'[s].term = role[s].term
<1>1. Types
  BY DEF IInv
<1>2. PICK r : r = [role[s] EXCEPT !.lead = "ready"]
  OBVIOUS
<1>3. role[s] \in [lead : {"no", "elected", "ready"}, term : Nat] /\ log[s] \in Seq(RequestIds)
  BY <1>1, ServerTypes
<1>4. /\ r \in [lead : {"no", "elected", "ready"}, term : Nat]
      /\ r.lead = "ready" /\ r.term = role[s].term
  BY <1>2, <1>3
<1>5. /\ LeadsNow(s) /\ term' = term /\ leader' = leader /\ decided' = log[s]
      /\ role' = [role EXCEPT ![s] = r]
      /\ SameClient /\ storage' = storage /\ tracker' = tracker /\ drivers' = drivers
      /\ replay' = replay
  BY <1>2 DEF LeaderIsReady, client, SameClient
<1>6. /\ role' \in [Servers -> [lead : {"no", "elected", "ready"}, term : Nat]]
      /\ role'[s] = r /\ \A u \in Servers \ {s} : role'[u] = role[u]
  BY <1>1, <1>4, <1>5, Update DEF Types
<1>7. Types'
  BY <1>1, <1>3, <1>5, <1>6 DEF Types, SameClient, storage, drivers
<1>8. Elsewhere(s) /\ SameOps(s) /\ SameLog(s)
  BY <1>5, <1>6 DEF Elsewhere, SameServer, SameOps, SameLog, storage, drivers
<1> QED BY <1>4, <1>5, <1>6, <1>7, <1>8

LEMMA DecideStep ==
    ASSUME IInv, NEW s \in Servers, Decide(s)
    PROVE  /\ Types' /\ SameClient /\ \A u \in Servers : SameServer(u)
           /\ LeadsNow(s) /\ term' = term /\ leader' = leader
           /\ Extends(log[s], decided') /\ Len(decided') >= Len(decided)
<1>1. Types
  BY DEF IInv
<1>2. /\ LeadsNow(s) /\ Len(decided) < Len(log[s]) /\ term' = term /\ leader' = leader
      /\ decided' = SubSeq(log[s], 1, Len(decided) + 1)
      /\ role' = role /\ SameClient /\ storage' = storage /\ tracker' = tracker
      /\ drivers' = drivers /\ replay' = replay
  BY DEF Decide, client, SameClient
<1>3. PICK n \in 0 .. Len(log[s]) : n = Len(decided) + 1
  <2>1. Len(decided) \in Nat /\ Len(log[s]) \in Nat
    BY <1>1, ServerTypes, SeqIs DEF Types
  <2> QED BY <1>2, <2>1
<1>4. PICK d : d = SubSeq(log[s], 1, n)
  OBVIOUS
<1>5. d \in Seq(RequestIds) /\ Len(d) = n /\ DOMAIN d = 1 .. n /\ \A k \in 1 .. n : d[k] = log[s][k]
  BY <1>1, <1>4, ServerTypes, PrefixIs
<1>6. Extends(log[s], d) /\ Len(d) >= Len(decided)
  <2>1. Len(decided) \in Nat /\ n <= Len(log[s])
    BY <1>1, <1>3, ServerTypes, SeqIs DEF Types
  <2> QED BY <1>3, <1>5, <2>1 DEF Extends
<1>7. decided' = d
  BY <1>2, <1>3, <1>4
<1>8. Types' /\ \A u \in Servers : SameServer(u)
  BY <1>1, <1>2, <1>5, <1>7 DEF Types, SameClient, SameServer, storage, drivers
<1> QED BY <1>2, <1>6, <1>7, <1>8

LEMMA StartFollowerOpStep ==
    ASSUME IInv, NEW s \in Servers, NEW l \in Servers, StartFollowerOp(l, s)
    PROVE  /\ Types' /\ Elsewhere(s) /\ SameClient /\ SameRaft
           /\ IsRunning(s) /\ \A o \in finished[s] : o.ok
           /\ role[s].lead = "no" /\ Extends(log[l], log[s]) /\ Len(log[s]) + 1 \in DOMAIN log[l]
           /\ \E o \in Ops : /\ o.id = log[l][Len(log[s]) + 1] /\ o.kind = "FOLLOWER"
                             /\ o.at = Len(log[s]) + 1 /\ o.failed = FALSE
                             /\ log'[s] = Append(log[s], o.id)
                             /\ queue'[s] = Append(queue[s], o)
           /\ applied'[s] = applied[s] /\ role'[s] = role[s] /\ replay'[s] = replay[s]
           /\ tracker'[s] = tracker[s] /\ arrived'[s] = arrived[s]
           /\ replicating'[s] = replicating[s] /\ finished'[s] = finished[s]
<1>1. Types
  BY DEF IInv
<1>2. PICK i : i = Len(log[s]) + 1
  OBVIOUS
<1>3. PICK o : o = [id |-> log[l][i], kind |-> "FOLLOWER", at |-> i, failed |-> FALSE]
  OBVIOUS
<1>4. /\ IsRunning(s) /\ (\A x \in finished[s] : x.ok)
      /\ role[s].lead = "no" /\ IsPrefix(log[s], log[l]) /\ log[s] # log[l]
      /\ log' = [log EXCEPT ![s] = Append(log[s], log[l][i])]
      /\ queue' = [queue EXCEPT ![s] = Append(queue[s], o)]
      /\ SameClient /\ SameRaft /\ role' = role /\ applied' = applied /\ durable' = durable
      /\ tracker' = tracker /\ arrived' = arrived /\ replicating' = replicating
      /\ finished' = finished /\ replay' = replay
  BY <1>2, <1>3 DEF StartFollowerOp, ConsensusUnlocked, IsStrictPrefix, client, raft, SameClient, SameRaft
<1>5. Extends(log[l], log[s])
  BY <1>1, <1>4, ServerTypes, IsPrefixIs
<1>6. i \in DOMAIN log[l] /\ i \in Nat
  <2>1. /\ log[s] \in Seq(RequestIds) /\ log[l] \in Seq(RequestIds)
        /\ Len(log[s]) \in Nat /\ Len(log[l]) \in Nat
        /\ DOMAIN log[s] = 1 .. Len(log[s]) /\ DOMAIN log[l] = 1 .. Len(log[l])
    BY <1>1, ServerTypes
  <2>2. Len(log[s]) # Len(log[l])
    <3> SUFFICES ASSUME Len(log[s]) = Len(log[l]) PROVE log[s] = log[l]
      BY <1>4
    <3>1. \A k \in 1 .. Len(log[s]) : log[s][k] = log[l][k]
      BY <1>5, <2>1 DEF Extends
    <3> QED BY <2>1, <3>1
  <2> QED BY <1>2, <1>5, <2>1, <2>2 DEF Extends
<1>7. log[l][i] \in RequestIds
  BY <1>1, <1>6, ServerTypes, SeqIs
<1>8. /\ o \in Ops /\ o.id = log[l][i] /\ o.kind = "FOLLOWER" /\ o.at = i /\ o.failed = FALSE
  BY <1>3, <1>6, <1>7 DEF Ops
<1>9. Append(log[s], o.id) \in Seq(RequestIds) /\ Append(queue[s], o) \in Seq(Ops)
  BY <1>1, <1>7, <1>8, ServerTypes, AppendIs
<1>10. /\ log' \in [Servers -> Seq(RequestIds)] /\ log'[s] = Append(log[s], o.id)
       /\ \A u \in Servers \ {s} : log'[u] = log[u]
  <2>1. log \in [Servers -> Seq(RequestIds)] /\ log' = [log EXCEPT ![s] = Append(log[s], o.id)]
    BY <1>1, <1>4, <1>8 DEF Types
  <2> QED BY <1>9, <2>1
<1>11. /\ queue' \in [Servers -> Seq(Ops)] /\ queue'[s] = Append(queue[s], o)
       /\ \A u \in Servers \ {s} : queue'[u] = queue[u]
  <2>1. queue \in [Servers -> Seq(Ops)] /\ queue' = [queue EXCEPT ![s] = Append(queue[s], o)]
    BY <1>1, <1>4 DEF Types
  <2> QED BY <1>9, <2>1
<1>12. Types'
  BY <1>1, <1>4, <1>10, <1>11 DEF Types, SameClient, SameRaft
<1>13. Elsewhere(s)
  BY <1>4, <1>10, <1>11 DEF Elsewhere, SameServer
<1> QED BY <1>2, <1>4, <1>5, <1>6, <1>8, <1>10, <1>11, <1>12, <1>13

\* The ops of the queue after the writes from i on were aborted.
Aborted(q, r, i) ==
    /\ r \in Seq(Ops) /\ DOMAIN r = DOMAIN q
    /\ \A k \in DOMAIN q : /\ r[k].id = q[k].id /\ r[k].kind = q[k].kind /\ r[k].at = q[k].at
                           /\ r[k].failed <=> q[k].failed \/ (q[k].kind = "FOLLOWER" /\ q[k].at >= i)

LEMMA AbortedIs ==
    ASSUME NEW q \in Seq(Ops), NEW i,
           NEW r, r = [k \in DOMAIN q |-> AbortIfFrom(q[k], i)]
    PROVE  Aborted(q, r, i)
<1>1. Len(q) \in Nat /\ DOMAIN q = 1 .. Len(q) /\ \A k \in DOMAIN q : q[k] \in Ops
  BY SeqIs
<1>2. ASSUME NEW k \in DOMAIN q
      PROVE  /\ r[k] \in Ops
             /\ r[k].id = q[k].id /\ r[k].kind = q[k].kind /\ r[k].at = q[k].at
             /\ r[k].failed <=> q[k].failed \/ (q[k].kind = "FOLLOWER" /\ q[k].at >= i)
  <2>1. PICK o \in Ops : o = q[k]
    BY <1>1
  <2>2. PICK b \in BOOLEAN : b = (o.failed \/ (o.kind = "FOLLOWER" /\ o.at >= i))
    OBVIOUS
  <2>3. r[k] = [o EXCEPT !.failed = b]
    BY <2>1, <2>2 DEF AbortIfFrom
  <2>4. r[k] \in Ops /\ r[k].id = o.id /\ r[k].kind = o.kind /\ r[k].at = o.at /\ r[k].failed = b
    BY <2>3 DEF Ops
  <2> QED BY <2>1, <2>2, <2>4
<1>3. r \in [1 .. Len(q) -> Ops] /\ DOMAIN r = DOMAIN q
  BY <1>1, <1>2
<1>4. r \in Seq(Ops)
  BY <1>1, <1>3
<1> QED BY <1>2, <1>3, <1>4 DEF Aborted

LEMMA TruncateLogStep ==
    ASSUME IInv, NEW s \in Servers, NEW i \in DOMAIN log[s], TruncateLog(s, i)
    PROVE  /\ Types' /\ Elsewhere(s) /\ SameClient /\ SameRaft
           /\ IsRunning(s) /\ \A o \in finished[s] : o.ok
           /\ role[s].lead = "no"
           /\ ~(i \in DOMAIN decided /\ \A k \in 1 .. i : log[s][k] = decided[k])
           /\ DOMAIN log'[s] = 1 .. i - 1 /\ \A k \in 1 .. i - 1 : log'[s][k] = log[s][k]
           /\ Aborted(queue[s], queue'[s], i)
           /\ \A o \in replicating'[s] : o \in replicating[s] /\ ~(o.at >= i)
           /\ \A f \in finished'[s] :
                 \/ f \in finished[s]
                 \/ ~f.ok /\ \E o \in replicating[s] : o.at >= i /\ f.id = o.id
           /\ applied'[s] = applied[s] /\ role'[s] = role[s] /\ replay'[s] = replay[s]
           /\ tracker'[s] = tracker[s] /\ arrived'[s] = arrived[s]
<1> DEFINE aborted == {o \in replicating[s] : o.at >= i}
           failures == {[id |-> o.id, at |-> o.at, ok |-> FALSE] : o \in {a \in aborted : a.tracked}}
<1>1. Types
  BY DEF IInv
<1>2. PICK r : r = [k \in DOMAIN queue[s] |-> AbortIfFrom(queue[s][k], i)]
  OBVIOUS
<1>3. PICK p : p = SubSeq(log[s], 1, i - 1)
  OBVIOUS
<1>4. /\ IsRunning(s) /\ (\A o \in finished[s] : o.ok)
      /\ role[s].lead = "no" /\ ~IsPrefix(SubSeq(log[s], 1, i), decided)
      /\ SameClient /\ SameRaft /\ role' = role /\ applied' = applied /\ durable' = durable
      /\ tracker' = tracker /\ arrived' = arrived /\ replay' = replay
  BY DEF TruncateLog, ConsensusUnlocked, client, raft, SameClient, SameRaft
<1>5. /\ log' = [log EXCEPT ![s] = p]
      /\ queue' = [queue EXCEPT ![s] = r]
      /\ replicating' = [replicating EXCEPT ![s] = replicating[s] \ aborted]
      /\ finished' = [finished EXCEPT ![s] = finished[s] \cup failures]
  <2>1. AbortOpsFrom(s, i)
    BY DEF TruncateLog
  <2>2. log' = [log EXCEPT ![s] = p]
    BY <1>3, <2>1 DEF AbortOpsFrom
  <2>3. queue' = [queue EXCEPT ![s] = r]
    BY <1>2, <2>1, Zenon DEF AbortOpsFrom
  <2>4. replicating' = [replicating EXCEPT ![s] = replicating[s] \ aborted]
    BY <2>1, Zenon DEF AbortOpsFrom
  <2>5. finished' = [finished EXCEPT ![s] = finished[s] \cup failures]
    BY <2>1, Zenon DEF AbortOpsFrom
  <2> QED BY <2>2, <2>3, <2>4, <2>5
<1>6. /\ i \in Nat /\ i - 1 \in 0 .. Len(log[s]) /\ i \in 0 .. Len(log[s])
      /\ log[s] \in Seq(RequestIds) /\ queue[s] \in Seq(Ops)
  BY <1>1, ServerTypes
<1>7. p \in Seq(RequestIds) /\ DOMAIN p = 1 .. i - 1 /\ \A k \in 1 .. i - 1 : p[k] = log[s][k]
  BY <1>3, <1>6, PrefixIs
<1>8. Aborted(queue[s], r, i) /\ r \in Seq(Ops)
  <2>1. Aborted(queue[s], r, i)
    BY <1>2, <1>6, AbortedIs
  <2> QED BY <2>1 DEF Aborted
<1>9. ~(i \in DOMAIN decided /\ \A k \in 1 .. i : log[s][k] = decided[k])
  <2> SUFFICES ASSUME i \in DOMAIN decided, \A k \in 1 .. i : log[s][k] = decided[k] PROVE FALSE
    OBVIOUS
  <2>1. PICK c : c = SubSeq(log[s], 1, i)
    OBVIOUS
  <2>2. c \in Seq(RequestIds) /\ Len(c) = i /\ DOMAIN c = 1 .. i /\ \A k \in 1 .. i : c[k] = log[s][k]
    BY <1>6, <2>1, PrefixIs
  <2>3. decided \in Seq(RequestIds) /\ Len(decided) \in Nat /\ DOMAIN decided = 1 .. Len(decided)
    BY <1>1, SeqIs DEF Types
  <2>4. Extends(decided, c)
    BY <2>2, <2>3 DEF Extends
  <2> QED BY <1>4, <2>1, <2>2, <2>3, <2>4, IsPrefixIs
<1>10. /\ log' \in [Servers -> Seq(RequestIds)] /\ log'[s] = p
       /\ \A u \in Servers \ {s} : log'[u] = log[u]
  BY <1>1, <1>5, <1>7, Update DEF Types
<1>11. /\ queue' \in [Servers -> Seq(Ops)] /\ queue'[s] = r
       /\ \A u \in Servers \ {s} : queue'[u] = queue[u]
  <2>1. queue \in [Servers -> Seq(Ops)] /\ queue' = [queue EXCEPT ![s] = r] /\ r \in Seq(Ops)
    BY <1>1, <1>5, <1>8 DEF Types
  <2> HIDE DEF failures, aborted
  <2> QED BY <2>1, Update
<1>12. /\ replicating' \in [Servers -> SUBSET [id : RequestIds, at : Nat, tracked : BOOLEAN]]
       /\ replicating'[s] = replicating[s] \ aborted
       /\ \A u \in Servers \ {s} : replicating'[u] = replicating[u]
  <2>1. /\ replicating \in [Servers -> SUBSET [id : RequestIds, at : Nat, tracked : BOOLEAN]]
        /\ replicating[s] \ aborted \in SUBSET [id : RequestIds, at : Nat, tracked : BOOLEAN]
    BY <1>1 DEF Types
  <2> HIDE DEF aborted
  <2> QED BY <1>5, <2>1
<1>13. \A f \in failures :
          /\ f \in [id : RequestIds, at : Nat, ok : BOOLEAN]
          /\ ~f.ok /\ \E o \in replicating[s] : o.at >= i /\ f.id = o.id
  <2> SUFFICES ASSUME NEW f \in failures
               PROVE  /\ f \in [id : RequestIds, at : Nat, ok : BOOLEAN]
                      /\ ~f.ok /\ \E o \in replicating[s] : o.at >= i /\ f.id = o.id
    OBVIOUS
  <2>1. PICK o \in replicating[s] : o.at >= i /\ f = [id |-> o.id, at |-> o.at, ok |-> FALSE]
    OBVIOUS
  <2>2. o.id \in RequestIds /\ o.at \in Nat
    BY <1>1, ServerTypes
  <2> QED BY <2>1, <2>2
<1>14. /\ finished' \in [Servers -> SUBSET [id : RequestIds, at : Nat, ok : BOOLEAN]]
       /\ finished'[s] = finished[s] \cup failures
       /\ \A u \in Servers \ {s} : finished'[u] = finished[u]
  <2> HIDE DEF failures
  <2>1. /\ finished \in [Servers -> SUBSET [id : RequestIds, at : Nat, ok : BOOLEAN]]
        /\ finished[s] \cup failures \in SUBSET [id : RequestIds, at : Nat, ok : BOOLEAN]
    BY <1>1, <1>13 DEF Types
  <2> QED BY <1>5, <2>1
<1>15. \A o \in replicating'[s] : o \in replicating[s] /\ ~(o.at >= i)
  BY <1>12
<1> HIDE DEF failures, aborted
<1>16. \A f \in finished'[s] :
          \/ f \in finished[s]
          \/ ~f.ok /\ \E o \in replicating[s] : o.at >= i /\ f.id = o.id
  BY <1>13, <1>14
<1>17. Types'
  BY <1>1, <1>4, <1>10, <1>11, <1>12, <1>14 DEF Types, SameClient, SameRaft
<1>18. Elsewhere(s)
  BY <1>4, <1>10, <1>11, <1>12, <1>14 DEF Elsewhere, SameServer
<1> QED BY <1>4, <1>7, <1>8, <1>9, <1>10, <1>11, <1>15, <1>16, <1>17, <1>18

LEMMA CrashStep ==
    ASSUME IInv, NEW s \in Servers, Crash(s)
    PROVE  /\ Types' /\ Elsewhere(s) /\ SameRaft /\ sent' = sent /\ net' \subseteq net
           /\ log'[s] = log[s] /\ role'[s] = NotLeader /\ tracker'[s] = NewTracker
           /\ arrived'[s] = {} /\ queue'[s] = <<>> /\ replicating'[s] = {} /\ finished'[s] = {}
           /\ \E n \in Nat : /\ 1 .. n \subseteq applied[s] /\ applied'[s] = 1 .. n
                             /\ replay'[s] = [at |-> 1, upto |-> n, tracked |-> FALSE]
<1>1. Types
  BY DEF IInv
<1>2. durable[s] \in Nat /\ Len(log[s]) \in Nat
  BY <1>1, ServerTypes DEF Types
<1>3. PICK n \in durable[s] .. Len(log[s]) :
         /\ 1 .. n \subseteq applied[s]
         /\ durable' = [durable EXCEPT ![s] = n]
         /\ applied' = [applied EXCEPT ![s] = 1 .. n]
         /\ replay' = [replay EXCEPT ![s] = [at |-> 1, upto |-> n, tracked |-> FALSE]]
  BY DEF Crash
<1>4. n \in Nat /\ 1 .. n \in SUBSET Nat
  BY <1>2
<1>5. /\ role' = [role EXCEPT ![s] = NotLeader] /\ tracker' = [tracker EXCEPT ![s] = NewTracker]
      /\ arrived' = [arrived EXCEPT ![s] = {}] /\ queue' = [queue EXCEPT ![s] = <<>>]
      /\ replicating' = [replicating EXCEPT ![s] = {}]
      /\ finished' = [finished EXCEPT ![s] = {}]
      /\ net' \subseteq net /\ sent' = sent /\ complete' = complete /\ SameRaft /\ log' = log
  BY DEF Crash, SameRaft
<1>6. PICK r : r = [at |-> 1, upto |-> n, tracked |-> FALSE]
  OBVIOUS
<1>7. r \in [at : Nat, upto : Nat, tracked : BOOLEAN]
  BY <1>4, <1>6
<1>8. /\ durable' \in [Servers -> Nat]
      /\ applied' \in [Servers -> SUBSET Nat] /\ applied'[s] = 1 .. n
      /\ \A u \in Servers \ {s} : applied'[u] = applied[u]
  BY <1>1, <1>3, <1>4 DEF Types
<1>9. /\ replay' \in [Servers -> [at : Nat, upto : Nat, tracked : BOOLEAN]] /\ replay'[s] = r
      /\ \A u \in Servers \ {s} : replay'[u] = replay[u]
  BY <1>1, <1>3, <1>6, <1>7, Update DEF Types
<1>10. /\ role' \in [Servers -> [lead : {"no", "elected", "ready"}, term : Nat]]
       /\ role'[s] = NotLeader /\ \A u \in Servers \ {s} : role'[u] = role[u]
  BY <1>1, <1>5 DEF Types, NotLeader
<1>11. /\ tracker' \in [Servers -> Trackers] /\ tracker'[s] = NewTracker
       /\ \A u \in Servers \ {s} : tracker'[u] = tracker[u]
  BY <1>1, <1>5, NewTrackerType, Update DEF Types
<1>12. /\ arrived' \in [Servers -> SUBSET RequestIds] /\ arrived'[s] = {}
       /\ \A u \in Servers \ {s} : arrived'[u] = arrived[u]
  BY <1>1, <1>5 DEF Types
<1>13. /\ queue' \in [Servers -> Seq(Ops)] /\ queue'[s] = <<>>
       /\ \A u \in Servers \ {s} : queue'[u] = queue[u]
  BY <1>1, <1>5 DEF Types
<1>14. /\ replicating' \in [Servers -> SUBSET [id : RequestIds, at : Nat, tracked : BOOLEAN]]
       /\ replicating'[s] = {} /\ \A u \in Servers \ {s} : replicating'[u] = replicating[u]
  BY <1>1, <1>5 DEF Types
<1>15. /\ finished' \in [Servers -> SUBSET [id : RequestIds, at : Nat, ok : BOOLEAN]]
       /\ finished'[s] = {} /\ \A u \in Servers \ {s} : finished'[u] = finished[u]
  BY <1>1, <1>5 DEF Types
<1>16. Types'
  BY <1>1, <1>5, <1>8, <1>9, <1>10, <1>11, <1>12, <1>13, <1>14, <1>15 DEF Types, SameRaft
<1>17. Elsewhere(s)
  BY <1>5, <1>8, <1>9, <1>10, <1>11, <1>12, <1>13, <1>14, <1>15 DEF Elsewhere, SameServer
<1> QED BY <1>3, <1>4, <1>5, <1>6, <1>8, <1>9, <1>10, <1>11, <1>12, <1>13, <1>14, <1>15, <1>16, <1>17

\* What is known of a server that replays its log.
LEMMA ReplayingIs ==
    ASSUME IInv, NEW s \in Servers, ~IsRunning(s)
    PROVE  /\ queue[s] = <<>> /\ replicating[s] = {} /\ finished[s] = {} /\ role[s].lead = "no"
           /\ replay[s].at \in 1 .. replay[s].upto + 1 /\ replay[s].at \in Nat
           /\ replay[s].tracked => replay[s].at <= replay[s].upto
           /\ applied[s] = 1 .. replay[s].upto /\ replay[s].upto \in Nat
           /\ 1 .. replay[s].upto \subseteq DOMAIN log[s]
<1>1. Types /\ ReplayOK(s) /\ LogInv
  BY DEF IInv, LocalInv
<1>2. applied[s] \subseteq DOMAIN log[s]
  BY <1>1 DEF LogInv
<1>3. replay[s].at \in Nat /\ replay[s].upto \in Nat
  BY <1>1, ServerTypes
<1> QED BY <1>1, <1>2, <1>3 DEF ReplayOK

LEMMA PlayWriteRequestStep ==
    ASSUME IInv, NEW s \in Servers, PlayWriteRequest(s)
    PROVE  /\ Types' /\ Elsewhere(s) /\ SameClient /\ SameRaft
           /\ log'[s] = log[s] /\ applied'[s] = applied[s] /\ role'[s] = role[s]
           /\ arrived'[s] = arrived[s] /\ queue'[s] = queue[s]
           /\ replicating'[s] = replicating[s] /\ finished'[s] = finished[s]
           /\ ~IsRunning(s) /\ replay[s].at \in 1 .. replay[s].upto
           /\ replay'[s].upto = replay[s].upto
           /\ \/ /\ replay[s].tracked
                 /\ CompletesFrom(tracker[s], log[s][replay[s].at], replay[s].at, tracker'[s])
                 /\ replay'[s].at = replay[s].at + 1 /\ replay'[s].tracked = FALSE
              \/ \E x : /\ ~replay[s].tracked /\ DrivesFrom(tracker[s], log[s][replay[s].at], x)
                        /\ tracker'[s] = x.tracker
                        /\ IF x.state = "NEW"
                           THEN replay'[s].at = replay[s].at /\ replay'[s].tracked = TRUE
                           ELSE replay'[s].at = replay[s].at + 1 /\ replay'[s].tracked = FALSE
<1>1. Types
  BY DEF IInv
<1>2. PICK r \in [at : Nat, upto : Nat, tracked : BOOLEAN] : r = replay[s]
  BY <1>1, ServerTypes
<1>3. PICK id : id = log[s][r.at]
  OBVIOUS
<1>4. PICK x : x = TrackRpcOrChangeDriver(tracker[s], id)
  OBVIOUS
<1>5. PICK c : c = RecordCompletionAndRespond(tracker[s], id, r.at)
  OBVIOUS
<1>6. /\ r.at \in 1 .. r.upto
      /\ SameClient /\ SameRaft /\ role' = role /\ storage' = storage /\ drivers' = drivers
  BY <1>2 DEF PlayWriteRequest, client, raft, SameClient, SameRaft
<1>7. /\ r.tracked => /\ tracker' = [tracker EXCEPT ![s] = c]
                      /\ replay' = [replay EXCEPT ![s].at = r.at + 1, ![s].tracked = FALSE]
      /\ ~r.tracked => /\ tracker' = [tracker EXCEPT ![s] = x.tracker]
                       /\ replay' = IF x.state = "NEW" THEN [replay EXCEPT ![s].tracked = TRUE]
                                    ELSE [replay EXCEPT ![s].at = r.at + 1]
  BY <1>2, <1>3, <1>4, <1>5 DEF PlayWriteRequest
<1>8. ~IsRunning(s)
  BY <1>2, <1>6 DEF IsRunning, Running
<1>9. r.at \in DOMAIN log[s] /\ r.at \in Nat
  BY <1>2, <1>6, <1>8, ReplayingIs
<1>10. id \in RequestIds /\ id.first <= id.seq
  BY <1>3, <1>9, FirstIsLow
<1>11. /\ tracker[s] \in Trackers /\ TrackerOK(tracker[s])
       /\ r.tracked => tracker[s].records[id.seq] # NoRecord
  <2>1. TrackOK(s)
    BY LocalTypes DEF LocalInv
  <2> QED BY <1>1, <1>2, <1>3, <2>1, ServerTypes DEF TrackOK, Owns, IsCurrentDriver, IsTracked
<1>12. DrivesFrom(tracker[s], id, x)
  BY <1>4, <1>10, <1>11, TrackerSteps
<1>13. r.tracked => CompletesFrom(tracker[s], id, r.at, c)
  BY <1>5, <1>9, <1>10, <1>11, RecordCompletionIs
<1>14. x.tracker \in Trackers /\ (r.tracked => c \in Trackers)
  BY <1>12, <1>13 DEF DrivesFrom, CompletesFrom
<1>15. /\ tracker' \in [Servers -> Trackers] /\ \A u \in Servers \ {s} : tracker'[u] = tracker[u]
       /\ IF r.tracked THEN tracker'[s] = c ELSE tracker'[s] = x.tracker
  <2>1. PICK t \in Trackers : /\ tracker' = [tracker EXCEPT ![s] = t]
                              /\ t = IF r.tracked THEN c ELSE x.tracker
    BY <1>7, <1>14
  <2> QED BY <1>1, <2>1, Update DEF Types
<1>16. PICK v \in [at : Nat, upto : Nat, tracked : BOOLEAN] :
          /\ replay' = [replay EXCEPT ![s] = v] /\ v.upto = r.upto
          /\ r.tracked => v.at = r.at + 1 /\ v.tracked = FALSE
          /\ ~r.tracked => IF x.state = "NEW" THEN v.at = r.at /\ v.tracked = TRUE
                           ELSE v.at = r.at + 1 /\ v.tracked = FALSE
  <2>1. r.at \in Nat /\ r.upto \in Nat /\ r.tracked \in BOOLEAN /\ r.at + 1 \in Nat
    BY <1>9
  <2>2. CASE r.tracked
    <3>1. PICK v : v = [r EXCEPT !.at = r.at + 1, !.tracked = FALSE]
      OBVIOUS
    <3>2. replay' = [replay EXCEPT ![s] = v]
      BY <1>2, <1>7, <2>2, <3>1
    <3>3. v \in [at : Nat, upto : Nat, tracked : BOOLEAN] /\ v.upto = r.upto /\ v.at = r.at + 1 /\ v.tracked = FALSE
      BY <2>1, <3>1
    <3> QED BY <2>2, <3>2, <3>3
  <2>3. CASE ~r.tracked /\ x.state = "NEW"
    <3>1. PICK v : v = [r EXCEPT !.tracked = TRUE]
      OBVIOUS
    <3>2. replay' = [replay EXCEPT ![s] = v]
      BY <1>2, <1>7, <2>3, <3>1
    <3>3. v \in [at : Nat, upto : Nat, tracked : BOOLEAN] /\ v.upto = r.upto /\ v.at = r.at /\ v.tracked = TRUE
      BY <2>1, <3>1
    <3> QED BY <2>3, <3>2, <3>3
  <2>4. CASE ~r.tracked /\ x.state # "NEW"
    <3>1. PICK v : v = [r EXCEPT !.at = r.at + 1]
      OBVIOUS
    <3>2. replay' = [replay EXCEPT ![s] = v]
      BY <1>2, <1>7, <2>4, <3>1
    <3>3. v \in [at : Nat, upto : Nat, tracked : BOOLEAN] /\ v.upto = r.upto /\ v.at = r.at + 1
      BY <2>1, <3>1
    <3>4. v.tracked = r.tracked /\ r.tracked = FALSE
      BY <2>1, <2>4, <3>1
    <3> QED BY <2>4, <3>2, <3>3, <3>4
  <2> QED BY <2>2, <2>3, <2>4
<1>17. /\ replay' \in [Servers -> [at : Nat, upto : Nat, tracked : BOOLEAN]] /\ replay'[s] = v
       /\ \A u \in Servers \ {s} : replay'[u] = replay[u]
  BY <1>1, <1>16, Update DEF Types
<1>18. Types'
  BY <1>1, <1>6, <1>15, <1>17 DEF Types, SameClient, SameRaft, storage, drivers
<1>19. Elsewhere(s)
  BY <1>6, <1>15, <1>17 DEF Elsewhere, SameServer, storage, drivers
<1>20. /\ log'[s] = log[s] /\ applied'[s] = applied[s] /\ role'[s] = role[s]
       /\ arrived'[s] = arrived[s] /\ queue'[s] = queue[s]
       /\ replicating'[s] = replicating[s] /\ finished'[s] = finished[s]
  BY <1>6 DEF storage, drivers
<1>21. \/ /\ replay[s].tracked
          /\ CompletesFrom(tracker[s], log[s][replay[s].at], replay[s].at, tracker'[s])
          /\ replay'[s].at = replay[s].at + 1 /\ replay'[s].tracked = FALSE
       \/ /\ ~replay[s].tracked /\ DrivesFrom(tracker[s], log[s][replay[s].at], x)
          /\ tracker'[s] = x.tracker
          /\ IF x.state = "NEW"
             THEN replay'[s].at = replay[s].at /\ replay'[s].tracked = TRUE
             ELSE replay'[s].at = replay[s].at + 1 /\ replay'[s].tracked = FALSE
  BY <1>2, <1>3, <1>12, <1>13, <1>15, <1>16, <1>17
<1>22. replay'[s].upto = replay[s].upto /\ replay[s].at \in 1 .. replay[s].upto
  BY <1>2, <1>6, <1>16, <1>17
<1> QED BY <1>6, <1>8, <1>18, <1>19, <1>20, <1>21, <1>22

LEMMA StartOrphanedReplicatesStep ==
    ASSUME IInv, NEW s \in Servers, StartOrphanedReplicates(s)
    PROVE  /\ Types' /\ Elsewhere(s) /\ SameClient /\ SameRaft
           /\ log'[s] = log[s] /\ applied'[s] = applied[s] /\ role'[s] = role[s]
           /\ tracker'[s] = tracker[s] /\ arrived'[s] = arrived[s]
           /\ replicating'[s] = replicating[s] /\ finished'[s] = finished[s]
           /\ ~IsRunning(s) /\ replay[s].at = replay[s].upto + 1 /\ replay'[s] = Running
           /\ DOMAIN queue'[s] = 1 .. (Len(log[s]) - replay[s].upto)
           /\ \A k \in DOMAIN queue'[s] :
                 LET o == queue'[s][k]
                 IN  /\ o.id = log[s][o.at] /\ o.kind = "FOLLOWER" /\ o.at = replay[s].upto + k
                     /\ o.failed = FALSE /\ o.at \in DOMAIN log[s]
<1>1. Types
  BY DEF IInv
<1>2. PICK n : n = replay[s].upto
  OBVIOUS
<1>3. PICK Q : Q = [k \in 1 .. (Len(log[s]) - n) |->
                       [id |-> log[s][n + k], kind |-> "FOLLOWER", at |-> n + k, failed |-> FALSE]]
  OBVIOUS
<1>4. /\ replay[s].at = n + 1 /\ queue' = [queue EXCEPT ![s] = Q]
      /\ replay' = [replay EXCEPT ![s] = Running]
      /\ SameClient /\ SameRaft /\ role' = role /\ storage' = storage /\ tracker' = tracker
      /\ arrived' = arrived /\ replicating' = replicating /\ finished' = finished
  BY <1>2, <1>3 DEF StartOrphanedReplicates, client, raft, SameClient, SameRaft
<1>5. ~IsRunning(s)
  BY <1>2, <1>4 DEF IsRunning, Running
<1>6. n \in Nat /\ Len(log[s]) \in Nat /\ DOMAIN log[s] = 1 .. Len(log[s]) /\ n <= Len(log[s])
  <2>1. n \in Nat /\ Len(log[s]) \in Nat /\ DOMAIN log[s] = 1 .. Len(log[s])
    BY <1>1, <1>2, ServerTypes
  <2>2. 1 .. n \subseteq DOMAIN log[s]
    BY <1>2, <1>5, ReplayingIs
  <2> QED BY <2>1, <2>2
<1>7. ASSUME NEW k \in 1 .. (Len(log[s]) - n)
      PROVE  /\ n + k \in DOMAIN log[s] /\ log[s][n + k] \in RequestIds /\ n + k \in Nat
  <2>1. n + k \in DOMAIN log[s] /\ n + k \in Nat
    BY <1>6
  <2> QED BY <1>1, <2>1, ServerTypes, SeqIs
<1>8. /\ Q \in [1 .. (Len(log[s]) - n) -> Ops]
      /\ \A k \in DOMAIN Q : /\ Q[k].id = log[s][Q[k].at] /\ Q[k].kind = "FOLLOWER"
                             /\ Q[k].at = n + k /\ Q[k].failed = FALSE /\ Q[k].at \in DOMAIN log[s]
  BY <1>3, <1>7 DEF Ops
<1>9. Q \in Seq(Ops) /\ DOMAIN Q = 1 .. (Len(log[s]) - n)
  <2>1. Len(log[s]) - n \in Nat
    BY <1>6
  <2> QED BY <1>8, <2>1
<1>10. /\ queue' \in [Servers -> Seq(Ops)] /\ queue'[s] = Q
       /\ \A u \in Servers \ {s} : queue'[u] = queue[u]
  BY <1>1, <1>4, <1>9, Update DEF Types
<1>11. Running \in [at : Nat, upto : Nat, tracked : BOOLEAN]
  BY DEF Running
<1>12. /\ replay' \in [Servers -> [at : Nat, upto : Nat, tracked : BOOLEAN]]
       /\ replay'[s] = Running /\ \A u \in Servers \ {s} : replay'[u] = replay[u]
  BY <1>1, <1>4, <1>11, Update DEF Types
<1>13. Types'
  BY <1>1, <1>4, <1>10, <1>12 DEF Types, SameClient, SameRaft, storage
<1>14. Elsewhere(s)
  BY <1>4, <1>10, <1>12 DEF Elsewhere, SameServer, storage
<1>15. log'[s] = log[s] /\ applied'[s] = applied[s] /\ role'[s] = role[s]
  BY <1>4 DEF storage
<1> QED BY <1>2, <1>4, <1>5, <1>8, <1>9, <1>10, <1>12, <1>13, <1>14, <1>15

-----------------------------------------------------------------------------
(***************************************************************************)
(* Attempts on their way, and attempts in a log                            *)
(***************************************************************************)

\* What the queue of u has of leader ops is what it had, from some position on.
LeadersShift(u) ==
    \E d \in Nat : \A k \in DOMAIN queue'[u] :
        queue'[u][k].kind = "LEADER" =>
            /\ k \in Nat /\ k + d \in LeaderOps(u) /\ queue'[u][k].id = queue[u][k + d].id

NothingArrives(u) == arrived'[u] \subseteq arrived[u] /\ LeadersShift(u)

LEMMA SameServerShifts ==
    ASSUME IInv, NEW u \in Servers, queue'[u] = queue[u]
    PROVE  LeadersShift(u)
<1>1. \A k \in DOMAIN queue[u] : k \in Nat /\ k + 0 = k
  BY ServerTypes DEF IInv
<1>2. \A k \in DOMAIN queue'[u] :
         queue'[u][k].kind = "LEADER" =>
             /\ k \in Nat /\ k + 0 \in LeaderOps(u) /\ queue'[u][k].id = queue[u][k + 0].id
  BY <1>1 DEF LeaderOps
<1> QED BY <1>2 DEF LeadersShift

LEMMA TailShifts ==
    ASSUME IInv, NEW s \in Servers, NEW o, IsHead(s, o)
    PROVE  LeadersShift(s)
<1>1. queue[s] \in Seq(Ops) /\ queue[s] # <<>>
  BY ServerTypes, SeqIs DEF IInv, IsHead
<1>2. PICK r : r = Tail(queue[s])
  OBVIOUS
<1>3. \A k \in DOMAIN r : k \in Nat /\ k >= 1 /\ k + 1 \in DOMAIN queue[s] /\ r[k] = queue[s][k + 1]
  BY <1>1, <1>2, TailIs
<1>4. queue'[s] = r
  BY <1>2 DEF IsHead
<1>5. \A k \in DOMAIN queue'[s] :
         queue'[s][k].kind = "LEADER" =>
             /\ k \in Nat /\ k + 1 \in LeaderOps(s) /\ queue'[s][k].id = queue[s][k + 1].id
  BY <1>3, <1>4 DEF LeaderOps
<1> QED BY <1>5 DEF LeadersShift

LEMMA FewerAttempts ==
    ASSUME NEW u \in Servers, NothingArrives(u)
    PROVE  Waiting(u)' \subseteq Waiting(u)
BY DEF NothingArrives, LeadersShift, Waiting, LeaderOps

LEMMA DistinctKeeps ==
    ASSUME IInv, net' \subseteq net, \A u \in Servers : NothingArrives(u)
    PROVE  DistinctInv'
<1>1. \A u \in Servers : Waiting(u)' \subseteq Waiting(u) /\ arrived'[u] \subseteq arrived[u]
  BY FewerAttempts DEF NothingArrives
<1>2. DistinctInv
  BY DEF IInv
<1>3. (\A m, n \in net : SameAttempt(m.id, n.id) => m = n)'
  BY <1>2 DEF DistinctInv, SameAttempt
<1>4. (\A m \in net, s \in Servers : \A a \in Waiting(s) : ~SameAttempt(m.id, a))'
  BY <1>1, <1>2 DEF DistinctInv, SameAttempt
<1>5. (\A s, u \in Servers : \A a \in Waiting(s), b \in Waiting(u) :
          SameAttempt(a, b) => s = u /\ a = b)'
  BY <1>1, <1>2 DEF DistinctInv, SameAttempt
<1>6. (\A s \in Servers : \A a \in arrived[s], k \in LeaderOps(s) :
          ~SameAttempt(a, queue[s][k].id))'
  <2> SUFFICES ASSUME NEW s \in Servers, NEW a \in arrived'[s], NEW k \in LeaderOps(s)'
               PROVE  ~SameAttempt(a, queue'[s][k].id)
    BY DEF SameAttempt
  <2>1. PICK d \in Nat : k + d \in LeaderOps(s) /\ queue'[s][k].id = queue[s][k + d].id
    BY DEF NothingArrives, LeadersShift, LeaderOps
  <2> QED BY <1>1, <1>2, <2>1 DEF DistinctInv
<1>7. (\A s \in Servers : \A k, l \in LeaderOps(s) :
          SameAttempt(queue[s][k].id, queue[s][l].id) => k = l)'
  <2> SUFFICES ASSUME NEW s \in Servers, NEW k \in LeaderOps(s)', NEW l \in LeaderOps(s)',
                      SameAttempt(queue'[s][k].id, queue'[s][l].id)
               PROVE  k = l
    BY DEF SameAttempt
  <2>1. PICK d \in Nat :
           /\ k \in Nat /\ k + d \in LeaderOps(s) /\ queue'[s][k].id = queue[s][k + d].id
           /\ l \in Nat /\ l + d \in LeaderOps(s) /\ queue'[s][l].id = queue[s][l + d].id
    BY DEF NothingArrives, LeadersShift, LeaderOps
  <2>2. k + d = l + d
    BY <1>2, <2>1 DEF DistinctInv
  <2> QED BY <2>1, <2>2
<1> QED BY <1>3, <1>4, <1>5, <1>6, <1>7 DEF DistinctInv

LEMMA FreshKeeps ==
    ASSUME IInv, sent' = sent, net' \subseteq net,
           \A u \in Servers : Waiting(u)' \subseteq Waiting(u) /\ LoggedOn(u)' \subseteq Logged,
           \A i \in DOMAIN decided' : decided'[i] \in Logged
    PROVE  FreshInv'
<1>1. Unlogged' \subseteq Unlogged /\ Logged' \subseteq Logged
  <2>1. Unlogged' \subseteq Unlogged
    BY DEF Unlogged
  <2>2. Logged' \subseteq Logged
    <3>1. Logged' = {decided'[i] : i \in DOMAIN decided'} \cup UNION {LoggedOn(u)' : u \in Servers}
      BY DEF Logged
    <3> QED BY <3>1
  <2> QED BY <2>1, <2>2
<1>2. FreshInv
  BY DEF IInv
<1> HIDE DEF Unlogged, Logged
<1> QED BY <1>1, <1>2 DEF FreshInv, SameAttempt

LEMMA SameServerLogged ==
    ASSUME NEW u \in Servers, SameServer(u)
    PROVE  /\ LoggedOn(u)' \subseteq Logged /\ Waiting(u)' = Waiting(u)
           /\ arrived'[u] \subseteq arrived[u]
<1>1. LoggedOn(u)' = LoggedOn(u) /\ Waiting(u)' = Waiting(u)
  BY DEF SameServer, LoggedOn, Waiting, LeaderOps, FollowerOps
<1> QED BY <1>1 DEF Logged, SameServer

\* An action that takes attempts from server s, and logs no new one.
LEMMA AttemptsKeep ==
    ASSUME IInv, NEW s \in Servers, Elsewhere(s), sent' = sent, net' \subseteq net,
           NothingArrives(s), LoggedOn(s)' \subseteq Logged,
           \A i \in DOMAIN decided' : decided'[i] \in Logged
    PROVE  FreshInv' /\ DistinctInv'
<1>1. ASSUME NEW u \in Servers PROVE NothingArrives(u) /\ LoggedOn(u)' \subseteq Logged
  <2>1. CASE u = s
    BY <2>1
  <2>2. CASE u # s
    <3>1. SameServer(u)
      BY <2>2 DEF Elsewhere
    <3>2. LeadersShift(u)
      BY <3>1, SameServerShifts DEF SameServer
    <3> QED BY <3>1, <3>2, SameServerLogged DEF NothingArrives
  <2> QED BY <2>1, <2>2
<1>2. \A u \in Servers : Waiting(u)' \subseteq Waiting(u)
  BY <1>1, FewerAttempts
<1> QED BY <1>1, <1>2, DistinctKeeps, FreshKeeps

\* An action that changes no server.
LEMMA AttemptsStay ==
    ASSUME IInv, \A u \in Servers : SameServer(u), sent' = sent, net' \subseteq net,
           \A i \in DOMAIN decided' : decided'[i] \in Logged
    PROVE  FreshInv' /\ DistinctInv'
<1>1. \A u \in Servers : NothingArrives(u) /\ LoggedOn(u)' \subseteq Logged
  BY SameServerShifts, SameServerLogged DEF NothingArrives, SameServer
<1>2. \A u \in Servers : Waiting(u)' \subseteq Waiting(u)
  BY <1>1, FewerAttempts
<1> QED BY <1>1, <1>2, DistinctKeeps, FreshKeeps

LEMMA AttemptTypes ==
    ASSUME IInv, NEW a \in Unlogged \cup Logged
    PROVE  a \in RequestIds /\ a.no <= sent[a.seq] /\ sent[a.seq] \in Nat
<1>1. Types /\ a.no <= sent[a.seq]
  BY DEF IInv, FreshInv
<1>2. a \in RequestIds
  <2>1. CASE \E m \in net : a = m.id
    BY <2>1, FirstIsLow
  <2>2. CASE \E i \in DOMAIN decided : a = decided[i]
    BY <1>1, <2>2, SeqIs DEF Types
  <2>3. CASE \E s \in Servers : a \in Waiting(s)
    BY <2>3, FirstIsLow DEF Waiting, LeaderOps
  <2>4. CASE \E s \in Servers : a \in LoggedOn(s)
    <3>1. PICK s \in Servers : a \in LoggedOn(s)
      BY <2>4
    <3>2. \/ \E i \in DOMAIN log[s] : a = log[s][i]
          \/ \E k \in DOMAIN queue[s] : a = queue[s][k].id
          \/ \E o \in finished[s] \cup replicating[s] : a = o.id
      BY <3>1 DEF LoggedOn, FollowerOps
    <3> QED BY <3>2, FirstIsLow
  <2> QED BY <2>1, <2>2, <2>3, <2>4 DEF Unlogged, Logged
<1>3. sent[a.seq] \in Nat
  BY <1>1, <1>2, IdTypes DEF Types
<1> QED BY <1>1, <1>2, <1>3

LEMMA SendRpcAttempts ==
    ASSUME IInv, NEW q \in Seqs, NEW s \in Servers, SendRpc(q, s)
    PROVE  FreshInv' /\ DistinctInv'
<1>1. /\ SameRaft /\ (\A u \in Servers : SameServer(u)) /\ Types'
      /\ sent'[q] = sent[q] + 1 /\ \A p \in Seqs : sent'[p] >= sent[p]
  BY SendRpcStep
<1>2. PICK id \in RequestIds :
         /\ id.seq = q /\ id.no = sent[q] + 1 /\ id.first <= q
         /\ net' = net \cup {[id |-> id, to |-> s]}
  BY SendRpcStep
<1>3. PICK n : n = [id |-> id, to |-> s]
  OBVIOUS
<1>4. n.id = id /\ net' = net \cup {n}
  BY <1>2, <1>3
<1>5. ASSUME NEW a \in Unlogged \cup Logged PROVE ~SameAttempt(id, a) /\ ~SameAttempt(a, id)
  <2>1. a.no <= sent[a.seq] /\ sent[a.seq] \in Nat /\ a.no \in Nat
    BY AttemptTypes, IdTypes
  <2> QED BY <1>2, <2>1 DEF SameAttempt
<1>6. \A u \in Servers : Waiting(u)' = Waiting(u) /\ LoggedOn(u)' = LoggedOn(u)
                         /\ LeaderOps(u)' = LeaderOps(u)
  BY <1>1 DEF SameServer, LoggedOn, Waiting, LeaderOps, FollowerOps
<1>7. /\ \A m \in net : m.id \in Unlogged
      /\ \A u \in Servers : \A a \in Waiting(u) : a \in Unlogged
  BY DEF Unlogged
<1>8. Unlogged' = Unlogged \cup {id} /\ Logged' = Logged
  <2>1. Unlogged' = {m.id : m \in net'} \cup UNION {Waiting(u)' : u \in Servers}
    BY DEF Unlogged
  <2>2. Logged' = {decided[i] : i \in DOMAIN decided} \cup UNION {LoggedOn(u)' : u \in Servers}
    BY <1>1 DEF Logged, SameRaft
  <2>3. \A a : a \in Unlogged' <=> a \in Unlogged \cup {id}
    BY <1>4, <1>6, <2>1 DEF Unlogged
  <2>4. \A a : a \in Logged' <=> a \in Logged
    BY <1>6, <2>2 DEF Logged
  <2> QED BY <2>3, <2>4
<1>9. FreshInv'
  <2> HIDE DEF Unlogged, Logged
  <2>1. FreshInv
    BY DEF IInv
  <2>2. \A a \in Unlogged', b \in Logged' : ~SameAttempt(a, b)
    BY <1>5, <1>8, <2>1 DEF FreshInv
  <2>3. ASSUME NEW a \in Unlogged' \cup Logged' PROVE a.no <= sent'[a.seq] /\ a.first <= a.seq
    <3>1. CASE a = id
      <4>1. sent'[q] \in Nat
        BY <1>1 DEF Types
      <4> QED BY <1>1, <1>2, <3>1, <4>1
    <3>2. CASE a # id
      <4>1. a \in Unlogged \cup Logged
        BY <1>8, <3>2
      <4>2. a.no <= sent[a.seq] /\ a.first <= a.seq
        BY <2>1, <4>1 DEF FreshInv
      <4>3. a.no \in Nat /\ sent[a.seq] \in Nat /\ sent'[a.seq] \in Nat /\ a.seq \in Seqs
        BY <1>1, <4>1, AttemptTypes, IdTypes DEF Types
      <4> QED BY <1>1, <4>2, <4>3
    <3> QED BY <3>1, <3>2
  <2> QED BY <2>2, <2>3 DEF FreshInv, SameAttempt
<1>10. DistinctInv'
  <2>1. DistinctInv
    BY DEF IInv
  <2>2. \A m, k \in net' : SameAttempt(m.id, k.id) => m = k
    BY <1>4, <1>5, <1>7, <2>1 DEF DistinctInv
  <2>3. \A m \in net', u \in Servers : \A a \in Waiting(u) : ~SameAttempt(m.id, a)
    BY <1>4, <1>5, <1>7, <2>1 DEF DistinctInv
  <2>4. \A u \in Servers : arrived'[u] = arrived[u] /\ queue'[u] = queue[u]
    BY <1>1 DEF SameServer
  <2> QED BY <1>6, <2>1, <2>2, <2>3, <2>4 DEF DistinctInv, SameAttempt
<1> QED BY <1>9, <1>10

LEMMA HandleAttempts ==
    ASSUME IInv, NEW m \in net, Handle(m)
    PROVE  FreshInv' /\ DistinctInv'
<1>1. PICK s : s = m.to
  OBVIOUS
<1>2. /\ s \in Servers /\ SameRaft /\ Elsewhere(s) /\ SameStore(s)
      /\ sent' = sent /\ net' = net \ {m}
      /\ queue'[s] = queue[s] /\ replicating'[s] = replicating[s] /\ finished'[s] = finished[s]
      /\ arrived'[s] = arrived[s] \/ arrived'[s] = arrived[s] \cup {m.id}
  BY <1>1, HandleStep
<1>3. \A u \in Servers : /\ u # s => arrived'[u] = arrived[u]
                         /\ queue'[u] = queue[u] /\ LoggedOn(u)' = LoggedOn(u)
                         /\ LeaderOps(u)' = LeaderOps(u)
  BY <1>2 DEF Elsewhere, SameServer, SameStore, LoggedOn, LeaderOps, FollowerOps
<1>4. /\ \A u \in Servers : u # s => Waiting(u)' = Waiting(u)
      /\ Waiting(s)' \subseteq Waiting(s) \cup {m.id}
      /\ \A u \in Servers : arrived'[u] \subseteq arrived[u] \cup {m.id}
  BY <1>2, <1>3 DEF Waiting
<1>5. m.id \in Unlogged
  BY DEF Unlogged
<1>6. FreshInv'
  <2>1. Unlogged' \subseteq Unlogged /\ Logged' \subseteq Logged
    <3>1. Unlogged' = {n.id : n \in net'} \cup UNION {Waiting(u)' : u \in Servers}
      BY DEF Unlogged
    <3>2. \A u \in Servers : Waiting(u)' \subseteq Unlogged
      BY <1>4, <1>5 DEF Unlogged
    <3>3. Logged' = {decided[i] : i \in DOMAIN decided} \cup UNION {LoggedOn(u)' : u \in Servers}
      BY <1>2 DEF Logged, SameRaft
    <3>4. \A a \in Logged' : a \in Logged
      BY <1>3, <3>3 DEF Logged
    <3>5. \A n \in net' : n.id \in Unlogged
      BY <1>2 DEF Unlogged
    <3> QED BY <3>1, <3>2, <3>4, <3>5
  <2>2. FreshInv
    BY DEF IInv
  <2> HIDE DEF Unlogged, Logged
  <2> QED BY <1>2, <2>1, <2>2 DEF FreshInv, SameAttempt
<1>7. DistinctInv'
  <2>1. DistinctInv
    BY DEF IInv
  <2>2. \A n \in net' : n \in net /\ ~SameAttempt(n.id, m.id)
    BY <1>2, <2>1 DEF DistinctInv
  <2>3. \A u \in Servers : \A a \in Waiting(u) : ~SameAttempt(m.id, a) /\ ~SameAttempt(a, m.id)
    BY <2>1 DEF DistinctInv, SameAttempt
  <2>4. \A n, k \in net' : SameAttempt(n.id, k.id) => n = k
    BY <2>1, <2>2 DEF DistinctInv
  <2>5. \A n \in net', u \in Servers : \A a \in Waiting(u)' : ~SameAttempt(n.id, a)
    BY <1>4, <2>1, <2>2 DEF DistinctInv
  <2>6. \A v, u \in Servers : \A a \in Waiting(v)', b \in Waiting(u)' :
           SameAttempt(a, b) => v = u /\ a = b
    BY <1>2, <1>4, <2>1, <2>3 DEF DistinctInv
  <2>7. ASSUME NEW u \in Servers, NEW a \in arrived'[u], NEW k \in LeaderOps(u)
        PROVE  ~SameAttempt(a, queue[u][k].id)
    <3>1. queue[u][k].id \in Waiting(u)
      BY DEF Waiting
    <3> QED BY <1>4, <2>1, <2>3, <3>1 DEF DistinctInv
  <2> QED BY <1>3, <2>1, <2>4, <2>5, <2>6, <2>7 DEF DistinctInv, SameAttempt
<1> QED BY <1>6, <1>7

LEMMA ExecuteAsyncAttempts ==
    ASSUME IInv, NEW s \in Servers, NEW id \in arrived[s], ExecuteAsync(s, id)
    PROVE  FreshInv' /\ DistinctInv'
<1>1. /\ SameRaft /\ Elsewhere(s) /\ SameStore(s) /\ SameClient
      /\ arrived'[s] = arrived[s] \ {id}
      /\ replicating'[s] = replicating[s] /\ finished'[s] = finished[s]
      /\ \/ \E o \in Ops : o.id = id /\ o.kind = "LEADER" /\ queue'[s] = Append(queue[s], o)
         \/ queue'[s] = queue[s]
  BY ExecuteAsyncStep
<1>2. sent' = sent /\ net' = net /\ (\A i \in DOMAIN decided' : decided'[i] \in Logged)
      /\ LoggedOn(s) \subseteq Logged
  BY <1>1 DEF SameClient, SameRaft, Logged
<1>3. CASE queue'[s] = queue[s]
  <2>1. LoggedOn(s)' = LoggedOn(s)
    BY <1>1, <1>3 DEF LoggedOn, FollowerOps, SameStore
  <2>2. NothingArrives(s)
    BY <1>1, <1>3, SameServerShifts DEF NothingArrives
  <2> QED BY <1>1, <1>2, <2>1, <2>2, AttemptsKeep
<1>4. CASE \E o \in Ops : o.id = id /\ o.kind = "LEADER" /\ queue'[s] = Append(queue[s], o)
  <2>1. PICK o \in Ops : o.id = id /\ o.kind = "LEADER" /\ queue'[s] = Append(queue[s], o)
    BY <1>4
  <2>2. PICK n : n = Len(queue[s]) + 1
    OBVIOUS
  <2>3. /\ \A k \in DOMAIN queue[s] : k \in DOMAIN queue'[s] /\ queue'[s][k] = queue[s][k]
        /\ n \in DOMAIN queue'[s] /\ queue'[s][n] = o
        /\ \A k \in DOMAIN queue'[s] : k \in DOMAIN queue[s] \/ k = n
        /\ n \notin DOMAIN queue[s]
    <3>1. queue[s] \in Seq(Ops) /\ Len(queue[s]) \in Nat /\ DOMAIN queue[s] = 1 .. Len(queue[s])
      BY ServerTypes DEF IInv
    <3>2. n \notin DOMAIN queue[s]
      BY <2>2, <3>1
    <3> QED BY <2>1, <2>2, <3>1, <3>2, AppendIs
  <2>4. FollowerOps(s)' = FollowerOps(s) /\ LeaderOps(s)' = LeaderOps(s) \cup {n}
    BY <2>1, <2>3 DEF FollowerOps, LeaderOps
  <2>5. LoggedOn(s)' = LoggedOn(s)
    <3>1. \A k \in FollowerOps(s) : queue'[s][k] = queue[s][k]
      BY <2>3 DEF FollowerOps
    <3> QED BY <1>1, <2>4, <3>1 DEF LoggedOn, SameStore
  <2>6. \A a \in Waiting(s)' : a \in Waiting(s)
    BY <1>1, <2>1, <2>3, <2>4 DEF Waiting, LeaderOps
  <2>7. \A u \in Servers \ {s} : SameServer(u)
    BY <1>1 DEF Elsewhere
  <2>8. ASSUME NEW u \in Servers
        PROVE  Waiting(u)' \subseteq Waiting(u) /\ LoggedOn(u)' \subseteq Logged
    BY <1>2, <2>5, <2>6, <2>7, SameServerLogged
  <2>9. FreshInv'
    BY <1>2, <2>8, FreshKeeps
  <2>10. DistinctInv
    BY DEF IInv
  <2>11. id \in Waiting(s)
    BY DEF Waiting
  <2>12. ASSUME NEW u \in Servers, NEW a \in arrived'[u], NEW k \in LeaderOps(u)'
         PROVE  ~SameAttempt(a, queue'[u][k].id)
    <3>1. CASE u # s
      <4>1. SameServer(u)
        BY <2>7, <3>1
      <4>2. a \in arrived[u] /\ k \in LeaderOps(u) /\ queue'[u][k] = queue[u][k]
        BY <4>1 DEF SameServer, LeaderOps
      <4> QED BY <2>10, <4>2 DEF DistinctInv
    <3>2. CASE u = s /\ k = n
      <4>1. a \in Waiting(s) /\ a # id /\ queue'[s][n].id = id
        BY <1>1, <2>1, <2>3, <3>2 DEF Waiting
      <4> QED BY <2>10, <2>11, <3>2, <4>1 DEF DistinctInv
    <3>3. CASE u = s /\ k # n
      <4>1. a \in arrived[s] /\ k \in LeaderOps(s) /\ queue'[s][k] = queue[s][k]
        BY <1>1, <2>3, <2>4, <3>3 DEF LeaderOps
      <4> QED BY <2>10, <3>3, <4>1 DEF DistinctInv
    <3> QED BY <3>1, <3>2, <3>3
  <2>13. ASSUME NEW u \in Servers, NEW k \in LeaderOps(u)', NEW l \in LeaderOps(u)',
                SameAttempt(queue'[u][k].id, queue'[u][l].id)
         PROVE  k = l
    <3>1. CASE u # s
      <4>1. SameServer(u)
        BY <2>7, <3>1
      <4>2. /\ k \in LeaderOps(u) /\ queue'[u][k] = queue[u][k]
            /\ l \in LeaderOps(u) /\ queue'[u][l] = queue[u][l]
        BY <4>1 DEF SameServer, LeaderOps
      <4> QED BY <2>10, <2>13, <4>2 DEF DistinctInv
    <3>2. CASE u = s
      <4>1. ASSUME NEW j \in LeaderOps(s)
            PROVE  queue'[s][j] = queue[s][j] /\ ~SameAttempt(id, queue[s][j].id)
                   /\ ~SameAttempt(queue[s][j].id, id)
        <5>1. queue'[s][j] = queue[s][j]
          BY <2>3 DEF LeaderOps
        <5> QED BY <2>10, <5>1 DEF DistinctInv, SameAttempt
      <4>2. queue'[s][n].id = id
        BY <2>1, <2>3
      <4>3. (k = n \/ k \in LeaderOps(s)) /\ (l = n \/ l \in LeaderOps(s))
        BY <2>4, <3>2
      <4>4. SameAttempt(queue'[s][k].id, queue'[s][l].id)
        BY <2>13, <3>2
      <4> QED BY <2>10, <4>1, <4>2, <4>3, <4>4 DEF DistinctInv
    <3> QED BY <3>1, <3>2
  <2>14. /\ \A m, k \in net' : SameAttempt(m.id, k.id) => m = k
         /\ \A m \in net', u \in Servers : \A a \in Waiting(u)' : ~SameAttempt(m.id, a)
         /\ \A v, u \in Servers : \A a \in Waiting(v)', b \in Waiting(u)' :
               SameAttempt(a, b) => v = u /\ a = b
    BY <1>2, <2>8, <2>10 DEF DistinctInv
  <2>15. DistinctInv'
    BY <2>12, <2>13, <2>14 DEF DistinctInv, SameAttempt
  <2> QED BY <2>9, <2>15
<1> QED BY <1>1, <1>3, <1>4

LEMMA TailLogged ==
    ASSUME IInv, NEW s \in Servers, NEW o, IsHead(s, o)
    PROVE  \A k \in FollowerOps(s)' : \E l \in FollowerOps(s) : queue'[s][k] = queue[s][l]
<1>1. queue[s] \in Seq(Ops) /\ queue[s] # <<>>
  BY ServerTypes, SeqIs DEF IInv, IsHead
<1>2. PICK r : r = Tail(queue[s])
  OBVIOUS
<1>3. \A k \in DOMAIN r : k + 1 \in DOMAIN queue[s] /\ r[k] = queue[s][k + 1]
  BY <1>1, <1>2, TailIs
<1>4. queue'[s] = r
  BY <1>2 DEF IsHead
<1> QED BY <1>3, <1>4 DEF FollowerOps

\* A leader op at the head of the queue is the only one of its attempt.
LEMMA HeadIsAlone ==
    ASSUME IInv, NEW s \in Servers, NEW o, IsHead(s, o), o.kind = "LEADER", arrived'[s] = arrived[s]
    PROVE  /\ o.id \in Waiting(s)
           /\ \A a \in Waiting(s)' : a \in Waiting(s) /\ ~SameAttempt(a, o.id)
<1>1. queue[s] \in Seq(Ops) /\ queue[s] # <<>>
  BY ServerTypes, SeqIs DEF IInv, IsHead
<1>2. PICK r : r = Tail(queue[s])
  OBVIOUS
<1>3. \A k \in DOMAIN r : k \in Nat /\ k >= 1 /\ k + 1 \in DOMAIN queue[s] /\ r[k] = queue[s][k + 1]
  BY <1>1, <1>2, TailIs
<1>4. queue'[s] = r /\ 1 \in LeaderOps(s) /\ queue[s][1] = o
  BY <1>2 DEF IsHead, LeaderOps
<1>5. DistinctInv
  BY DEF IInv
<1>6. ASSUME NEW a \in arrived[s] PROVE ~SameAttempt(a, o.id)
  BY <1>4, <1>5 DEF DistinctInv
<1>7. ASSUME NEW k \in LeaderOps(s)'
      PROVE  queue'[s][k].id \in Waiting(s) /\ ~SameAttempt(queue'[s][k].id, o.id)
  <2>1. k \in Nat /\ k >= 1 /\ k + 1 \in LeaderOps(s) /\ queue'[s][k] = queue[s][k + 1]
    BY <1>3, <1>4 DEF LeaderOps
  <2>2. k + 1 # 1
    BY <2>1
  <2> QED BY <1>4, <1>5, <2>1, <2>2 DEF DistinctInv, Waiting
<1>8. \A a \in Waiting(s)' : a \in arrived[s] \/ \E k \in LeaderOps(s)' : a = queue'[s][k].id
  BY DEF Waiting
<1> QED BY <1>4, <1>6, <1>7, <1>8 DEF Waiting

LEMMA LeaderOpFailsAttempts ==
    ASSUME IInv, NEW s \in Servers, NEW o, LeaderOpFails(s, o), Elsewhere(s), SameRaft, SameClient
    PROVE  FreshInv' /\ DistinctInv'
<1>1. /\ IsHead(s, o) /\ log'[s] = log[s] /\ arrived'[s] = arrived[s]
      /\ replicating'[s] = replicating[s] /\ finished'[s] = finished[s]
      /\ sent' = sent /\ net' = net /\ decided' = decided
  BY DEF LeaderOpFails, SameStore, SameClient, SameRaft
<1>2. LoggedOn(s)' \subseteq Logged /\ \A i \in DOMAIN decided' : decided'[i] \in Logged
  <2>1. LoggedOn(s)' \subseteq LoggedOn(s)
    BY <1>1, TailLogged DEF LoggedOn
  <2> QED BY <1>1, <2>1 DEF Logged
<1>3. NothingArrives(s)
  BY <1>1, TailShifts DEF NothingArrives
<1> QED BY <1>1, <1>2, <1>3, AttemptsKeep

\* From here on the attempt is a logged one.
LEMMA LeaderOpLoggedAttempts ==
    ASSUME IInv, NEW s \in Servers, NEW o, LeaderOpLogged(s, o), Elsewhere(s), SameRaft, SameClient,
           o.id \in RequestIds
    PROVE  FreshInv' /\ DistinctInv'
<1>1. /\ IsHead(s, o) /\ o.kind = "LEADER" /\ arrived'[s] = arrived[s]
      /\ finished'[s] = finished[s] /\ log'[s] = Append(log[s], o.id)
      /\ sent' = sent /\ net' = net /\ decided' = decided
      /\ \A p \in replicating'[s] : p \in replicating[s] \/ p.id = o.id
  BY DEF LeaderOpLogged, SameClient, SameRaft
<1>2. \A u \in Servers \ {s} : SameServer(u)
  BY DEF Elsewhere
<1>3. \A u \in Servers : NothingArrives(u)
  BY <1>1, <1>2, TailShifts, SameServerShifts DEF NothingArrives, SameServer
<1>4. DistinctInv'
  BY <1>1, <1>3, DistinctKeeps
<1>5. /\ o.id \in Waiting(s) /\ o.id \in Unlogged
      /\ \A a \in Waiting(s)' : a \in Waiting(s) /\ ~SameAttempt(a, o.id)
  <2>1. /\ o.id \in Waiting(s)
        /\ \A a \in Waiting(s)' : a \in Waiting(s) /\ ~SameAttempt(a, o.id)
    BY <1>1, HeadIsAlone
  <2> QED BY <2>1 DEF Unlogged
<1>6. ASSUME NEW a \in Unlogged' PROVE a \in Unlogged /\ ~SameAttempt(a, o.id)
  <2>1. DistinctInv
    BY DEF IInv
  <2>2. CASE \E m \in net : a = m.id
    BY <1>5, <2>1, <2>2 DEF DistinctInv, Unlogged
  <2>3. CASE \E u \in Servers : a \in Waiting(u)'
    <3>1. PICK u \in Servers : a \in Waiting(u)'
      BY <2>3
    <3>2. CASE u = s
      BY <1>5, <3>1, <3>2 DEF Unlogged
    <3>3. CASE u # s
      <4>1. a \in Waiting(u)
        BY <1>2, <3>1, <3>3, SameServerLogged
      <4> QED BY <1>5, <2>1, <3>3, <4>1 DEF DistinctInv, Unlogged
    <3> QED BY <3>2, <3>3
  <2>4. Unlogged' = {m.id : m \in net} \cup UNION {Waiting(u)' : u \in Servers}
    BY <1>1 DEF Unlogged
  <2> QED BY <2>2, <2>3, <2>4
<1>7. \A b \in Logged' : b \in Logged \/ b = o.id
  <2>1. Logged' = {decided[i] : i \in DOMAIN decided} \cup UNION {LoggedOn(u)' : u \in Servers}
    BY <1>1 DEF Logged
  <2>2. \A u \in Servers \ {s} : LoggedOn(u)' \subseteq Logged
    BY <1>2, SameServerLogged
  <2>3. \A b \in LoggedOn(s)' : b \in LoggedOn(s) \/ b = o.id
    <3>1. \A i \in DOMAIN log'[s] : log'[s][i] = o.id \/ (i \in DOMAIN log[s] /\ log'[s][i] = log[s][i])
      <4>1. log[s] \in Seq(RequestIds)
        BY ServerTypes DEF IInv
      <4> QED BY <1>1, <4>1, AppendIs
    <3>2. \A b \in LoggedOn(s)' :
             \/ \E i \in DOMAIN log'[s] : b = log'[s][i]
             \/ \E k \in FollowerOps(s)' : b = queue'[s][k].id
             \/ \E p \in replicating'[s] \cup finished'[s] : b = p.id
      BY DEF LoggedOn
    <3>3. \A k \in FollowerOps(s)' : \E l \in FollowerOps(s) : queue'[s][k] = queue[s][l]
      BY <1>1, TailLogged
    <3> QED BY <1>1, <3>1, <3>2, <3>3 DEF LoggedOn
  <2>4. LoggedOn(s) \subseteq Logged /\ \A i \in DOMAIN decided : decided[i] \in Logged
    BY DEF Logged
  <2> QED BY <2>1, <2>2, <2>3, <2>4
<1>8. FreshInv
  BY DEF IInv
<1> HIDE DEF Unlogged, Logged
<1> QED BY <1>1, <1>4, <1>5, <1>6, <1>7, <1>8 DEF FreshInv, SameAttempt

LEMMA FollowerOpAttempts ==
    ASSUME IInv, NEW s \in Servers, NEW o, PrepareFollowerOp(s, o)
    PROVE  FreshInv' /\ DistinctInv'
<1>1. /\ Elsewhere(s) /\ SameRaft /\ SameClient /\ SameStore(s)
      /\ IsHead(s, o) /\ o.kind = "FOLLOWER"
      /\ arrived'[s] = arrived[s] /\ finished'[s] = finished[s]
      /\ \E x : FollowerOpFails(s, o, x) \/ FollowerOpDrives(s, o, x)
  BY PrepareFollowerOpStep
<1>2. sent' = sent /\ net' = net /\ decided' = decided /\ log'[s] = log[s]
  BY <1>1 DEF SameClient, SameRaft, SameStore
<1>3. \A p \in replicating'[s] : p \in replicating[s] \/ p.id = o.id
  BY <1>1 DEF FollowerOpFails, FollowerOpDrives
<1>4. LoggedOn(s)' \subseteq Logged /\ \A i \in DOMAIN decided' : decided'[i] \in Logged
  <2>1. o.id \in LoggedOn(s)
    <3>1. 1 \in FollowerOps(s) /\ queue[s][1] = o
      BY <1>1 DEF IsHead, FollowerOps
    <3> QED BY <3>1 DEF LoggedOn
  <2>2. LoggedOn(s)' \subseteq LoggedOn(s)
    <3>1. \A k \in FollowerOps(s)' : \E l \in FollowerOps(s) : queue'[s][k] = queue[s][l]
      BY <1>1, TailLogged
    <3>2. \A b \in LoggedOn(s)' :
             \/ \E i \in DOMAIN log'[s] : b = log'[s][i]
             \/ \E k \in FollowerOps(s)' : b = queue'[s][k].id
             \/ \E p \in replicating'[s] \cup finished'[s] : b = p.id
      BY DEF LoggedOn
    <3>3. ASSUME NEW p \in replicating'[s] \cup finished'[s] PROVE p.id \in LoggedOn(s)
      <4>1. p \in replicating[s] \cup finished[s] \/ p.id = o.id
        BY <1>1, <1>3
      <4> QED BY <2>1, <4>1 DEF LoggedOn
    <3>4. ASSUME NEW k \in FollowerOps(s)' PROVE queue'[s][k].id \in LoggedOn(s)
      BY <3>1 DEF LoggedOn
    <3>5. \A i \in DOMAIN log'[s] : log'[s][i] \in LoggedOn(s)
      BY <1>2 DEF LoggedOn
    <3> QED BY <3>2, <3>3, <3>4, <3>5
  <2> QED BY <1>2, <2>2 DEF Logged
<1>5. NothingArrives(s)
  BY <1>1, TailShifts DEF NothingArrives
<1> QED BY <1>1, <1>2, <1>4, <1>5, AttemptsKeep

LEMMA ApplyTaskAttempts ==
    ASSUME IInv, NEW s \in Servers, NEW o \in replicating[s], ApplyTask(s, o)
    PROVE  FreshInv' /\ DistinctInv'
<1>1. /\ SameRaft /\ Elsewhere(s) /\ SameClient
      /\ log'[s] = log[s] /\ arrived'[s] = arrived[s] /\ queue'[s] = queue[s]
      /\ replicating'[s] = replicating[s] \ {o}
      /\ \A f \in finished'[s] : f \in finished[s] \/ f.id = o.id
  <2>1. \A f \in finished'[s] :
           f \in finished[s] \/ (o.tracked /\ f.id = o.id /\ f.at = o.at /\ f.ok = TRUE)
    BY ApplyTaskStep
  <2>2. \A f \in finished'[s] : f \in finished[s] \/ f.id = o.id
    BY <2>1
  <2> QED BY <2>2, ApplyTaskStep
<1>2. sent' = sent /\ net' = net /\ decided' = decided
  BY <1>1 DEF SameClient, SameRaft
<1>3. LoggedOn(s)' \subseteq Logged /\ \A i \in DOMAIN decided' : decided'[i] \in Logged
  <2>1. o.id \in LoggedOn(s)
    BY DEF LoggedOn
  <2>2. LoggedOn(s)' \subseteq LoggedOn(s)
    BY <1>1, <2>1 DEF LoggedOn, FollowerOps
  <2> QED BY <1>2, <2>2 DEF Logged
<1>4. NothingArrives(s)
  BY <1>1, SameServerShifts DEF NothingArrives
<1> QED BY <1>1, <1>2, <1>3, <1>4, AttemptsKeep

LEMMA NothingLogged ==
    ASSUME IInv, NEW s \in Servers, Elsewhere(s), SameClient,
           \A i \in DOMAIN decided' : decided'[i] \in Logged,
           log'[s] = log[s], arrived'[s] = arrived[s], queue'[s] = queue[s],
           replicating'[s] = replicating[s], finished'[s] \subseteq finished[s]
    PROVE  FreshInv' /\ DistinctInv'
<1>1. sent' = sent /\ net' = net
  BY DEF SameClient
<1>2. LoggedOn(s)' \subseteq Logged
  <2>1. LoggedOn(s)' \subseteq LoggedOn(s)
    BY DEF LoggedOn, FollowerOps
  <2> QED BY <1>1, <2>1 DEF Logged
<1>3. NothingArrives(s)
  BY SameServerShifts DEF NothingArrives
<1> QED BY <1>1, <1>2, <1>3, AttemptsKeep

LEMMA DecidedLogged ==
    ASSUME IInv, NEW s \in Servers, Types', Extends(log[s], decided')
    PROVE  \A i \in DOMAIN decided' : i \in DOMAIN log[s] /\ decided'[i] \in Logged
<1>1. /\ DOMAIN log[s] = 1 .. Len(log[s]) /\ Len(log[s]) \in Nat
      /\ DOMAIN decided' = 1 .. Len(decided') /\ Len(decided') \in Nat
  BY ServerTypes, SeqIs DEF IInv, Types
<1>2. ASSUME NEW i \in DOMAIN decided' PROVE i \in DOMAIN log[s] /\ decided'[i] = log[s][i]
  BY <1>1 DEF Extends
<1>3. \A i \in DOMAIN log[s] : log[s][i] \in Logged
  BY DEF Logged, LoggedOn
<1> QED BY <1>2, <1>3

LEMMA StartFollowerOpAttempts ==
    ASSUME IInv, NEW s \in Servers, NEW l \in Servers, StartFollowerOp(l, s)
    PROVE  FreshInv' /\ DistinctInv'
<1>1. /\ Elsewhere(s) /\ SameClient /\ SameRaft /\ arrived'[s] = arrived[s]
      /\ replicating'[s] = replicating[s] /\ finished'[s] = finished[s]
      /\ Len(log[s]) + 1 \in DOMAIN log[l]
  BY StartFollowerOpStep
<1>2. PICK o \in Ops : /\ o.id = log[l][Len(log[s]) + 1] /\ o.kind = "FOLLOWER"
                       /\ log'[s] = Append(log[s], o.id) /\ queue'[s] = Append(queue[s], o)
  BY StartFollowerOpStep
<1>3. log[s] \in Seq(RequestIds) /\ queue[s] \in Seq(Ops) /\ o.id \in RequestIds
  BY <1>2, ServerTypes, OpTypes DEF IInv
<1>4. \A i \in DOMAIN log'[s] : log'[s][i] = o.id \/ (i \in DOMAIN log[s] /\ log'[s][i] = log[s][i])
  BY <1>2, <1>3, AppendIs
<1>5. \A k \in DOMAIN queue'[s] :
         queue'[s][k] = o \/ (k \in DOMAIN queue[s] /\ queue'[s][k] = queue[s][k])
  BY <1>2, <1>3, AppendIs
<1>6. sent' = sent /\ net' = net /\ decided' = decided
  BY <1>1 DEF SameClient, SameRaft
<1>7. LoggedOn(s) \subseteq Logged /\ o.id \in Logged
      /\ \A i \in DOMAIN decided' : decided'[i] \in Logged
  BY <1>1, <1>2, <1>6 DEF Logged, LoggedOn
<1>8. LoggedOn(s)' \subseteq Logged
  <2>1. \A b \in LoggedOn(s)' :
           \/ \E i \in DOMAIN log'[s] : b = log'[s][i]
           \/ \E k \in FollowerOps(s)' : b = queue'[s][k].id
           \/ \E p \in replicating'[s] \cup finished'[s] : b = p.id
    BY DEF LoggedOn
  <2>2. \A k \in FollowerOps(s)' :
           queue'[s][k] = o \/ (k \in FollowerOps(s) /\ queue'[s][k] = queue[s][k])
    BY <1>5 DEF FollowerOps
  <2>3. \A b \in LoggedOn(s)' : b \in LoggedOn(s) \/ b = o.id
    BY <1>1, <1>4, <2>1, <2>2 DEF LoggedOn
  <2> QED BY <1>7, <2>3
<1>9. NothingArrives(s)
  <2>1. \A k \in DOMAIN queue[s] : k \in Nat /\ k + 0 = k
    BY ServerTypes DEF IInv
  <2>2. \A k \in DOMAIN queue'[s] :
           queue'[s][k].kind = "LEADER" =>
               /\ k \in Nat /\ k + 0 \in LeaderOps(s) /\ queue'[s][k].id = queue[s][k + 0].id
    BY <1>2, <1>5, <2>1 DEF LeaderOps
  <2> QED BY <1>1, <2>2 DEF NothingArrives, LeadersShift
<1> QED BY <1>1, <1>6, <1>7, <1>8, <1>9, AttemptsKeep

LEMMA TruncateLogAttempts ==
    ASSUME IInv, NEW s \in Servers, NEW i \in DOMAIN log[s], TruncateLog(s, i)
    PROVE  FreshInv' /\ DistinctInv'
<1>1. /\ Elsewhere(s) /\ SameClient /\ SameRaft /\ arrived'[s] = arrived[s]
      /\ DOMAIN log'[s] = 1 .. i - 1 /\ (\A k \in 1 .. i - 1 : log'[s][k] = log[s][k])
      /\ Aborted(queue[s], queue'[s], i)
      /\ \A o \in replicating'[s] : o \in replicating[s]
  BY TruncateLogStep
<1>2. \A f \in finished'[s] : \/ f \in finished[s]
                              \/ \E o \in replicating[s] : f.id = o.id
  <2>1. \A f \in finished'[s] :
           \/ f \in finished[s]
           \/ ~f.ok /\ \E o \in replicating[s] : o.at >= i /\ f.id = o.id
    BY TruncateLogStep
  <2> QED BY <2>1
<1>3. sent' = sent /\ net' = net /\ decided' = decided
  BY <1>1 DEF SameClient, SameRaft
<1>4. \A k \in 1 .. i - 1 : k \in DOMAIN log[s]
  BY ServerTypes DEF IInv
<1>5. DOMAIN queue'[s] = DOMAIN queue[s]
      /\ \A k \in DOMAIN queue[s] : queue'[s][k].id = queue[s][k].id
                                    /\ queue'[s][k].kind = queue[s][k].kind
  BY <1>1 DEF Aborted
<1>6. LoggedOn(s)' \subseteq Logged /\ \A k \in DOMAIN decided' : decided'[k] \in Logged
  <2>1. \A b \in LoggedOn(s)' :
           \/ \E k \in DOMAIN log'[s] : b = log'[s][k]
           \/ \E k \in FollowerOps(s)' : b = queue'[s][k].id
           \/ \E p \in replicating'[s] \cup finished'[s] : b = p.id
    BY DEF LoggedOn
  <2>2. \A k \in FollowerOps(s)' : k \in FollowerOps(s) /\ queue'[s][k].id = queue[s][k].id
    BY <1>5 DEF FollowerOps
  <2>3. \A p \in replicating'[s] \cup finished'[s] :
           \E o \in replicating[s] \cup finished[s] : p.id = o.id
    BY <1>1, <1>2
  <2>4. LoggedOn(s)' \subseteq LoggedOn(s)
    BY <1>1, <1>4, <2>1, <2>2, <2>3 DEF LoggedOn
  <2> QED BY <1>3, <2>4 DEF Logged
<1>7. NothingArrives(s)
  <2>1. \A k \in DOMAIN queue[s] : k \in Nat /\ k + 0 = k
    BY ServerTypes DEF IInv
  <2>2. \A k \in DOMAIN queue'[s] :
           queue'[s][k].kind = "LEADER" =>
               /\ k \in Nat /\ k + 0 \in LeaderOps(s) /\ queue'[s][k].id = queue[s][k + 0].id
    BY <1>5, <2>1 DEF LeaderOps
  <2> QED BY <1>1, <2>2 DEF NothingArrives, LeadersShift
<1> QED BY <1>1, <1>3, <1>6, <1>7, AttemptsKeep

LEMMA CrashAttempts ==
    ASSUME IInv, NEW s \in Servers, Crash(s)
    PROVE  FreshInv' /\ DistinctInv'
<1>1. /\ Elsewhere(s) /\ SameRaft /\ sent' = sent /\ net' \subseteq net
      /\ log'[s] = log[s] /\ arrived'[s] = {} /\ queue'[s] = <<>>
      /\ replicating'[s] = {} /\ finished'[s] = {}
  BY CrashStep
<1>2. \A i \in DOMAIN decided' : decided'[i] \in Logged
  BY <1>1 DEF SameRaft, Logged
<1>3. DOMAIN queue'[s] = {}
  BY <1>1
<1>4. LoggedOn(s)' \subseteq Logged
  <2>1. LoggedOn(s)' \subseteq LoggedOn(s)
    BY <1>1, <1>3 DEF LoggedOn, FollowerOps
  <2> QED BY <2>1 DEF Logged
<1>5. NothingArrives(s)
  <2>1. \A k \in DOMAIN queue'[s] :
           queue'[s][k].kind = "LEADER" =>
               /\ k \in Nat /\ k + 0 \in LeaderOps(s) /\ queue'[s][k].id = queue[s][k + 0].id
    BY <1>3
  <2> QED BY <1>1, <2>1 DEF NothingArrives, LeadersShift
<1> QED BY <1>1, <1>2, <1>4, <1>5, AttemptsKeep

LEMMA StartOrphanedReplicatesAttempts ==
    ASSUME IInv, NEW s \in Servers, StartOrphanedReplicates(s)
    PROVE  FreshInv' /\ DistinctInv'
<1>1. /\ Elsewhere(s) /\ SameClient /\ SameRaft
      /\ log'[s] = log[s] /\ arrived'[s] = arrived[s]
      /\ replicating'[s] = replicating[s] /\ finished'[s] = finished[s]
      /\ \A k \in DOMAIN queue'[s] :
            /\ queue'[s][k].id = log[s][queue'[s][k].at] /\ queue'[s][k].kind = "FOLLOWER"
            /\ queue'[s][k].at \in DOMAIN log[s]
  BY StartOrphanedReplicatesStep
<1>2. /\ sent' = sent /\ net' = net
      /\ \A i \in DOMAIN decided' : decided'[i] \in Logged
  BY <1>1 DEF SameClient, SameRaft, Logged
<1>3. LoggedOn(s)' \subseteq Logged
  <2>1. \A k \in DOMAIN queue'[s] : queue'[s][k].id \in LoggedOn(s)
    BY <1>1 DEF LoggedOn
  <2>2. LoggedOn(s)' \subseteq LoggedOn(s)
    <3>1. \A b \in LoggedOn(s)' :
             \/ \E i \in DOMAIN log'[s] : b = log'[s][i]
             \/ \E k \in DOMAIN queue'[s] : b = queue'[s][k].id
             \/ \E p \in replicating'[s] \cup finished'[s] : b = p.id
      BY DEF LoggedOn, FollowerOps
    <3> QED BY <1>1, <2>1, <3>1 DEF LoggedOn
  <2> QED BY <2>2 DEF Logged
<1>4. NothingArrives(s)
  <2>1. \A k \in DOMAIN queue'[s] :
           queue'[s][k].kind = "LEADER" =>
               /\ k \in Nat /\ k + 0 \in LeaderOps(s) /\ queue'[s][k].id = queue[s][k + 0].id
    BY <1>1
  <2> QED BY <1>1, <2>1 DEF NothingArrives, LeadersShift
<1> QED BY <1>1, <1>2, <1>3, <1>4, AttemptsKeep

-----------------------------------------------------------------------------
(***************************************************************************)
(* The logs                                                                *)
(***************************************************************************)

Ids == Seq(RequestIds)

LEMMA LogTypes ==
    ASSUME Types
    PROVE  /\ \A s \in Servers : log[s] \in Ids /\ Len(log[s]) \in Nat
                                 /\ DOMAIN log[s] = 1 .. Len(log[s]) /\ applied[s] \subseteq Nat
           /\ decided \in Ids /\ Len(decided) \in Nat /\ DOMAIN decided = 1 .. Len(decided)
BY SeqIs DEF Types, Ids

LEMMA PrefixAgrees ==
    ASSUME NEW a \in Ids, NEW b \in Ids, NEW c \in Ids, Extends(b, a), Agree(b, c)
    PROVE  Agree(a, c) /\ Agree(c, a)
<1>1. /\ DOMAIN a = 1 .. Len(a) /\ DOMAIN b = 1 .. Len(b) /\ Len(a) \in Nat /\ Len(b) \in Nat
      /\ DOMAIN c = 1 .. Len(c) /\ Len(c) \in Nat
  BY SeqIs DEF Ids
<1>2. \A i \in DOMAIN a : i \in Nat /\ i \in DOMAIN b /\ a[i] = b[i] /\ \A j \in 1 .. i : j \in DOMAIN a
  BY <1>1 DEF Extends
<1>3. ASSUME NEW i \in DOMAIN a \cap DOMAIN c, a[i] = c[i], NEW j \in 1 .. i PROVE a[j] = c[j]
  <2>1. b[i] = c[i] /\ i \in DOMAIN b \cap DOMAIN c
    BY <1>2, <1>3
  <2>2. b[j] = c[j]
    BY <2>1 DEF Agree
  <2>3. a[j] = b[j]
    BY <1>2
  <2> QED BY <2>2, <2>3
<1> QED BY <1>3 DEF Agree

LEMMA AgreeTypes ==
    ASSUME NEW a \in Ids PROVE Agree(a, a)
BY DEF Agree

LEMMA LogStays ==
    ASSUME IInv, \A u \in Servers : log'[u] = log[u], decided' = decided,
           \A u \in Servers : LeadsNow(u)' => LeadsNow(u) \/ Extends(log[u], decided),
           \A u \in Servers : \A i \in applied'[u] :
              i \in applied[u] \/ (i \in DOMAIN log[u] \cap DOMAIN decided /\ log[u][i] = decided[i])
    PROVE  LogInv' /\ ExactlyOnce'
<1>1. LogInv /\ ExactlyOnce
  BY DEF IInv
<1>2. \A u, v \in Servers : Agree(log'[u], log'[v]) /\ Agree(log'[u], decided')
  BY <1>1 DEF LogInv
<1>3. ASSUME NEW u \in Servers, LeadsNow(u)' PROVE Extends(log'[u], decided')
  <2>1. Extends(log[u], decided)
    BY <1>1, <1>3 DEF LogInv
  <2> QED BY <2>1
<1>4. ASSUME NEW u \in Servers, NEW i \in applied'[u]
      PROVE  i \in DOMAIN log'[u] \cap DOMAIN decided' /\ \A j \in 1 .. i : log'[u][j] = decided'[j]
  <2>1. i \in DOMAIN log[u] \cap DOMAIN decided /\ \A j \in 1 .. i : log[u][j] = decided[j]
    <3>1. CASE i \in applied[u]
      BY <1>1, <3>1 DEF LogInv
    <3>2. CASE i \in DOMAIN log[u] \cap DOMAIN decided /\ log[u][i] = decided[i]
      BY <1>1, <3>2 DEF LogInv, Agree
    <3> QED BY <1>4, <3>1, <3>2
  <2> QED BY <2>1
<1>5. LogInv'
  BY <1>2, <1>3, <1>4 DEF LogInv, Agree, Extends
<1>6. ExactlyOnce'
  BY <1>1 DEF ExactlyOnce
<1> QED BY <1>5, <1>6

LEMMA DecidedGrows ==
    ASSUME IInv, Types', NEW s \in Servers, LeadsNow(s), Extends(log[s], decided'),
           Len(decided') >= Len(decided),
           \A u \in Servers : log'[u] = log[u] /\ applied'[u] = applied[u], leader' = leader
    PROVE  LogInv' /\ ExactlyOnce'
<1>1. LogInv /\ ExactlyOnce
  BY DEF IInv
<1>2. PICK d : d = decided'
  OBVIOUS
<1>3. /\ \A u \in Servers : log[u] \in Ids /\ Len(log[u]) \in Nat
                            /\ DOMAIN log[u] = 1 .. Len(log[u]) /\ applied[u] \subseteq Nat
      /\ decided \in Ids /\ Len(decided) \in Nat /\ DOMAIN decided = 1 .. Len(decided)
      /\ d \in Ids /\ Len(d) \in Nat /\ DOMAIN d = 1 .. Len(d) /\ Extends(log[s], d)
      /\ Len(d) >= Len(decided)
  <2>1. d \in Ids
    BY <1>2 DEF Types, Ids
  <2>2. Len(d) \in Nat /\ DOMAIN d = 1 .. Len(d)
    BY <2>1, SeqIs DEF Ids
  <2> QED BY <1>2, <2>1, <2>2, LogTypes DEF IInv
<1>4. \A u \in Servers : Agree(log[u], d)
  BY <1>1, <1>3, PrefixAgrees DEF LogInv
<1>5. \A u \in Servers : LeadsNow(u)' => u = s
  BY DEF LeadsNow
<1>6. \A i \in DOMAIN decided : i \in DOMAIN d /\ d[i] = decided[i]
  <2>1. Extends(log[s], decided)
    BY <1>1 DEF LogInv
  <2> QED BY <1>3, <2>1 DEF Extends
<1>7. ASSUME NEW u \in Servers, NEW i \in applied[u]
      PROVE  i \in DOMAIN log[u] \cap DOMAIN d /\ \A j \in 1 .. i : log[u][j] = d[j]
  <2>1. i \in DOMAIN log[u] \cap DOMAIN decided /\ \A j \in 1 .. i : log[u][j] = decided[j]
    BY <1>1 DEF LogInv
  <2>2. \A j \in 1 .. i : j \in DOMAIN decided
    BY <1>3, <2>1
  <2> QED BY <1>6, <2>1, <2>2
<1>8. \A u, v \in Servers : Agree(log[u], log[v])
  BY <1>1 DEF LogInv
<1>9. LogInv'
  <2>1. \A u, v \in Servers : Agree(log'[u], log'[v]) /\ Agree(log'[u], decided')
    BY <1>2, <1>4, <1>8
  <2>2. \A u \in Servers : LeadsNow(u)' => Extends(log'[u], decided')
    BY <1>5
  <2>3. \A u \in Servers : \A i \in applied'[u] :
           i \in DOMAIN log'[u] \cap DOMAIN decided' /\ \A j \in 1 .. i : log'[u][j] = decided'[j]
    BY <1>2, <1>7
  <2> QED BY <2>1, <2>2, <2>3 DEF LogInv, Agree, Extends
<1>10. ExactlyOnce'
  BY <1>1 DEF ExactlyOnce
<1> QED BY <1>9, <1>10

\* The log of a server that does not lead becomes a prefix of that of l.
LEMMA PrefixLogged ==
    ASSUME IInv, Types', NEW s \in Servers, NEW l \in Servers, Elsewhere(s), SameRaft,
           Extends(log[l], log'[s]), role'[s].lead = "no", applied'[s] = applied[s],
           \A i \in applied[s] : i \in DOMAIN log'[s],
           \A i \in DOMAIN log[s] \cap DOMAIN log'[s] : log'[s][i] = log[s][i]
    PROVE  LogInv' /\ ExactlyOnce'
<1>1. LogInv /\ ExactlyOnce /\ Types
  BY DEF IInv
<1>2. PICK a : a = log'[s]
  OBVIOUS
<1>3. /\ \A u \in Servers : log[u] \in Ids /\ Len(log[u]) \in Nat
                            /\ DOMAIN log[u] = 1 .. Len(log[u]) /\ applied[u] \subseteq Nat
      /\ decided \in Ids /\ DOMAIN decided = 1 .. Len(decided) /\ Len(decided) \in Nat
      /\ a \in Ids /\ Len(a) \in Nat /\ DOMAIN a = 1 .. Len(a) /\ Extends(log[l], a)
  <2>1. a \in Ids
    BY <1>2 DEF Types, Ids
  <2>2. Len(a) \in Nat /\ DOMAIN a = 1 .. Len(a)
    BY <2>1, SeqIs DEF Ids
  <2> QED BY <1>1, <1>2, <2>1, <2>2, LogTypes
<1>4. /\ \A u \in Servers \ {s} : log'[u] = log[u] /\ applied'[u] = applied[u] /\ role'[u] = role[u]
      /\ decided' = decided /\ leader' = leader
  BY DEF Elsewhere, SameServer, SameRaft
<1>5. /\ \A u \in Servers : Agree(a, log[u]) /\ Agree(log[u], a)
      /\ Agree(a, decided) /\ Agree(a, a)
  BY <1>1, <1>3, PrefixAgrees, AgreeTypes DEF LogInv
<1>6. ASSUME NEW u \in Servers, NEW v \in Servers PROVE Agree(log'[u], log'[v])
  BY <1>1, <1>2, <1>4, <1>5 DEF LogInv
<1>7. ASSUME NEW u \in Servers PROVE Agree(log'[u], decided')
  BY <1>1, <1>2, <1>4, <1>5 DEF LogInv
<1>8. ASSUME NEW u \in Servers, LeadsNow(u)' PROVE Extends(log'[u], decided')
  <2>1. u # s
    BY <1>8 DEF LeadsNow
  <2>2. LeadsNow(u)
    BY <1>4, <1>8, <2>1 DEF LeadsNow
  <2> QED BY <1>1, <1>4, <2>1, <2>2 DEF LogInv
<1>9. ASSUME NEW u \in Servers, NEW i \in applied'[u]
      PROVE  i \in DOMAIN log'[u] \cap DOMAIN decided' /\ \A j \in 1 .. i : log'[u][j] = decided'[j]
  <2>1. CASE u # s
    BY <1>1, <1>4, <1>9, <2>1 DEF LogInv
  <2>2. CASE u = s
    <3>1. i \in applied[s]
      BY <2>2
    <3>2. i \in DOMAIN log[s] \cap DOMAIN decided /\ \A j \in 1 .. i : log[s][j] = decided[j]
      BY <1>1, <3>1 DEF LogInv
    <3>3. i \in DOMAIN a
      BY <1>2, <3>1
    <3>4. \A j \in 1 .. i : j \in DOMAIN log[s] \cap DOMAIN a
      BY <1>3, <3>2, <3>3
    <3> QED BY <1>2, <1>4, <2>2, <3>2, <3>3, <3>4
  <2> QED BY <2>1, <2>2
<1>10. LogInv'
  BY <1>6, <1>7, <1>8, <1>9 DEF LogInv, Agree, Extends
<1>11. ExactlyOnce'
  <2> SUFFICES ASSUME NEW u \in Servers, NEW i \in DOMAIN log'[u], NEW j \in DOMAIN log'[u],
                      log'[u][i].seq = log'[u][j].seq
               PROVE  i = j
    BY DEF ExactlyOnce
  <2>1. CASE u # s
    BY <1>1, <1>4, <2>1 DEF ExactlyOnce
  <2>2. CASE u = s
    <3>1. \A k \in DOMAIN a : k \in DOMAIN log[l] /\ log[l][k] = a[k]
      BY <1>3 DEF Extends
    <3> QED BY <1>1, <1>2, <2>2, <3>1 DEF ExactlyOnce
  <2> QED BY <2>1, <2>2
<1> QED BY <1>10, <1>11

\* Why a write is not logged twice: when a leader op is the driver of its write and
\* its server still leads in the term of the op, then no follower op is behind it, so
\* the tracker knows each write of the log; and if it were the driver of one
\* of the same sequence number, then that would be the attempt of the op itself.
LEMMA LeaderOpIsFirst ==
    ASSUME IInv, NEW s \in Servers, NEW o, LeaderOpLogged(s, o), o.id \in RequestIds
    PROVE  /\ IsRunning(s) /\ FollowerOps(s) = {}
           /\ \A i \in DOMAIN log[s] : Known(s, i) /\ log[s][i].seq # o.id.seq
           /\ Owns(tracker[s], o.id)
           /\ \E rpc \in tracker[s].records[o.id.seq].ongoing : rpc.handler = o.id.no
<1>1. /\ 1 \in DOMAIN queue[s] /\ queue[s][1] = o /\ o.kind = "LEADER"
      /\ IsCurrentDriver(tracker[s], o.id) /\ role[s].lead = "ready" /\ role[s].term = o.at
  BY DEF LeaderOpLogged, IsHead
<1>2. Types /\ QueueOK(s) /\ TrackOK(s) /\ FreshInv
  BY DEF IInv, LocalInv
<1>3. IsRunning(s)
  <2>1. queue[s] # <<>>
    BY <1>1
  <2> QED BY <2>1, ReplayingIs
<1>4. FollowerOps(s) = {}
  <2> SUFFICES ASSUME NEW l \in FollowerOps(s) PROVE FALSE
    OBVIOUS
  <2>1. l \in DOMAIN queue[s] /\ l # 1 /\ 1 \in LeaderOps(s)
    BY <1>1 DEF FollowerOps, LeaderOps
  <2>2. 1 < l
    <3>1. l \in 1 .. Len(queue[s]) /\ Len(queue[s]) \in Nat
      BY <1>2, <2>1, ServerTypes
    <3> QED BY <2>1, <3>1
  <2>3. role[s].lead = "no" \/ role[s].term # queue[s][1].at
    BY <1>2, <2>1, <2>2 DEF QueueOK
  <2> QED BY <1>1, <2>3
<1>5. \A i \in DOMAIN log[s] : Known(s, i)
  BY <1>3, <1>4 DEF Known, PendingAt, PendingOps
<1>6. PICK t \in Trackers : t = tracker[s]
  BY <1>2, ServerTypes
<1>7. PICK q \in Seqs : q = o.id.seq
  BY IdTypes
<1>8. /\ t.records[q] # NoRecord /\ t.records[q].driver = o.id.no
      /\ t.stale \in Nat /\ q \in Nat /\ t.stale <= q /\ t.records[q] \in Records
  <2>1. t.records[q] # NoRecord /\ t.records[q].driver = o.id.no
    BY <1>1, <1>6, <1>7 DEF IsCurrentDriver, IsTracked
  <2>2. t.stale <= q
    BY <1>2, <1>6, <2>1 DEF TrackOK, TrackerOK
  <2> QED BY <2>1, <2>2, TrackerTypes, AttemptsAreNat
<1>9. o.id \in Waiting(s) /\ o.id \in Unlogged
  <2>1. 1 \in LeaderOps(s)
    BY <1>1 DEF LeaderOps
  <2> QED BY <1>1, <2>1 DEF Waiting, Unlogged
<1>10. ASSUME NEW i \in DOMAIN log[s], log[s][i].seq = q PROVE FALSE
  <2>1. Remembers(t, log[s][i], Waiting(s))
    BY <1>2, <1>5, <1>6 DEF TrackOK
  <2>2. t.records[q].driver = log[s][i].no
    BY <1>8, <1>10, <2>1 DEF Remembers
  <2>3. SameAttempt(o.id, log[s][i])
    BY <1>7, <1>8, <1>10, <2>2 DEF SameAttempt
  <2>4. log[s][i] \in Logged
    BY DEF Logged, LoggedOn
  <2> QED BY <1>2, <1>9, <2>3, <2>4 DEF FreshInv
<1>11. t.records[q].state = "IN_PROGRESS"
  <2>1. t.records[q].state # "COMPLETED"
    <3> SUFFICES ASSUME t.records[q].state = "COMPLETED" PROVE FALSE
      OBVIOUS
    <3>1. PICK i : Known(s, i) /\ log[s][i].seq = q
      BY <1>2, <1>6 DEF TrackOK
    <3> QED BY <1>10, <3>1 DEF Known
  <2> QED BY <1>8, <2>1, RecordTypes
<1>12. \E rpc \in t.records[q].ongoing : rpc.handler = o.id.no
  <2>1. Attached(t, o.id)
    BY <1>2, <1>6, <1>9 DEF TrackOK
  <2> QED BY <1>7, <1>8, <2>1 DEF Attached
<1>13. Owns(tracker[s], o.id)
  BY <1>6, <1>7, <1>8, <1>11 DEF Owns, IsCurrentDriver, IsTracked
<1> QED BY <1>3, <1>4, <1>5, <1>6, <1>7, <1>10, <1>12, <1>13

LEMMA LeaderLogs ==
    ASSUME IInv, NEW s \in Servers, NEW o, LeaderOpLogged(s, o), o.id \in RequestIds,
           Elsewhere(s), SameRaft
    PROVE  LogInv' /\ ExactlyOnce'
<1>1. LogInv /\ ExactlyOnce /\ FreshInv
  BY DEF IInv
<1>2. PICK n : n = Len(log[s]) + 1
  OBVIOUS
<1>3. PICK a : a = log'[s]
  OBVIOUS
<1>4. /\ \A u \in Servers : log[u] \in Ids /\ Len(log[u]) \in Nat
                            /\ DOMAIN log[u] = 1 .. Len(log[u])
      /\ decided \in Ids /\ DOMAIN decided = 1 .. Len(decided) /\ Len(decided) \in Nat
  BY LogTypes DEF IInv
<1>5. /\ Len(a) = n /\ DOMAIN a = 1 .. n /\ n \in Nat /\ a[n] = o.id
      /\ \A k \in DOMAIN log[s] : k \in DOMAIN a /\ a[k] = log[s][k]
      /\ \A k \in DOMAIN a : k \in DOMAIN log[s] \/ k = n
  <2>1. a = Append(log[s], o.id)
    BY <1>3 DEF LeaderOpLogged
  <2> QED BY <1>2, <1>4, <2>1, AppendIs DEF Ids
<1>6. /\ \A u \in Servers \ {s} : log'[u] = log[u] /\ applied'[u] = applied[u] /\ role'[u] = role[u]
      /\ applied'[s] = applied[s] /\ role'[s] = role[s] /\ decided' = decided /\ leader' = leader
  BY DEF Elsewhere, SameServer, SameRaft, LeaderOpLogged
<1>7. /\ \A u \in Servers : \A k \in DOMAIN log[u] : log[u][k] # o.id
      /\ \A k \in DOMAIN decided : decided[k] # o.id
  <2>1. o.id \in Unlogged
    <3>1. 1 \in LeaderOps(s) /\ queue[s][1] = o
      BY DEF LeaderOpLogged, IsHead, LeaderOps
    <3> QED BY <3>1 DEF Waiting, Unlogged
  <2>2. /\ \A u \in Servers : \A k \in DOMAIN log[u] : log[u][k] \in Logged
        /\ \A k \in DOMAIN decided : decided[k] \in Logged
    BY DEF Logged, LoggedOn
  <2> QED BY <1>1, <2>1, <2>2 DEF FreshInv, SameAttempt
<1>8. ASSUME NEW c \in Ids, Agree(log[s], c), \A k \in DOMAIN c : c[k] # o.id
      PROVE  Agree(a, c) /\ Agree(c, a)
  <2>1. ASSUME NEW i \in DOMAIN a \cap DOMAIN c, a[i] = c[i], NEW j \in 1 .. i PROVE a[j] = c[j]
    <3>1. i \in DOMAIN log[s] /\ log[s][i] = c[i]
      BY <1>5, <1>8, <2>1
    <3>2. log[s][j] = c[j] /\ j \in DOMAIN log[s]
      BY <1>4, <1>8, <3>1 DEF Agree
    <3> QED BY <1>5, <3>2
  <2> QED BY <2>1 DEF Agree
<1>9. ASSUME NEW u \in Servers, NEW v \in Servers PROVE Agree(log'[u], log'[v])
  <2>1. Agree(a, a) /\ \A w \in Servers : Agree(a, log[w]) /\ Agree(log[w], a)
    BY <1>1, <1>4, <1>7, <1>8 DEF LogInv, Agree
  <2> QED BY <1>1, <1>3, <1>6, <2>1 DEF LogInv
<1>10. ASSUME NEW u \in Servers PROVE Agree(log'[u], decided')
  <2>1. Agree(a, decided)
    BY <1>1, <1>4, <1>7, <1>8 DEF LogInv
  <2> QED BY <1>1, <1>3, <1>6, <2>1 DEF LogInv
<1>11. ASSUME NEW u \in Servers, LeadsNow(u)' PROVE Extends(log'[u], decided')
  <2>1. LeadsNow(u)
    BY <1>6, <1>11 DEF LeadsNow
  <2>2. Extends(log[u], decided)
    BY <1>1, <2>1 DEF LogInv
  <2>3. CASE u # s
    BY <1>6, <2>2, <2>3
  <2>4. CASE u = s
    <3>1. Len(decided) <= Len(log[s]) /\ \A i \in DOMAIN decided : log[s][i] = decided[i]
      BY <2>2, <2>4 DEF Extends
    <3>2. Len(decided) <= Len(a) /\ \A i \in DOMAIN decided : a[i] = decided[i]
      BY <1>2, <1>4, <1>5, <3>1
    <3> QED BY <1>3, <1>6, <2>4, <3>2 DEF Extends
  <2> QED BY <2>3, <2>4
<1>12. ASSUME NEW u \in Servers, NEW i \in applied'[u]
       PROVE  i \in DOMAIN log'[u] \cap DOMAIN decided' /\ \A j \in 1 .. i : log'[u][j] = decided'[j]
  <2>1. i \in applied[u]
    BY <1>6, <1>12
  <2>2. i \in DOMAIN log[u] \cap DOMAIN decided /\ \A j \in 1 .. i : log[u][j] = decided[j]
    BY <1>1, <2>1 DEF LogInv
  <2>3. \A j \in 1 .. i : j \in DOMAIN log[u]
    BY <1>4, <2>2
  <2>4. \A j \in DOMAIN log[u] : j \in DOMAIN log'[u] /\ log'[u][j] = log[u][j]
    BY <1>3, <1>5, <1>6
  <2> QED BY <1>6, <2>2, <2>3, <2>4
<1>13. LogInv'
  BY <1>9, <1>10, <1>11, <1>12 DEF LogInv, Agree, Extends
<1>14. ExactlyOnce'
  <2> SUFFICES ASSUME NEW u \in Servers, NEW i \in DOMAIN log'[u], NEW j \in DOMAIN log'[u],
                      log'[u][i].seq = log'[u][j].seq
               PROVE  i = j
    BY DEF ExactlyOnce
  <2>1. CASE u # s
    BY <1>1, <1>6, <2>1 DEF ExactlyOnce
  <2>2. CASE u = s
    <3>1. \A k \in DOMAIN log[s] : log[s][k].seq # o.id.seq
      BY LeaderOpIsFirst
    <3>2. i \in DOMAIN a /\ j \in DOMAIN a /\ a[i].seq = a[j].seq
      BY <1>3, <2>2
    <3>3. \A k, l \in DOMAIN log[s] : log[s][k].seq = log[s][l].seq => k = l
      BY <1>1 DEF ExactlyOnce
    <3> QED BY <1>5, <3>1, <3>2, <3>3
  <2> QED BY <2>1, <2>2
<1> QED BY <1>13, <1>14

-----------------------------------------------------------------------------
(***************************************************************************)
(* One server                                                              *)
(***************************************************************************)

LEMMA QueueSets ==
    ASSUME NEW s \in Servers, queue'[s] = queue[s]
    PROVE  /\ LeaderOps(s)' = LeaderOps(s) /\ FollowerOps(s)' = FollowerOps(s)
           /\ PendingOps(s)' = PendingOps(s) /\ PendingAt(s)' = PendingAt(s)
BY DEF LeaderOps, FollowerOps, PendingOps, PendingAt

LEMMA KnownStays ==
    ASSUME NEW s \in Servers, log'[s] = log[s], replay'[s] = replay[s],
           PendingAt(s)' = PendingAt(s)
    PROVE  \A i : Known(s, i)' <=> Known(s, i)
BY DEF Known, IsRunning

LEMMA QueueStays ==
    ASSUME NEW s \in Servers, Types, Types', QueueOK(s), term' >= term, queue'[s] = queue[s],
           log'[s] = log[s], applied'[s] = applied[s], replicating'[s] = replicating[s],
           replay'[s] = replay[s],
           \/ role'[s] = role[s]
           \/ role[s].lead # "no" /\ role'[s].term = role[s].term
           \/ \A k \in LeaderOps(s) : role'[s].lead = "no" \/ role'[s].term # queue[s][k].at
    PROVE  QueueOK(s)'
<1>1. /\ LeaderOps(s)' = LeaderOps(s) /\ FollowerOps(s)' = FollowerOps(s)
      /\ PendingOps(s)' = PendingOps(s) /\ PendingAt(s)' = PendingAt(s)
  BY QueueSets
<1>2. \A i : Known(s, i)' <=> Known(s, i)
  BY <1>1, KnownStays
<1>3. \A k \in LeaderOps(s) : queue[s][k].at <= term'
  <2> SUFFICES ASSUME NEW k \in LeaderOps(s) PROVE queue[s][k].at <= term'
    OBVIOUS
  <2>1. queue[s][k].at \in Nat /\ queue[s][k].at <= term
    BY ServerTypes, SeqIs, OpTypes DEF QueueOK, LeaderOps
  <2> QED BY <2>1 DEF Types
<1>4. \A k \in PendingOps(s) :
         LET o == queue[s][k]
         IN  /\ o.at \in DOMAIN log'[s] /\ log'[s][o.at] = o.id
             /\ o.at \notin applied'[s] /\ \A p \in replicating'[s] : p.at # o.at
  BY DEF QueueOK
<1>5. \A k \in LeaderOps(s), l \in FollowerOps(s) :
         k < l => role'[s].lead = "no" \/ role'[s].term # queue[s][k].at
  BY DEF QueueOK
<1>6. /\ \A k, l \in PendingOps(s) : queue[s][k].at = queue[s][l].at => k = l
      /\ \A k \in PendingOps(s), l \in FollowerOps(s) :
            k < l => queue[s][k].id.seq # queue[s][l].id.seq
  BY DEF QueueOK
<1>7. \A k \in FollowerOps(s), i \in DOMAIN log'[s] :
         Known(s, i)' => log'[s][i].seq # queue[s][k].id.seq
  BY <1>2 DEF QueueOK
<1> QED BY <1>1, <1>3, <1>4, <1>5, <1>6, <1>7 DEF QueueOK

LEMMA ReplayStays ==
    ASSUME NEW s \in Servers, Types, Types', ReplayOK(s), term' >= term,
           replay'[s] = replay[s], IsRunning(s) \/ (queue'[s] = queue[s] /\ replicating'[s] = replicating[s]
              /\ finished'[s] \subseteq finished[s] /\ applied'[s] = applied[s]),
           role'[s] = role[s] \/ (IsRunning(s) /\ role'[s].term <= term')
    PROVE  ReplayOK(s)'
<1>1. role'[s].term <= term'
  <2>1. CASE role'[s] = role[s]
    <3>1. role[s].term \in Nat /\ term \in Nat /\ term' \in Nat /\ role[s].term <= term
      BY ServerTypes DEF ReplayOK, Types
    <3> QED BY <2>1, <3>1
  <2> QED BY <2>1
<1>2. IsRunning(s)' <=> IsRunning(s)
  BY DEF IsRunning
<1>3. CASE IsRunning(s)
  BY <1>1, <1>2, <1>3 DEF ReplayOK
<1>4. CASE ~IsRunning(s)
  <2>1. /\ queue[s] = <<>> /\ replicating[s] = {} /\ finished[s] = {} /\ role[s].lead = "no"
        /\ replay[s].at \in 1 .. replay[s].upto + 1
        /\ replay[s].tracked => replay[s].at <= replay[s].upto
        /\ applied[s] = 1 .. replay[s].upto
    BY <1>4 DEF ReplayOK
  <2>2. finished'[s] = {} /\ role'[s] = role[s]
    BY <1>4, <2>1
  <2> QED BY <1>1, <1>4, <2>1, <2>2 DEF ReplayOK
<1> QED BY <1>3, <1>4

\* An op that is replicated or applied is one that the tracker knows.
LEMMA OpsAreKnown ==
    ASSUME IInv, NEW s \in Servers
    PROVE  /\ \A o \in replicating[s] : Known(s, o.at) /\ log[s][o.at] = o.id
           /\ \A o \in finished[s] : o.ok => Known(s, o.at) /\ log[s][o.at] = o.id
           /\ replay[s].tracked => Known(s, replay[s].at)
           /\ \A i \in applied[s] : IsRunning(s) => Known(s, i)
<1>1. QueueOK(s) /\ OpsOK(s) /\ LogInv
  BY DEF IInv, LocalInv
<1>2. \A i \in applied[s] : i \in DOMAIN log[s]
  BY <1>1 DEF LogInv
<1>3. \A i \in applied[s] : IsRunning(s) => Known(s, i)
  BY <1>1, <1>2 DEF QueueOK, Known, PendingAt
<1>4. \A o \in replicating[s] : Known(s, o.at) /\ log[s][o.at] = o.id
  <2> SUFFICES ASSUME NEW o \in replicating[s] PROVE Known(s, o.at) /\ log[s][o.at] = o.id
    OBVIOUS
  <2>1. IsRunning(s)
    BY ReplayingIs
  <2>2. o.at \in DOMAIN log[s] /\ log[s][o.at] = o.id
    BY <1>1 DEF OpsOK
  <2>3. o.at \notin PendingAt(s)
    BY <1>1 DEF QueueOK, PendingAt
  <2> QED BY <2>1, <2>2, <2>3 DEF Known
<1>5. ASSUME NEW o \in finished[s], o.ok PROVE Known(s, o.at) /\ log[s][o.at] = o.id
  <2>1. IsRunning(s)
    BY ReplayingIs
  <2>2. o.at \in applied[s] /\ log[s][o.at] = o.id
    BY <1>1, <1>5 DEF OpsOK
  <2> QED BY <1>3, <2>1, <2>2
<1>6. ASSUME replay[s].tracked PROVE Known(s, replay[s].at)
  <2>1. ~IsRunning(s)
    BY <1>6 DEF IsRunning, Running
  <2>2. replay[s].at \in 1 .. replay[s].upto + 1 /\ replay[s].at <= replay[s].upto
        /\ replay[s].at \in Nat /\ replay[s].upto \in Nat
        /\ 1 .. replay[s].upto \subseteq DOMAIN log[s]
    BY <1>6, <2>1, ReplayingIs
  <2>3. replay[s].at \in DOMAIN log[s]
    BY <2>2
  <2> QED BY <1>6, <2>1, <2>3 DEF Known
<1> QED BY <1>3, <1>4, <1>5, <1>6

\* The tracker u of server s keeps what it has to know when V waits.
Keeps(s, u, V) ==
    /\ TrackerOK(u)
    /\ \A i : Known(s, i) => /\ Remembers(u, log[s][i], V)
                             /\ Owns(tracker[s], log[s][i]) => Owns(u, log[s][i])
    /\ \A a \in V : Attached(u, a)
    /\ SameResponses(tracker[s], u)

LEMMA TrackerMoves ==
    ASSUME IInv, NEW s \in Servers, SameStore(s), PendingAt(s)' = PendingAt(s),
           replicating'[s] = replicating[s], finished'[s] \subseteq finished[s],
           Keeps(s, tracker'[s], Waiting(s)')
    PROVE  OpsOK(s)' /\ TrackOK(s)'
<1>1. OpsOK(s) /\ TrackOK(s) /\ Types
  BY DEF IInv, LocalInv
<1>2. PICK u : u = tracker'[s]
  OBVIOUS
<1>3. PICK V : V = Waiting(s)'
  OBVIOUS
<1>4. /\ log'[s] = log[s] /\ applied'[s] = applied[s] /\ role'[s] = role[s] /\ replay'[s] = replay[s]
  BY DEF SameStore
<1>5. \A i : Known(s, i)' <=> Known(s, i)
  BY <1>4, KnownStays
<1>6. /\ TrackerOK(u)
      /\ \A i : Known(s, i) => /\ Remembers(u, log[s][i], V)
                               /\ Owns(tracker[s], log[s][i]) => Owns(u, log[s][i])
      /\ \A a \in V : Attached(u, a)
      /\ SameResponses(tracker[s], u)
  BY <1>2, <1>3 DEF Keeps
<1>7. OpsOK(s)'
  <2>1. \A o \in replicating[s] :
           /\ o.at \in DOMAIN log[s] /\ log[s][o.at] = o.id /\ o.at \notin applied[s]
           /\ o.tracked => Owns(u, o.id)
    BY <1>1, <1>6, OpsAreKnown DEF OpsOK
  <2>2. \A o, p \in replicating[s] : o.at = p.at => o = p
    BY <1>1 DEF OpsOK
  <2>3. \A o \in finished[s] :
           /\ o.ok => o.at \in applied[s] /\ log[s][o.at] = o.id /\ Owns(u, o.id)
           /\ ~o.ok => role[s].lead = "no" /\ \A i \in DOMAIN log[s] : log[s][i].seq # o.id.seq
    BY <1>1, <1>6, OpsAreKnown DEF OpsOK
  <2>4. \A o \in finished'[s] :
           /\ o.ok => o.at \in applied[s] /\ log[s][o.at] = o.id /\ Owns(u, o.id)
           /\ ~o.ok => role[s].lead = "no" /\ \A i \in DOMAIN log[s] : log[s][i].seq # o.id.seq
    BY <2>3
  <2> QED BY <1>2, <1>4, <2>1, <2>2, <2>4 DEF OpsOK, Owns, IsCurrentDriver, IsTracked
<1>8. TrackOK(s)'
  <2>1. \A i \in DOMAIN log'[s] : Known(s, i)' => Remembers(u, log'[s][i], V)
    BY <1>4, <1>5, <1>6
  <2>2. \A q \in Seqs : u.records[q].state = "COMPLETED" =>
           LET i == u.records[q].result
           IN  i \in applied[s] /\ Known(s, i) /\ log[s][i].seq = q
    BY <1>1, <1>6 DEF TrackOK, SameResponses
  <2>3. replay[s].tracked => Owns(u, log[s][replay[s].at])
    BY <1>1, <1>6, OpsAreKnown DEF TrackOK
  <2> QED BY <1>2, <1>3, <1>4, <1>5, <1>6, <2>1, <2>2, <2>3 DEF TrackOK
<1> QED BY <1>7, <1>8

LEMMA KeepsAsIs ==
    ASSUME IInv, NEW s \in Servers, NEW V \in SUBSET Waiting(s)
    PROVE  Keeps(s, tracker[s], V)
<1>1. TrackOK(s)
  BY DEF IInv, LocalInv
<1>2. \A i : Known(s, i) => Remembers(tracker[s], log[s][i], V)
  <2> SUFFICES ASSUME NEW i, Known(s, i) PROVE Remembers(tracker[s], log[s][i], V)
    OBVIOUS
  <2>1. Remembers(tracker[s], log[s][i], Waiting(s))
    BY <1>1 DEF TrackOK, Known
  <2> QED BY <2>1, FewerWaiting
<1> QED BY <1>1, <1>2 DEF Keeps, TrackOK, SameResponses

LEMMA SameTerm ==
    ASSUME Types, SameRaft PROVE term' >= term
BY DEF Types, SameRaft

LEMMA SameServerKeeps ==
    ASSUME IInv, Types', NEW u \in Servers, SameServer(u), term' >= term
    PROVE  LocalInv(u)'
<1>1. Types /\ QueueOK(u) /\ ReplayOK(u)
  BY DEF IInv, LocalInv
<1>2. QueueOK(u)'
  BY <1>1, QueueStays DEF SameServer
<1>3. ReplayOK(u)'
  BY <1>1, ReplayStays DEF SameServer
<1>4. PendingAt(u)' = PendingAt(u) /\ Waiting(u)' = Waiting(u) /\ SameStore(u)
  BY QueueSets, SameServerLogged DEF SameServer, SameStore
<1>5. Keeps(u, tracker'[u], Waiting(u)')
  <2>1. Keeps(u, tracker[u], Waiting(u))
    BY KeepsAsIs
  <2> QED BY <1>4, <2>1 DEF SameServer
<1>6. OpsOK(u)' /\ TrackOK(u)'
  BY <1>4, <1>5, TrackerMoves DEF SameServer
<1> QED BY <1>2, <1>3, <1>6 DEF LocalInv

\* It suffices that the server of an action keeps its invariants.
LEMMA LocalKeeps ==
    ASSUME IInv, Types', NEW s \in Servers, Elsewhere(s), term' >= term, LocalInv(s)'
    PROVE  \A u \in Servers : LocalInv(u)'
BY SameServerKeeps DEF Elsewhere

LEMMA HandleLocal ==
    ASSUME IInv, NEW m \in net, Handle(m)
    PROVE  \A u \in Servers : LocalInv(u)'
<1>1. PICK s : s = m.to
  OBVIOUS
<1>2. /\ s \in Servers /\ m.id \in RequestIds /\ Types' /\ SameRaft /\ Elsewhere(s) /\ SameStore(s)
      /\ queue'[s] = queue[s] /\ replicating'[s] = replicating[s] /\ finished'[s] = finished[s]
  BY <1>1, HandleStep
<1>3. PICK x : /\ TracksFrom(tracker[s], m.id, OwnRpcs(m.id, m.id.no), AttachedRpcs(m.id.no), x)
               /\ tracker'[s] = x.tracker
               /\ arrived'[s] = IF x.state = "NEW" THEN arrived[s] \cup {m.id} ELSE arrived[s]
  BY <1>1, HandleStep
<1>4. Types /\ QueueOK(s) /\ ReplayOK(s) /\ TrackOK(s) /\ tracker[s] \in Trackers
  BY <1>2, ServerTypes DEF IInv, LocalInv
<1>5. term' >= term
  BY <1>2, <1>4, SameTerm
<1>6. QueueOK(s)'
  BY <1>2, <1>4, <1>5, QueueStays DEF SameStore
<1>7. ReplayOK(s)'
  BY <1>2, <1>4, <1>5, ReplayStays DEF SameStore
<1>8. PICK V : V = IF x.state = "NEW" THEN Waiting(s) \cup {m.id} ELSE Waiting(s)
  OBVIOUS
<1>9. Waiting(s)' = V
  BY <1>2, <1>3, <1>8, QueueSets DEF Waiting
<1>10. Keeps(s, x.tracker, V)
  <2>1. /\ \A e \in RequestIds : \A W :
              Remembers(tracker[s], e, W) =>
                  Remembers(x.tracker, e, IF x.state = "NEW" THEN W \cup {m.id} ELSE W)
        /\ \A a \in RequestIds : Attached(tracker[s], a) => Attached(x.tracker, a)
        /\ \A e \in RequestIds : Owns(tracker[s], e) => Owns(x.tracker, e)
        /\ x.state = "NEW" => Attached(x.tracker, m.id)
        /\ SameResponses(tracker[s], x.tracker)
    BY <1>2, <1>3, <1>4, TrackKeeps
  <2>2. ASSUME NEW i, Known(s, i)
        PROVE  /\ Remembers(x.tracker, log[s][i], V)
               /\ Owns(tracker[s], log[s][i]) => Owns(x.tracker, log[s][i])
    <3>1. i \in DOMAIN log[s] /\ log[s][i] \in RequestIds
      BY <1>2, <2>2, FirstIsLow DEF Known
    <3>2. Remembers(tracker[s], log[s][i], Waiting(s))
      BY <1>4, <2>2, <3>1 DEF TrackOK
    <3>3. Remembers(x.tracker, log[s][i], V)
      BY <1>8, <2>1, <3>1, <3>2
    <3> QED BY <2>1, <3>1, <3>3
  <2>3. ASSUME NEW a \in V PROVE Attached(x.tracker, a)
    <3>1. CASE a \in Waiting(s)
      <4>1. a \in RequestIds
        BY <1>2, <3>1, FirstIsLow DEF Waiting, LeaderOps
      <4> QED BY <1>4, <2>1, <3>1, <4>1 DEF TrackOK
    <3>2. CASE a \notin Waiting(s)
      BY <1>8, <2>1, <3>2
    <3> QED BY <3>1, <3>2
  <2>4. TrackerOK(x.tracker)
    BY <1>3 DEF TracksFrom
  <2> QED BY <2>1, <2>2, <2>3, <2>4 DEF Keeps
<1>11. OpsOK(s)' /\ TrackOK(s)'
  <2>1. Keeps(s, tracker'[s], Waiting(s)') /\ PendingAt(s)' = PendingAt(s)
    BY <1>2, <1>3, <1>9, <1>10, QueueSets
  <2> QED BY <1>2, <2>1, TrackerMoves
<1>12. LocalInv(s)'
  BY <1>6, <1>7, <1>11 DEF LocalInv
<1> QED BY <1>2, <1>5, <1>12, LocalKeeps

LEMMA CollectResponsesLocal ==
    ASSUME IInv, NEW s \in Servers, NEW q \in Seqs, CollectResponses(s, q)
    PROVE  \A u \in Servers : LocalInv(u)'
<1>1. /\ Types' /\ SameRaft /\ Elsewhere(s) /\ SameStore(s)
      /\ arrived'[s] = arrived[s] /\ queue'[s] = queue[s]
      /\ replicating'[s] = replicating[s] /\ finished'[s] = finished[s]
  BY CollectResponsesStep
<1>2. PICK old \in SUBSET Seqs : Collects(tracker[s], old, tracker'[s])
  BY CollectResponsesStep
<1>3. Types /\ QueueOK(s) /\ ReplayOK(s) /\ TrackOK(s) /\ tracker[s] \in Trackers
  BY ServerTypes DEF IInv, LocalInv
<1>4. term' >= term
  BY <1>1, <1>3, SameTerm
<1>5. QueueOK(s)' /\ ReplayOK(s)'
  BY <1>1, <1>3, <1>4, QueueStays, ReplayStays DEF SameStore
<1>6. Waiting(s)' = Waiting(s) /\ PendingAt(s)' = PendingAt(s)
  BY <1>1, QueueSets DEF Waiting
<1>7. PICK t : t = tracker'[s]
  OBVIOUS
<1>8. Keeps(s, t, Waiting(s))
  <2>1. /\ \A e \in RequestIds : \A W : Remembers(tracker[s], e, W) => Remembers(t, e, W)
        /\ \A e \in RequestIds : Owns(tracker[s], e) => Owns(t, e)
        /\ \A a \in RequestIds : Attached(tracker[s], a) => Attached(t, a)
        /\ SameResponses(tracker[s], t)
    BY <1>2, <1>3, <1>7, CollectKeeps
  <2>2. ASSUME NEW i, Known(s, i)
        PROVE  /\ Remembers(t, log[s][i], Waiting(s))
               /\ Owns(tracker[s], log[s][i]) => Owns(t, log[s][i])
    <3>1. i \in DOMAIN log[s] /\ log[s][i] \in RequestIds
      BY <2>2, FirstIsLow DEF Known
    <3> QED BY <1>3, <2>1, <2>2, <3>1 DEF TrackOK
  <2>3. \A a \in Waiting(s) : a \in RequestIds
    BY FirstIsLow DEF Waiting, LeaderOps
  <2>4. TrackerOK(t)
    BY <1>2, <1>7 DEF Collects
  <2> QED BY <1>3, <2>1, <2>2, <2>3, <2>4 DEF Keeps, TrackOK
<1>9. OpsOK(s)' /\ TrackOK(s)'
  <2>1. Keeps(s, tracker'[s], Waiting(s)')
    BY <1>6, <1>7, <1>8
  <2> QED BY <1>1, <1>6, <2>1, TrackerMoves
<1>10. LocalInv(s)'
  BY <1>5, <1>9 DEF LocalInv
<1> QED BY <1>1, <1>4, <1>10, LocalKeeps

\* The attempt id fails on server s, where it waited.
LEMMA WaitingFails ==
    ASSUME IInv, NEW s \in Servers, NEW id \in Waiting(s), NEW t, FailsFrom(tracker[s], id, t),
           NEW V, \A a \in V : a \in Waiting(s) /\ ~SameAttempt(a, id)
    PROVE  Keeps(s, t, V)
<1>1. Types /\ TrackOK(s) /\ FreshInv /\ tracker[s] \in Trackers /\ TrackerOK(tracker[s])
  BY ServerTypes DEF IInv, LocalInv, TrackOK
<1>2. \A a \in Waiting(s) : a \in RequestIds /\ a \in Unlogged
  BY FirstIsLow DEF Waiting, LeaderOps, Unlogged
<1>3. /\ \A e \in RequestIds : \A W :
            /\ Remembers(tracker[s], e, W)
            /\ e.seq # id.seq \/ (e.no # id.no /\ id \in W)
            => /\ Remembers(t, e, W)
               /\ Owns(tracker[s], e) => Owns(t, e)
      /\ \A a \in RequestIds : ~SameAttempt(a, id) /\ Attached(tracker[s], a) => Attached(t, a)
      /\ SameResponses(tracker[s], t)
  BY <1>1, <1>2, FailKeeps
<1>4. ASSUME NEW i, Known(s, i)
      PROVE  /\ Remembers(t, log[s][i], V)
             /\ Owns(tracker[s], log[s][i]) => Owns(t, log[s][i])
  <2>1. PICK e : e = log[s][i]
    OBVIOUS
  <2>2. e \in RequestIds /\ e \in Logged
    <3>1. i \in DOMAIN log[s]
      BY <1>4 DEF Known
    <3> QED BY <2>1, <3>1, FirstIsLow DEF Logged, LoggedOn
  <2>3. e.seq # id.seq \/ e.no # id.no
    BY <1>1, <1>2, <2>2 DEF FreshInv, SameAttempt
  <2>4. Remembers(tracker[s], e, Waiting(s))
    BY <1>1, <1>4, <2>1 DEF TrackOK, Known
  <2>5. /\ Remembers(t, e, Waiting(s))
        /\ Owns(tracker[s], e) => Owns(t, e)
    BY <1>3, <2>2, <2>3, <2>4
  <2>6. Remembers(t, e, V)
    BY <2>5, FewerWaiting
  <2> QED BY <2>1, <2>5, <2>6
<1>5. \A a \in V : Attached(t, a)
  BY <1>1, <1>2, <1>3 DEF TrackOK
<1>6. TrackerOK(t)
  BY DEF FailsFrom
<1> QED BY <1>3, <1>4, <1>5, <1>6 DEF Keeps

LEMMA AppendedIs ==
    ASSUME Types, NEW s \in Servers, NEW o \in Ops, queue'[s] = Append(queue[s], o)
    PROVE  LET n == Len(queue[s]) + 1
           IN  /\ n \in DOMAIN queue'[s] /\ queue'[s][n] = o /\ n \notin DOMAIN queue[s]
               /\ \A k \in DOMAIN queue[s] :
                     k \in DOMAIN queue'[s] /\ queue'[s][k] = queue[s][k] /\ ~(n < k)
               /\ \A k \in DOMAIN queue'[s] : k \in DOMAIN queue[s] \/ k = n
<1>1. queue[s] \in Seq(Ops) /\ Len(queue[s]) \in Nat /\ DOMAIN queue[s] = 1 .. Len(queue[s])
  BY ServerTypes
<1>2. PICK n : n = Len(queue[s]) + 1
  OBVIOUS
<1>3. n \notin DOMAIN queue[s] /\ \A k \in DOMAIN queue[s] : ~(n < k)
  BY <1>1, <1>2
<1>4. /\ n \in DOMAIN queue'[s] /\ queue'[s][n] = o
      /\ \A k \in DOMAIN queue[s] : k \in DOMAIN queue'[s] /\ queue'[s][k] = queue[s][k]
      /\ \A k \in DOMAIN queue'[s] : k \in DOMAIN queue[s] \/ k = n
  <2>1. n \in 1 .. Len(queue[s]) + 1
    BY <1>1, <1>2
  <2> QED BY <1>1, <1>2, <2>1, AppendIs
<1> QED BY <1>2, <1>3, <1>4

LEMMA ExecuteAsyncLocal ==
    ASSUME IInv, NEW s \in Servers, NEW id \in arrived[s], ExecuteAsync(s, id)
    PROVE  \A u \in Servers : LocalInv(u)'
<1>1. /\ Types' /\ SameRaft /\ Elsewhere(s) /\ SameStore(s)
      /\ arrived'[s] = arrived[s] \ {id}
      /\ replicating'[s] = replicating[s] /\ finished'[s] = finished[s]
      /\ \/ /\ IsRunning(s) /\ tracker'[s] = tracker[s]
            /\ \E o \in Ops : /\ o.id = id /\ o.kind = "LEADER" /\ o.at = role[s].term
                              /\ queue'[s] = Append(queue[s], o)
         \/ queue'[s] = queue[s] /\ FailsFrom(tracker[s], id, tracker'[s])
  BY ExecuteAsyncStep
<1>2. Types /\ QueueOK(s) /\ ReplayOK(s) /\ TrackOK(s) /\ DistinctInv
  BY DEF IInv, LocalInv
<1>3. term' >= term /\ term' = term
  BY <1>1, <1>2, SameTerm DEF SameRaft
<1>4. log'[s] = log[s] /\ applied'[s] = applied[s] /\ role'[s] = role[s] /\ replay'[s] = replay[s]
  BY <1>1 DEF SameStore
<1>5. ReplayOK(s)'
  BY <1>1, <1>2, <1>3, <1>4, ReplayStays
<1>6. CASE queue'[s] = queue[s] /\ FailsFrom(tracker[s], id, tracker'[s])
  <2>1. QueueOK(s)'
    BY <1>1, <1>2, <1>3, <1>4, <1>6, QueueStays
  <2>2. \A a \in Waiting(s)' : a \in Waiting(s) /\ ~SameAttempt(a, id)
    <3>1. id \in Waiting(s)
      BY DEF Waiting
    <3>2. ASSUME NEW a \in arrived'[s] PROVE a \in Waiting(s) /\ ~SameAttempt(a, id)
      BY <1>1, <1>2, <3>1 DEF Waiting, DistinctInv
    <3>3. ASSUME NEW k \in LeaderOps(s)
          PROVE  queue[s][k].id \in Waiting(s) /\ ~SameAttempt(queue[s][k].id, id)
      BY <1>2 DEF Waiting, DistinctInv, SameAttempt
    <3>4. \A a \in Waiting(s)' : a \in arrived'[s] \/ \E k \in LeaderOps(s) : a = queue[s][k].id
      BY <1>6, QueueSets DEF Waiting
    <3> QED BY <3>2, <3>3, <3>4
  <2>3. Keeps(s, tracker'[s], Waiting(s)')
    <3>1. PICK t : t = tracker'[s]
      OBVIOUS
    <3>2. PICK V : V = Waiting(s)'
      OBVIOUS
    <3>3. id \in Waiting(s)
      BY DEF Waiting
    <3>4. Keeps(s, t, V)
      BY <1>6, <2>2, <3>1, <3>2, <3>3, WaitingFails
    <3> QED BY <3>1, <3>2, <3>4
  <2>4. OpsOK(s)' /\ TrackOK(s)'
    BY <1>1, <1>6, <2>3, QueueSets, TrackerMoves
  <2>5. LocalInv(s)'
    BY <1>5, <2>1, <2>4 DEF LocalInv
  <2> QED BY <1>1, <1>3, <2>5, LocalKeeps
<1>7. CASE /\ IsRunning(s) /\ tracker'[s] = tracker[s]
           /\ \E o \in Ops : /\ o.id = id /\ o.kind = "LEADER" /\ o.at = role[s].term
                             /\ queue'[s] = Append(queue[s], o)
  <2>1. PICK o \in Ops : /\ o.id = id /\ o.kind = "LEADER" /\ o.at = role[s].term
                         /\ queue'[s] = Append(queue[s], o)
    BY <1>7
  <2>2. PICK n : n = Len(queue[s]) + 1
    OBVIOUS
  <2>3. /\ n \in DOMAIN queue'[s] /\ queue'[s][n] = o /\ n \notin DOMAIN queue[s]
        /\ \A k \in DOMAIN queue[s] :
              k \in DOMAIN queue'[s] /\ queue'[s][k] = queue[s][k] /\ ~(n < k)
        /\ \A k \in DOMAIN queue'[s] : k \in DOMAIN queue[s] \/ k = n
    BY <1>2, <2>1, <2>2, AppendedIs
  <2>4. /\ LeaderOps(s)' = LeaderOps(s) \cup {n} /\ FollowerOps(s)' = FollowerOps(s)
        /\ PendingOps(s)' = PendingOps(s)
        /\ LeaderOps(s) \subseteq DOMAIN queue[s] /\ FollowerOps(s) \subseteq DOMAIN queue[s]
        /\ PendingOps(s) \subseteq FollowerOps(s)
    BY <2>1, <2>3 DEF LeaderOps, FollowerOps, PendingOps
  <2>5. PendingAt(s)' = PendingAt(s)
    BY <2>3, <2>4 DEF PendingAt
  <2>6. \A i : Known(s, i)' <=> Known(s, i)
    BY <1>4, <2>5, KnownStays
  <2>7. QueueOK(s)'
    <3>1. \A k \in LeaderOps(s)' : queue'[s][k].at <= term'
      <4>1. role[s].term <= term
        BY <1>2 DEF ReplayOK
      <4> QED BY <1>2, <1>3, <2>1, <2>3, <2>4, <4>1 DEF QueueOK
    <3>2. \A k \in PendingOps(s)' :
             LET p == queue'[s][k]
             IN  /\ p.at \in DOMAIN log'[s] /\ log'[s][p.at] = p.id
                 /\ p.at \notin applied'[s] /\ \A r \in replicating'[s] : r.at # p.at
      BY <1>1, <1>2, <1>4, <2>3, <2>4 DEF QueueOK
    <3>3. \A k \in LeaderOps(s)', l \in FollowerOps(s)' :
             k < l => role'[s].lead = "no" \/ role'[s].term # queue'[s][k].at
      <4> SUFFICES ASSUME NEW k \in LeaderOps(s)', NEW l \in FollowerOps(s)', k < l
                   PROVE  role'[s].lead = "no" \/ role'[s].term # queue'[s][k].at
        OBVIOUS
      <4>1. l \in FollowerOps(s) /\ ~(n < l)
        BY <2>3, <2>4
      <4>2. k \in LeaderOps(s) /\ queue'[s][k] = queue[s][k]
        BY <2>3, <2>4, <4>1
      <4> QED BY <1>2, <1>4, <4>1, <4>2 DEF QueueOK
    <3>4. /\ \A k, l \in PendingOps(s)' : queue'[s][k].at = queue'[s][l].at => k = l
          /\ \A k \in PendingOps(s)', l \in FollowerOps(s)' :
                k < l => queue'[s][k].id.seq # queue'[s][l].id.seq
      BY <1>2, <2>3, <2>4 DEF QueueOK
    <3>5. \A k \in FollowerOps(s)', i \in DOMAIN log'[s] :
             Known(s, i)' => log'[s][i].seq # queue'[s][k].id.seq
      BY <1>2, <1>4, <2>3, <2>4, <2>6 DEF QueueOK
    <3> QED BY <3>1, <3>2, <3>3, <3>4, <3>5 DEF QueueOK
  <2>8. Waiting(s)' \subseteq Waiting(s)
    <3>1. \A a \in Waiting(s)' : a \in arrived'[s] \/ \E k \in LeaderOps(s)' : a = queue'[s][k].id
      BY DEF Waiting
    <3> QED BY <1>1, <2>1, <2>3, <2>4, <3>1 DEF Waiting
  <2>9. Keeps(s, tracker'[s], Waiting(s)')
    <3>1. PICK V : V = Waiting(s)'
      OBVIOUS
    <3>2. Keeps(s, tracker[s], V)
      BY <2>8, <3>1, KeepsAsIs
    <3> QED BY <1>7, <3>1, <3>2
  <2>10. OpsOK(s)' /\ TrackOK(s)'
    BY <1>1, <2>5, <2>9, TrackerMoves
  <2>11. LocalInv(s)'
    BY <1>5, <2>7, <2>10 DEF LocalInv
  <2> QED BY <1>1, <1>3, <2>11, LocalKeeps
<1> QED BY <1>1, <1>6, <1>7

\* What is left of the queue when its head o leaves it.
LEMMA QueueTail ==
    ASSUME IInv, NEW s \in Servers, NEW o, IsHead(s, o), SameStore(s), SameRaft,
           \A p \in replicating'[s] : p \in replicating[s] \/ (1 \in PendingOps(s) /\ p.at = o.at)
    PROVE  /\ QueueOK(s)'
           /\ PendingAt(s)' = IF 1 \in PendingOps(s) THEN PendingAt(s) \ {o.at} ELSE PendingAt(s)
<1>1. Types /\ QueueOK(s)
  BY DEF IInv, LocalInv
<1>2. PICK r : r = queue'[s]
  OBVIOUS
<1>3. /\ queue[s] \in Seq(Ops) /\ queue[s] # <<>> /\ 1 \in DOMAIN queue[s] /\ o = queue[s][1]
      /\ r = Tail(queue[s]) /\ DOMAIN queue[s] = 1 .. Len(queue[s]) /\ Len(queue[s]) \in Nat
  BY <1>1, <1>2, ServerTypes, SeqIs DEF IsHead
<1>4. /\ \A k \in DOMAIN r : k \in Nat /\ k >= 1 /\ k + 1 \in DOMAIN queue[s] /\ r[k] = queue[s][k + 1]
      /\ \A k \in DOMAIN queue[s] : k = 1 \/ k - 1 \in DOMAIN r
  BY <1>3, TailIs
<1>5. log'[s] = log[s] /\ applied'[s] = applied[s] /\ role'[s] = role[s] /\ replay'[s] = replay[s]
      /\ term' = term
  BY DEF SameStore, SameRaft
<1>6. /\ \A k \in LeaderOps(s)' : /\ k \in Nat /\ k >= 1 /\ k + 1 \in LeaderOps(s)
                                  /\ queue'[s][k] = queue[s][k + 1]
      /\ \A k \in FollowerOps(s)' : /\ k \in Nat /\ k >= 1 /\ k + 1 \in FollowerOps(s)
                                    /\ queue'[s][k] = queue[s][k + 1]
      /\ \A k \in PendingOps(s)' : /\ k \in Nat /\ k >= 1 /\ k + 1 \in PendingOps(s)
                                   /\ queue'[s][k] = queue[s][k + 1]
  BY <1>2, <1>4 DEF LeaderOps, FollowerOps, PendingOps
<1>7. \A k \in PendingOps(s) : k = 1 \/ (k - 1 \in PendingOps(s)' /\ queue'[s][k - 1] = queue[s][k])
  <2> SUFFICES ASSUME NEW k \in PendingOps(s), k # 1
               PROVE  k - 1 \in PendingOps(s)' /\ queue'[s][k - 1] = queue[s][k]
    OBVIOUS
  <2>1. k \in DOMAIN queue[s] /\ queue[s][k].kind = "FOLLOWER" /\ ~queue[s][k].failed
    BY DEF PendingOps, FollowerOps
  <2>2. k \in Nat /\ k - 1 \in DOMAIN r /\ (k - 1) + 1 = k
    BY <1>3, <1>4, <2>1
  <2>3. r[k - 1] = queue[s][k]
    BY <1>4, <2>2
  <2> QED BY <1>2, <2>1, <2>2, <2>3 DEF PendingOps, FollowerOps
<1>8. \A k, l \in PendingOps(s) : queue[s][k].at = queue[s][l].at => k = l
  BY <1>1 DEF QueueOK
<1>9. PendingAt(s)' = IF 1 \in PendingOps(s) THEN PendingAt(s) \ {o.at} ELSE PendingAt(s)
  <2>1. ASSUME NEW a \in PendingAt(s)'
        PROVE  a \in PendingAt(s) /\ (1 \in PendingOps(s) => a # o.at)
    <3>1. PICK k \in PendingOps(s)' : a = queue'[s][k].at
      BY DEF PendingAt
    <3>2. k + 1 \in PendingOps(s) /\ a = queue[s][k + 1].at /\ k + 1 # 1
      BY <1>6, <3>1
    <3> QED BY <1>3, <1>8, <3>2 DEF PendingAt
  <2>2. ASSUME NEW a \in PendingAt(s), ~(1 \in PendingOps(s) /\ a = o.at) PROVE a \in PendingAt(s)'
    <3>1. PICK k \in PendingOps(s) : a = queue[s][k].at
      BY DEF PendingAt
    <3>2. k # 1
      BY <1>3, <2>2, <3>1
    <3> QED BY <1>7, <3>1, <3>2 DEF PendingAt
  <2> QED BY <2>1, <2>2
<1>10. ASSUME NEW i, Known(s, i)'
       PROVE  Known(s, i) \/ (1 \in PendingOps(s) /\ i = o.at /\ i \in DOMAIN log[s])
  BY <1>5, <1>9, <1>10 DEF Known, IsRunning
<1>11. QueueOK(s)'
  <2>1. \A k \in LeaderOps(s)' : queue'[s][k].at <= term'
    BY <1>1, <1>5, <1>6 DEF QueueOK
  <2>2. ASSUME NEW k \in PendingOps(s)'
        PROVE  LET p == queue'[s][k]
               IN  /\ p.at \in DOMAIN log'[s] /\ log'[s][p.at] = p.id
                   /\ p.at \notin applied'[s] /\ \A x \in replicating'[s] : x.at # p.at
    <3>1. k + 1 \in PendingOps(s) /\ queue'[s][k] = queue[s][k + 1] /\ k + 1 # 1
      BY <1>6
    <3>2. PICK p : p = queue'[s][k]
      OBVIOUS
    <3>3. /\ p.at \in DOMAIN log[s] /\ log[s][p.at] = p.id /\ p.at \notin applied[s]
          /\ \A x \in replicating[s] : x.at # p.at
      BY <1>1, <3>1, <3>2 DEF QueueOK
    <3>4. 1 \in PendingOps(s) => o.at # p.at
      BY <1>3, <1>8, <3>1, <3>2
    <3> QED BY <1>5, <3>2, <3>3, <3>4
  <2>3. \A k \in LeaderOps(s)', l \in FollowerOps(s)' :
           k < l => role'[s].lead = "no" \/ role'[s].term # queue'[s][k].at
    <3> SUFFICES ASSUME NEW k \in LeaderOps(s)', NEW l \in FollowerOps(s)', k < l
                 PROVE  role'[s].lead = "no" \/ role'[s].term # queue'[s][k].at
      OBVIOUS
    <3>1. k + 1 \in LeaderOps(s) /\ l + 1 \in FollowerOps(s) /\ k + 1 < l + 1
          /\ queue'[s][k] = queue[s][k + 1]
      BY <1>6
    <3> QED BY <1>1, <1>5, <3>1 DEF QueueOK
  <2>4. ASSUME NEW k \in PendingOps(s)', NEW l \in PendingOps(s)', queue'[s][k].at = queue'[s][l].at
        PROVE  k = l
    <3>1. k \in Nat /\ l \in Nat /\ k + 1 = l + 1
      BY <1>6, <1>8, <2>4
    <3> QED BY <3>1
  <2>5. ASSUME NEW k \in PendingOps(s)', NEW l \in FollowerOps(s)', k < l
        PROVE  queue'[s][k].id.seq # queue'[s][l].id.seq
    <3>1. k + 1 \in PendingOps(s) /\ l + 1 \in FollowerOps(s) /\ k + 1 < l + 1
          /\ queue'[s][k] = queue[s][k + 1] /\ queue'[s][l] = queue[s][l + 1]
      BY <1>6, <2>5
    <3> QED BY <1>1, <3>1 DEF QueueOK
  <2>6. ASSUME NEW k \in FollowerOps(s)', NEW i \in DOMAIN log'[s], Known(s, i)'
        PROVE  log'[s][i].seq # queue'[s][k].id.seq
    <3>1. k + 1 \in FollowerOps(s) /\ queue'[s][k] = queue[s][k + 1] /\ 1 < k + 1
      BY <1>6
    <3>2. CASE Known(s, i)
      BY <1>1, <1>5, <3>1, <3>2 DEF QueueOK
    <3>3. CASE 1 \in PendingOps(s) /\ i = o.at
      <4>1. log[s][i] = o.id /\ o.id.seq # queue[s][k + 1].id.seq
        BY <1>1, <1>3, <3>1, <3>3 DEF QueueOK
      <4> QED BY <1>5, <3>1, <4>1
    <3> QED BY <1>10, <2>6, <3>2, <3>3
  <2> QED BY <2>1, <2>2, <2>3, <2>4, <2>5, <2>6 DEF QueueOK
<1> QED BY <1>9, <1>11

LEMMA LeaderOpFailsLocal ==
    ASSUME IInv, NEW s \in Servers, NEW o, LeaderOpFails(s, o), Types', Elsewhere(s), SameRaft
    PROVE  \A u \in Servers : LocalInv(u)'
<1>1. /\ IsHead(s, o) /\ o.kind = "LEADER" /\ FailsFrom(tracker[s], o.id, tracker'[s])
      /\ SameStore(s) /\ arrived'[s] = arrived[s]
      /\ replicating'[s] = replicating[s] /\ finished'[s] = finished[s]
  BY DEF LeaderOpFails
<1>2. Types /\ ReplayOK(s) /\ term' >= term
  BY SameTerm DEF IInv, LocalInv
<1>3. 1 \notin PendingOps(s)
  BY <1>1 DEF IsHead, PendingOps, FollowerOps
<1>4. QueueOK(s)' /\ PendingAt(s)' = PendingAt(s)
  BY <1>1, <1>3, QueueTail
<1>5. IsRunning(s)
  <2>1. queue[s] # <<>>
    BY <1>1 DEF IsHead
  <2> QED BY <2>1, ReplayingIs
<1>6. ReplayOK(s)'
  BY <1>1, <1>2, <1>5, ReplayStays DEF SameStore
<1>7. Keeps(s, tracker'[s], Waiting(s)')
  <2>1. PICK t : t = tracker'[s]
    OBVIOUS
  <2>2. PICK V : V = Waiting(s)'
    OBVIOUS
  <2>3. o.id \in Waiting(s) /\ \A a \in V : a \in Waiting(s) /\ ~SameAttempt(a, o.id)
    BY <1>1, <2>2, HeadIsAlone
  <2>4. Keeps(s, t, V)
    BY <1>1, <2>1, <2>3, WaitingFails
  <2> QED BY <2>1, <2>2, <2>4
<1>8. OpsOK(s)' /\ TrackOK(s)'
  BY <1>1, <1>4, <1>7, TrackerMoves
<1>9. LocalInv(s)'
  BY <1>4, <1>6, <1>8 DEF LocalInv
<1> QED BY <1>2, <1>9, LocalKeeps

\* The queue, the ops and the log when a leader logs the op o at its head.
LEMMA LeaderOpLoggedLocal ==
    ASSUME IInv, NEW s \in Servers, NEW o, LeaderOpLogged(s, o), o.id \in RequestIds,
           Types', Elsewhere(s), SameRaft, LogInv', ExactlyOnce'
    PROVE  \A u \in Servers : LocalInv(u)'
<1>1. /\ IsHead(s, o) /\ o.kind = "LEADER" /\ role[s].lead = "ready" /\ log'[s] = Append(log[s], o.id)
      /\ applied'[s] = applied[s] /\ role'[s] = role[s] /\ replay'[s] = replay[s]
      /\ tracker'[s] = tracker[s] /\ arrived'[s] = arrived[s] /\ finished'[s] = finished[s]
  BY DEF LeaderOpLogged
<1>2. PICK p : /\ p.id = o.id /\ p.at = Len(log[s]) + 1 /\ p.tracked = TRUE
               /\ replicating'[s] = replicating[s] \cup {p}
  BY DEF LeaderOpLogged
<1>3. Types /\ LocalInv(s) /\ LogInv /\ term' >= term
  BY SameTerm DEF IInv
<1>4. /\ IsRunning(s) /\ FollowerOps(s) = {}
      /\ \A i \in DOMAIN log[s] : Known(s, i) /\ log[s][i].seq # o.id.seq
      /\ Owns(tracker[s], o.id)
      /\ \E rpc \in tracker[s].records[o.id.seq].ongoing : rpc.handler = o.id.no
  BY LeaderOpIsFirst
<1>5. PICK n : n = Len(log[s]) + 1
  OBVIOUS
<1>6. PICK l : l = log'[s]
  OBVIOUS
<1>7. /\ n \in DOMAIN l /\ l[n] = o.id /\ n \notin DOMAIN log[s]
      /\ \A i \in DOMAIN log[s] : i \in DOMAIN l /\ l[i] = log[s][i]
      /\ \A i \in DOMAIN l : i \in DOMAIN log[s] \/ i = n
  <2>1. log[s] \in Seq(RequestIds) /\ Len(log[s]) \in Nat /\ DOMAIN log[s] = 1 .. Len(log[s])
    BY <1>3, ServerTypes
  <2>2. n \notin DOMAIN log[s] /\ n \in 1 .. Len(log[s]) + 1
    BY <1>5, <2>1
  <2> QED BY <1>1, <1>5, <1>6, <2>1, <2>2, AppendIs
<1>8. FollowerOps(s)' = {} /\ PendingOps(s)' = {} /\ PendingAt(s)' = {}
  BY <1>1, <1>4, TailLogged DEF PendingOps, PendingAt
<1>9. Waiting(s)' \subseteq Waiting(s) /\ \A k \in LeaderOps(s)' : queue'[s][k].at <= term'
  <2>1. Waiting(s)' \subseteq Waiting(s)
    BY <1>1, HeadIsAlone
  <2>2. \A k \in LeaderOps(s)' : k + 1 \in LeaderOps(s) /\ queue'[s][k] = queue[s][k + 1]
    <3>1. queue[s] \in Seq(Ops) /\ queue[s] # <<>>
      BY <1>1, <1>3, ServerTypes DEF IsHead
    <3>2. PICK r : r = queue'[s]
      OBVIOUS
    <3>3. \A k \in DOMAIN r : k + 1 \in DOMAIN queue[s] /\ r[k] = queue[s][k + 1]
      BY <1>1, <3>1, <3>2, TailIs DEF IsHead
    <3> QED BY <3>2, <3>3 DEF LeaderOps
  <2> QED BY <1>3, <2>1, <2>2 DEF LocalInv, QueueOK, SameRaft
<1>10. QueueOK(s)'
  BY <1>8, <1>9 DEF QueueOK
<1>11. ReplayOK(s)'
  BY <1>1, <1>3, <1>4, ReplayStays DEF LocalInv
<1>12. IsRunning(s)' /\ \A i : Known(s, i)' <=> i \in DOMAIN l
  BY <1>1, <1>4, <1>6, <1>8 DEF Known, IsRunning
<1>13. applied[s] \subseteq DOMAIN log[s] /\ \A x \in replicating[s] : x.at \in DOMAIN log[s]
  BY <1>3 DEF LogInv, LocalInv, OpsOK
<1>14. OpsOK(s)'
  <2>1. \A x \in replicating'[s] :
           /\ x.at \in DOMAIN l /\ l[x.at] = x.id /\ x.at \notin applied[s]
           /\ x.tracked => Owns(tracker[s], x.id)
    BY <1>2, <1>3, <1>4, <1>5, <1>7, <1>13 DEF LocalInv, OpsOK
  <2>2. \A x, y \in replicating'[s] : x.at = y.at => x = y
    BY <1>2, <1>3, <1>5, <1>7, <1>13 DEF LocalInv, OpsOK
  <2>3. \A x \in finished[s] : x.ok
    BY <1>1, <1>3 DEF LocalInv, OpsOK
  <2>4. \A x \in finished[s] :
           x.at \in applied[s] /\ l[x.at] = x.id /\ Owns(tracker[s], x.id)
    BY <1>3, <1>7, <1>13, <2>3 DEF LocalInv, OpsOK
  <2> QED BY <1>1, <1>6, <2>1, <2>2, <2>3, <2>4 DEF OpsOK
<1>15. TrackOK(s)'
  <2>1. PICK V : V = Waiting(s)'
    OBVIOUS
  <2>2. Keeps(s, tracker[s], V)
    BY <1>9, <2>1, KeepsAsIs
  <2>3. \A i \in DOMAIN l : Remembers(tracker[s], l[i], V)
    <3>1. Remembers(tracker[s], o.id, V)
      BY <1>4 DEF Remembers, Owns, IsCurrentDriver, IsTracked
    <3> QED BY <1>4, <1>7, <2>2, <3>1 DEF Keeps
  <2>4. \A q \in Seqs : tracker[s].records[q].state = "COMPLETED" =>
           LET i == tracker[s].records[q].result
           IN  i \in applied[s] /\ i \in DOMAIN l /\ l[i].seq = q
    BY <1>3, <1>7, <1>13 DEF LocalInv, TrackOK
  <2>5. ~replay[s].tracked
    BY <1>4 DEF IsRunning, Running
  <2>6. TrackerOK(tracker[s]) /\ \A a \in V : Attached(tracker[s], a)
    BY <2>2 DEF Keeps
  <2> QED BY <1>1, <1>6, <1>12, <2>1, <2>3, <2>4, <2>5, <2>6 DEF TrackOK
<1>16. LocalInv(s)'
  BY <1>10, <1>11, <1>14, <1>15 DEF LocalInv
<1> QED BY <1>3, <1>16, LocalKeeps

\* No write that the tracker of s has seen is also a follower op in the queue of s.
LEMMA FollowerOpIsNew ==
    ASSUME IInv, NEW s \in Servers, NEW k \in FollowerOps(s), NEW o, o = queue[s][k]
    PROVE  /\ tracker[s].records[o.id.seq].state # "COMPLETED"
           /\ \A i : Known(s, i) => log[s][i] \in RequestIds /\ log[s][i].seq # o.id.seq
           /\ \A a \in Waiting(s) : a \in RequestIds /\ ~SameAttempt(a, o.id)
           /\ o.id \in RequestIds
<1>1. QueueOK(s) /\ TrackOK(s) /\ FreshInv /\ Types
  BY DEF IInv, LocalInv
<1>2. o.id \in RequestIds /\ o.id \in Logged
  BY FirstIsLow DEF FollowerOps, Logged, LoggedOn
<1>3. \A i : Known(s, i) => log[s][i] \in RequestIds /\ log[s][i].seq # o.id.seq
  BY <1>1, FirstIsLow DEF Known, QueueOK
<1>4. tracker[s].records[o.id.seq].state # "COMPLETED"
  BY <1>1, <1>2, <1>3, IdTypes DEF TrackOK
<1>5. \A a \in Waiting(s) : a \in RequestIds /\ a \in Unlogged
  BY FirstIsLow DEF Waiting, LeaderOps, Unlogged
<1> QED BY <1>1, <1>2, <1>3, <1>4, <1>5 DEF FreshInv

\* The op was aborted: it becomes the driver, if at all, only to fail.
LEMMA FollowerOpFailsLocal ==
    ASSUME IInv, NEW s \in Servers, NEW o, IsHead(s, o), o.kind = "FOLLOWER", NEW x,
           DrivesFrom(tracker[s], o.id, x), FollowerOpFails(s, o, x),
           Types', SameRaft, SameStore(s), arrived'[s] = arrived[s], finished'[s] = finished[s]
    PROVE  LocalInv(s)'
<1>1. /\ o.failed /\ replicating'[s] = replicating[s]
      /\ tracker'[s] = x.tracker \/ FailsFrom(x.tracker, o.id, tracker'[s])
  BY DEF FollowerOpFails
<1>2. Types /\ ReplayOK(s) /\ TrackOK(s) /\ term' >= term /\ tracker[s] \in Trackers
  BY SameTerm, ServerTypes DEF IInv, LocalInv
<1>3. 1 \notin PendingOps(s) /\ 1 \in FollowerOps(s) /\ o = queue[s][1]
  BY <1>1 DEF IsHead, PendingOps, FollowerOps
<1>4. QueueOK(s)' /\ PendingAt(s)' = PendingAt(s)
  BY <1>1, <1>3, QueueTail
<1>5. ReplayOK(s)'
  <2>1. queue[s] # <<>>
    BY DEF IsHead
  <2>2. IsRunning(s)
    BY <2>1, ReplayingIs
  <2> QED BY <1>1, <1>2, <2>2, ReplayStays DEF SameStore
<1>6. /\ tracker[s].records[o.id.seq].state # "COMPLETED"
      /\ \A i : Known(s, i) => log[s][i] \in RequestIds /\ log[s][i].seq # o.id.seq
      /\ \A a \in Waiting(s) : a \in RequestIds /\ ~SameAttempt(a, o.id)
      /\ o.id \in RequestIds
  BY <1>3, FollowerOpIsNew
<1>7. PICK t : t = tracker'[s]
  OBVIOUS
<1>8. PICK V : V = Waiting(s)'
  OBVIOUS
<1>9. V \subseteq Waiting(s)
  BY <1>8, TailShifts, FewerAttempts DEF NothingArrives
<1>10. Keeps(s, tracker[s], V)
  BY <1>9, KeepsAsIs
<1>11. x.tracker \in Trackers /\ TrackerOK(x.tracker)
  BY DEF DrivesFrom
<1>12. Keeps(s, x.tracker, V)
  <2>1. /\ \A e \in RequestIds : \A W :
             e.seq # o.id.seq /\ Remembers(tracker[s], e, W) => Remembers(x.tracker, e, W)
        /\ \A a \in RequestIds : Attached(tracker[s], a) => Attached(x.tracker, a)
        /\ \A e \in RequestIds : e.seq # o.id.seq /\ Owns(tracker[s], e) => Owns(x.tracker, e)
        /\ SameResponses(tracker[s], x.tracker)
    BY <1>2, <1>6, DriveAndFailKeeps
  <2> QED BY <1>6, <1>9, <1>10, <1>11, <2>1 DEF Keeps
<1>13. Keeps(s, t, V)
  <2>1. CASE t = x.tracker
    BY <1>12, <2>1
  <2>2. CASE FailsFrom(x.tracker, o.id, t)
    <3>1. /\ \A e \in RequestIds : \A W :
                /\ Remembers(x.tracker, e, W)
                /\ e.seq # o.id.seq \/ (e.no # o.id.no /\ o.id \in W)
                => /\ Remembers(t, e, W)
                   /\ Owns(x.tracker, e) => Owns(t, e)
          /\ \A a \in RequestIds : ~SameAttempt(a, o.id) /\ Attached(x.tracker, a) => Attached(t, a)
          /\ SameResponses(x.tracker, t)
      BY <1>6, <1>11, <2>2, FailKeeps
    <3>2. TrackerOK(t)
      BY <2>2 DEF FailsFrom
    <3>3. SameResponses(tracker[s], t)
      BY <1>12, <3>1 DEF Keeps, SameResponses
    <3> QED BY <1>6, <1>9, <1>12, <3>1, <3>2, <3>3 DEF Keeps
  <2> QED BY <1>1, <1>7, <2>1, <2>2
<1>14. OpsOK(s)' /\ TrackOK(s)'
  <2>1. Keeps(s, tracker'[s], Waiting(s)')
    BY <1>7, <1>8, <1>13
  <2> QED BY <1>1, <1>4, <2>1, TrackerMoves
<1> QED BY <1>4, <1>5, <1>14 DEF LocalInv

\* The op becomes the driver of a write that the tracker has not seen in the log.
LEMMA FollowerOpDrivesLocal ==
    ASSUME IInv, NEW s \in Servers, NEW o, IsHead(s, o), o.kind = "FOLLOWER", NEW x,
           DrivesFrom(tracker[s], o.id, x), FollowerOpDrives(s, o, x),
           Types', SameRaft, SameStore(s), arrived'[s] = arrived[s], finished'[s] = finished[s]
    PROVE  LocalInv(s)'
<1>1. ~o.failed /\ tracker'[s] = x.tracker
  BY DEF FollowerOpDrives
<1>2. PICK p : /\ p.id = o.id /\ p.at = o.at /\ p.tracked = (x.state = "NEW")
               /\ replicating'[s] = replicating[s] \cup {p}
  BY DEF FollowerOpDrives
<1>3. /\ Types /\ LocalInv(s) /\ term' >= term /\ tracker[s] \in Trackers /\ OpsOK(s) /\ TrackOK(s)
      /\ ReplayOK(s)
  BY SameTerm, ServerTypes DEF IInv, LocalInv
<1>4. 1 \in PendingOps(s) /\ 1 \in FollowerOps(s) /\ o = queue[s][1]
  BY <1>1 DEF IsHead, PendingOps, FollowerOps
<1>5. QueueOK(s)' /\ PendingAt(s)' = PendingAt(s) \ {o.at}
  BY <1>2, <1>4, QueueTail
<1>6. IsRunning(s)
  <2>1. queue[s] # <<>>
    BY DEF IsHead
  <2> QED BY <2>1, ReplayingIs
<1>7. ReplayOK(s)'
  BY <1>3, <1>6, ReplayStays DEF SameStore
<1>8. /\ tracker[s].records[o.id.seq].state # "COMPLETED"
      /\ \A i : Known(s, i) => log[s][i] \in RequestIds /\ log[s][i].seq # o.id.seq
      /\ \A a \in Waiting(s) : a \in RequestIds /\ ~SameAttempt(a, o.id)
      /\ o.id \in RequestIds
  BY <1>4, FollowerOpIsNew
<1>9. PICK V : V = Waiting(s)'
  OBVIOUS
<1>10. V \subseteq Waiting(s)
  BY <1>9, TailShifts, FewerAttempts DEF NothingArrives
<1>11. Keeps(s, tracker[s], V)
  BY <1>10, KeepsAsIs
<1>12. /\ \A e \in RequestIds :
             e.seq # o.id.seq /\ Remembers(tracker[s], e, V) => Remembers(x.tracker, e, V)
       /\ Remembers(x.tracker, o.id, V)
       /\ \A a \in RequestIds : Attached(tracker[s], a) => Attached(x.tracker, a)
       /\ \A e \in RequestIds : e.seq # o.id.seq /\ Owns(tracker[s], e) => Owns(x.tracker, e)
       /\ x.state = "NEW" => Owns(x.tracker, o.id)
       /\ SameResponses(tracker[s], x.tracker)
  <2>1. PICK t \in Trackers : t = tracker[s]
    BY <1>3
  <2>2. \A a \in V : Attached(t, a)
    BY <1>11, <2>1 DEF Keeps
  <2>3. DrivesFrom(t, o.id, x) /\ t.records[o.id.seq].state # "COMPLETED" /\ o.id \in RequestIds
    BY <1>8, <2>1
  <2>4. /\ \A e \in RequestIds : e.seq # o.id.seq /\ Remembers(t, e, V) => Remembers(x.tracker, e, V)
        /\ Remembers(x.tracker, o.id, V)
        /\ \A a \in RequestIds : Attached(t, a) => Attached(x.tracker, a)
        /\ \A e \in RequestIds : e.seq # o.id.seq /\ Owns(t, e) => Owns(x.tracker, e)
        /\ x.state = "NEW" => Owns(x.tracker, o.id)
        /\ SameResponses(t, x.tracker)
    BY <2>2, <2>3, DriveKeeps
  <2> QED BY <2>1, <2>4
<1>13. TrackerOK(x.tracker)
  BY DEF DrivesFrom
<1>14. log'[s] = log[s] /\ applied'[s] = applied[s] /\ role'[s] = role[s] /\ replay'[s] = replay[s]
  BY DEF SameStore
<1>15. /\ o.at \in DOMAIN log[s] /\ log[s][o.at] = o.id /\ o.at \notin applied[s]
       /\ \A r \in replicating[s] : r.at # o.at
  BY <1>3, <1>4 DEF LocalInv, QueueOK
<1>16. \A i : Known(s, i)' <=> Known(s, i) \/ i = o.at
  BY <1>5, <1>6, <1>14, <1>15 DEF Known, IsRunning
<1>17. OpsOK(s)'
  <2>1. \A r \in replicating[s] : r.tracked => Owns(x.tracker, r.id)
    BY <1>3, <1>8, <1>12, OpsAreKnown DEF OpsOK
  <2>2. \A r \in replicating'[s] :
           /\ r.at \in DOMAIN log[s] /\ log[s][r.at] = r.id /\ r.at \notin applied[s]
           /\ r.tracked => Owns(x.tracker, r.id)
    BY <1>2, <1>3, <1>12, <1>15, <2>1 DEF OpsOK
  <2>3. \A r, y \in replicating'[s] : r.at = y.at => r = y
    BY <1>2, <1>3, <1>15 DEF OpsOK
  <2>4. \A f \in finished[s] :
           /\ f.ok => f.at \in applied[s] /\ log[s][f.at] = f.id /\ Owns(x.tracker, f.id)
           /\ ~f.ok => role[s].lead = "no" /\ \A i \in DOMAIN log[s] : log[s][i].seq # f.id.seq
    BY <1>3, <1>8, <1>12, OpsAreKnown DEF OpsOK
  <2> QED BY <1>1, <1>14, <2>2, <2>3, <2>4 DEF OpsOK
<1>18. TrackOK(s)'
  <2>1. \A i \in DOMAIN log[s] : Known(s, i)' => Remembers(x.tracker, log[s][i], V)
    BY <1>8, <1>11, <1>12, <1>15, <1>16 DEF Keeps
  <2>2. \A a \in V : Attached(x.tracker, a)
    BY <1>8, <1>10, <1>11, <1>12 DEF Keeps
  <2>3. \A q \in Seqs : x.tracker.records[q].state = "COMPLETED" =>
           LET i == x.tracker.records[q].result
           IN  i \in applied[s] /\ Known(s, i)' /\ log[s][i].seq = q
    BY <1>3, <1>12, <1>16 DEF TrackOK, SameResponses
  <2>4. ~replay[s].tracked
    BY <1>6 DEF IsRunning, Running
  <2> QED BY <1>1, <1>9, <1>13, <1>14, <2>1, <2>2, <2>3, <2>4 DEF TrackOK
<1> QED BY <1>5, <1>7, <1>17, <1>18 DEF LocalInv

LEMMA PrepareFollowerOpLocal ==
    ASSUME IInv, NEW s \in Servers, NEW o, PrepareFollowerOp(s, o)
    PROVE  \A u \in Servers : LocalInv(u)'
<1>1. /\ Types' /\ SameRaft /\ Elsewhere(s) /\ SameStore(s)
      /\ arrived'[s] = arrived[s] /\ finished'[s] = finished[s]
      /\ IsHead(s, o) /\ o.kind = "FOLLOWER"
  BY PrepareFollowerOpStep
<1>2. PICK x : /\ DrivesFrom(tracker[s], o.id, x)
               /\ FollowerOpFails(s, o, x) \/ FollowerOpDrives(s, o, x)
  BY PrepareFollowerOpStep
<1>3. LocalInv(s)'
  BY <1>1, <1>2, FollowerOpFailsLocal, FollowerOpDrivesLocal
<1>4. term' >= term
  BY <1>1, SameTerm DEF IInv
<1> QED BY <1>1, <1>3, <1>4, LocalKeeps

LEMMA ApplyTaskLocal ==
    ASSUME IInv, NEW s \in Servers, NEW o \in replicating[s], ApplyTask(s, o)
    PROVE  \A u \in Servers : LocalInv(u)'
<1>1. /\ Types' /\ SameRaft /\ Elsewhere(s)
      /\ log'[s] = log[s] /\ role'[s] = role[s] /\ replay'[s] = replay[s]
      /\ tracker'[s] = tracker[s] /\ arrived'[s] = arrived[s] /\ queue'[s] = queue[s]
      /\ applied'[s] = applied[s] \cup {o.at} /\ replicating'[s] = replicating[s] \ {o}
      /\ \A f \in finished'[s] :
            f \in finished[s] \/ (o.tracked /\ f.id = o.id /\ f.at = o.at /\ f.ok = TRUE)
  BY ApplyTaskStep
<1>2. Types /\ QueueOK(s) /\ ReplayOK(s) /\ OpsOK(s) /\ TrackOK(s) /\ term' >= term /\ term' = term
  BY <1>1, SameTerm DEF IInv, LocalInv, SameRaft
<1>3. IsRunning(s)
  BY ReplayingIs
<1>4. /\ LeaderOps(s)' = LeaderOps(s) /\ FollowerOps(s)' = FollowerOps(s)
      /\ PendingOps(s)' = PendingOps(s) /\ PendingAt(s)' = PendingAt(s) /\ Waiting(s)' = Waiting(s)
  BY <1>1, QueueSets DEF Waiting
<1>5. \A i : Known(s, i)' <=> Known(s, i)
  BY <1>1, <1>4, KnownStays
<1>6. QueueOK(s)'
  <2>1. \A k \in PendingOps(s) :
           LET p == queue[s][k]
           IN  /\ p.at \in DOMAIN log[s] /\ log[s][p.at] = p.id
               /\ p.at \notin applied'[s] /\ \A r \in replicating'[s] : r.at # p.at
    BY <1>1, <1>2 DEF QueueOK
  <2>2. /\ \A k \in LeaderOps(s) : queue[s][k].at <= term'
        /\ \A k \in LeaderOps(s), l \in FollowerOps(s) :
              k < l => role[s].lead = "no" \/ role[s].term # queue[s][k].at
        /\ \A k, l \in PendingOps(s) : queue[s][k].at = queue[s][l].at => k = l
        /\ \A k \in PendingOps(s), l \in FollowerOps(s) :
              k < l => queue[s][k].id.seq # queue[s][l].id.seq
        /\ \A k \in FollowerOps(s), i \in DOMAIN log[s] :
              Known(s, i) => log[s][i].seq # queue[s][k].id.seq
    BY <1>2 DEF QueueOK
  <2> QED BY <1>1, <1>4, <1>5, <2>1, <2>2 DEF QueueOK
<1>7. ReplayOK(s)'
  BY <1>1, <1>2, <1>3, ReplayStays
<1>8. OpsOK(s)'
  <2>1. \A r \in replicating'[s] :
           /\ r.at \in DOMAIN log[s] /\ log[s][r.at] = r.id /\ r.at \notin applied'[s]
           /\ r.tracked => Owns(tracker[s], r.id)
    BY <1>1, <1>2 DEF OpsOK
  <2>2. \A r, y \in replicating'[s] : r.at = y.at => r = y
    BY <1>1, <1>2 DEF OpsOK
  <2>3. \A f \in finished'[s] :
           /\ f.ok => f.at \in applied'[s] /\ log[s][f.at] = f.id /\ Owns(tracker[s], f.id)
           /\ ~f.ok => role[s].lead = "no" /\ \A i \in DOMAIN log[s] : log[s][i].seq # f.id.seq
    BY <1>1, <1>2 DEF OpsOK
  <2> QED BY <1>1, <2>1, <2>2, <2>3 DEF OpsOK
<1>9. TrackOK(s)'
  <2>1. /\ TrackerOK(tracker[s])
        /\ \A i \in DOMAIN log[s] : Known(s, i) => Remembers(tracker[s], log[s][i], Waiting(s))
        /\ \A a \in Waiting(s) : Attached(tracker[s], a)
        /\ replay[s].tracked => Owns(tracker[s], log[s][replay[s].at])
    BY <1>2 DEF TrackOK
  <2>2. \A q \in Seqs : tracker[s].records[q].state = "COMPLETED" =>
           LET i == tracker[s].records[q].result
           IN  i \in applied'[s] /\ Known(s, i) /\ log[s][i].seq = q
    BY <1>1, <1>2 DEF TrackOK
  <2> QED BY <1>1, <1>4, <1>5, <2>1, <2>2 DEF TrackOK
<1>10. LocalInv(s)'
  BY <1>6, <1>7, <1>8, <1>9 DEF LocalInv
<1> QED BY <1>1, <1>2, <1>10, LocalKeeps

LEMMA OpCompletedLocal ==
    ASSUME IInv, NEW s \in Servers, NEW o \in finished[s], OpCompleted(s, o)
    PROVE  \A u \in Servers : LocalInv(u)'
<1>1. /\ Types' /\ SameRaft /\ Elsewhere(s) /\ SameStore(s)
      /\ arrived'[s] = arrived[s] /\ queue'[s] = queue[s]
      /\ replicating'[s] = replicating[s] /\ finished'[s] = finished[s] \ {o}
      /\ o.id \in RequestIds /\ o.at \in Nat
      /\ IF o.ok THEN CompletesFrom(tracker[s], o.id, o.at, tracker'[s])
         ELSE FailsFrom(tracker[s], o.id, tracker'[s])
  BY OpCompletedStep
<1>2. /\ Types /\ QueueOK(s) /\ ReplayOK(s) /\ OpsOK(s) /\ TrackOK(s) /\ term' >= term
      /\ tracker[s] \in Trackers /\ ExactlyOnce /\ TrackerOK(tracker[s]) /\ FreshInv
  BY <1>1, SameTerm, ServerTypes DEF IInv, LocalInv, TrackOK
<1>3. log'[s] = log[s] /\ applied'[s] = applied[s] /\ role'[s] = role[s] /\ replay'[s] = replay[s]
  BY <1>1 DEF SameStore
<1>4. QueueOK(s)' /\ ReplayOK(s)'
  BY <1>1, <1>2, <1>3, QueueStays, ReplayStays
<1>5. PendingAt(s)' = PendingAt(s) /\ Waiting(s)' = Waiting(s)
  BY <1>1, QueueSets DEF Waiting
<1>6. \A i : Known(s, i)' <=> Known(s, i)
  BY <1>3, <1>5, KnownStays
<1>7. PICK t : t = tracker'[s]
  OBVIOUS
<1>8. \A a \in Waiting(s) : a \in RequestIds /\ ~SameAttempt(a, o.id)
  <2>1. o.id \in Logged
    BY DEF Logged, LoggedOn
  <2>2. \A a \in Waiting(s) : a \in RequestIds /\ a \in Unlogged
    BY FirstIsLow DEF Waiting, LeaderOps, Unlogged
  <2> QED BY <1>2, <2>1, <2>2 DEF FreshInv
<1>9. \A i : Known(s, i) => /\ i \in DOMAIN log[s] /\ log[s][i] \in RequestIds
                            /\ Remembers(tracker[s], log[s][i], Waiting(s))
  BY <1>2, FirstIsLow DEF Known, TrackOK
<1>10. CASE ~o.ok
  <2>1. \A i \in DOMAIN log[s] : log[s][i].seq # o.id.seq
    BY <1>2, <1>10 DEF OpsOK
  <2>2. FailsFrom(tracker[s], o.id, t)
    BY <1>1, <1>7, <1>10
  <2>3. /\ \A e \in RequestIds : \A W :
              /\ Remembers(tracker[s], e, W)
              /\ e.seq # o.id.seq \/ (e.no # o.id.no /\ o.id \in W)
              => /\ Remembers(t, e, W)
                 /\ Owns(tracker[s], e) => Owns(t, e)
        /\ \A a \in RequestIds : ~SameAttempt(a, o.id) /\ Attached(tracker[s], a) => Attached(t, a)
        /\ SameResponses(tracker[s], t)
    BY <1>1, <1>2, <2>2, FailKeeps
  <2>4. TrackerOK(t)
    BY <2>2 DEF FailsFrom
  <2>5. \A a \in Waiting(s) : Attached(tracker[s], a)
    BY <1>2 DEF TrackOK
  <2>6. Keeps(s, t, Waiting(s))
    BY <1>8, <1>9, <2>1, <2>3, <2>4, <2>5 DEF Keeps
  <2>7. OpsOK(s)' /\ TrackOK(s)'
    <3>1. Keeps(s, tracker'[s], Waiting(s)')
      BY <1>5, <1>7, <2>6
    <3> QED BY <1>1, <1>5, <3>1, TrackerMoves
  <2>8. LocalInv(s)'
    BY <1>4, <2>7 DEF LocalInv
  <2> QED BY <1>1, <1>2, <2>8, LocalKeeps
<1>11. CASE o.ok
  <2>1. CompletesFrom(tracker[s], o.id, o.at, t)
    BY <1>1, <1>7, <1>11
  <2>2. /\ \A e \in RequestIds : \A W : Remembers(tracker[s], e, W) => Remembers(t, e, W)
        /\ \A e \in RequestIds : e.seq # o.id.seq /\ Owns(tracker[s], e) => Owns(t, e)
        /\ \A a \in RequestIds : ~SameAttempt(a, o.id) /\ Attached(tracker[s], a) => Attached(t, a)
        /\ \A q \in Seqs : t.records[q].state = "COMPLETED" =>
              \/ q = o.id.seq /\ t.records[q].result = o.at
              \/ tracker[s].records[q].state = "COMPLETED"
                 /\ tracker[s].records[q].result = t.records[q].result
    <3>1. tracker[s].records[o.id.seq] # NoRecord
      BY <1>11, LocalTypes
    <3> QED BY <1>1, <1>2, <2>1, <3>1, CompleteKeeps
  <2>3. TrackerOK(t)
    BY <2>1 DEF CompletesFrom
  <2>4. o.at \in applied[s] /\ log[s][o.at] = o.id /\ Known(s, o.at)
    BY <1>2, <1>11, OpsAreKnown DEF OpsOK
  <2>5. ASSUME NEW i, Known(s, i), i # o.at
        PROVE  log[s][i] \in RequestIds /\ log[s][i].seq # o.id.seq
    BY <1>2, <1>9, <2>4, <2>5 DEF ExactlyOnce
  <2>6. \A r \in replicating[s] : r.tracked => Owns(t, r.id)
    <3> SUFFICES ASSUME NEW r \in replicating[s], r.tracked PROVE Owns(t, r.id)
      OBVIOUS
    <3>1. Known(s, r.at) /\ log[s][r.at] = r.id /\ r.at # o.at /\ Owns(tracker[s], r.id)
      BY <1>2, <2>4, OpsAreKnown DEF OpsOK
    <3> QED BY <2>2, <2>5, <3>1
  <2>7. \A f \in finished'[s] : f.ok => Owns(t, f.id)
    <3> SUFFICES ASSUME NEW f \in finished[s], f # o, f.ok PROVE Owns(t, f.id)
      BY <1>1
    <3>1. Known(s, f.at) /\ log[s][f.at] = f.id /\ Owns(tracker[s], f.id)
      BY <1>2, OpsAreKnown DEF OpsOK
    <3>2. f.at # o.at
      <4>1. f \in [id : RequestIds, at : Nat, ok : BOOLEAN] /\ o \in [id : RequestIds, at : Nat, ok : BOOLEAN]
        BY <1>2, ServerTypes
      <4>2. f.at = o.at => f.id = o.id /\ f.ok = o.ok
        BY <1>11, <2>4, <3>1, <4>1
      <4>3. f = [id |-> f.id, at |-> f.at, ok |-> f.ok] /\ o = [id |-> o.id, at |-> o.at, ok |-> o.ok]
        BY <4>1
      <4> QED BY <4>2, <4>3
    <3> QED BY <2>2, <2>5, <3>1, <3>2
  <2>8. OpsOK(s)'
    <3>1. \A r \in replicating[s] :
             r.at \in DOMAIN log[s] /\ log[s][r.at] = r.id /\ r.at \notin applied[s]
      BY <1>2 DEF OpsOK
    <3>2. \A r, y \in replicating[s] : r.at = y.at => r = y
      BY <1>2 DEF OpsOK
    <3>3. \A f \in finished'[s] :
             /\ f.ok => f.at \in applied[s] /\ log[s][f.at] = f.id
             /\ ~f.ok => role[s].lead = "no" /\ \A i \in DOMAIN log[s] : log[s][i].seq # f.id.seq
      BY <1>1, <1>2 DEF OpsOK
    <3> QED BY <1>1, <1>3, <1>7, <2>6, <2>7, <3>1, <3>2, <3>3 DEF OpsOK
  <2>9. TrackOK(s)'
    <3>1. \A i \in DOMAIN log[s] : Known(s, i) => Remembers(t, log[s][i], Waiting(s))
      BY <1>9, <2>2
    <3>2. \A a \in Waiting(s) : Attached(t, a)
      BY <1>2, <1>8, <2>2 DEF TrackOK
    <3>3. \A q \in Seqs : t.records[q].state = "COMPLETED" =>
             LET i == t.records[q].result
             IN  i \in applied[s] /\ Known(s, i) /\ log[s][i].seq = q
      BY <1>2, <2>2, <2>4 DEF TrackOK
    <3>4. ~replay[s].tracked
      <4>1. IsRunning(s)
        BY ReplayingIs
      <4> QED BY <4>1 DEF IsRunning, Running
    <3> QED BY <1>3, <1>5, <1>6, <1>7, <2>3, <3>1, <3>2, <3>3, <3>4 DEF TrackOK
  <2>10. LocalInv(s)'
    BY <1>4, <2>8, <2>9 DEF LocalInv
  <2> QED BY <1>1, <1>2, <2>10, LocalKeeps
<1> QED BY <1>10, <1>11

\* Only the role of server s changes.
LEMMA RoleMoves ==
    ASSUME IInv, NEW s \in Servers, SameOps(s), SameLog(s),
           role'[s].lead = "no" \/ \A o \in finished[s] : o.ok
    PROVE  OpsOK(s)' /\ TrackOK(s)'
<1>1. OpsOK(s) /\ TrackOK(s)
  BY DEF IInv, LocalInv
<1>2. /\ tracker'[s] = tracker[s] /\ arrived'[s] = arrived[s] /\ queue'[s] = queue[s]
      /\ replicating'[s] = replicating[s] /\ finished'[s] = finished[s]
      /\ log'[s] = log[s] /\ applied'[s] = applied[s] /\ replay'[s] = replay[s]
  BY DEF SameOps, SameLog
<1>3. PendingAt(s)' = PendingAt(s) /\ Waiting(s)' = Waiting(s)
  BY <1>2, QueueSets DEF Waiting
<1>4. \A i : Known(s, i)' <=> Known(s, i)
  BY <1>2, <1>3, KnownStays
<1>5. OpsOK(s)'
  BY <1>1, <1>2 DEF OpsOK
<1>6. TrackOK(s)'
  BY <1>1, <1>2, <1>3, <1>4 DEF TrackOK
<1> QED BY <1>5, <1>6

LEMMA BecomeLeaderLocal ==
    ASSUME IInv, NEW s \in Servers, BecomeLeader(s)
    PROVE  \A u \in Servers : LocalInv(u)'
<1>1. /\ Types' /\ Elsewhere(s) /\ SameOps(s) /\ SameLog(s)
      /\ IsRunning(s) /\ \A o \in finished[s] : o.ok
      /\ term' = term + 1 /\ role'[s].lead = "elected" /\ role'[s].term = term + 1
  BY BecomeLeaderStep
<1>2. Types /\ QueueOK(s) /\ ReplayOK(s) /\ term \in Nat
  BY DEF IInv, LocalInv, Types
<1>3. term' >= term /\ role'[s].term <= term'
  BY <1>1, <1>2
<1>4. \A k \in LeaderOps(s) : role'[s].term # queue[s][k].at
  <2> SUFFICES ASSUME NEW k \in LeaderOps(s) PROVE role'[s].term # queue[s][k].at
    OBVIOUS
  <2>1. queue[s][k].at \in Nat /\ queue[s][k].at <= term
    BY <1>2, ServerTypes, SeqIs, OpTypes DEF QueueOK, LeaderOps
  <2> QED BY <1>1, <1>2, <2>1
<1>5. QueueOK(s)'
  BY <1>1, <1>2, <1>3, <1>4, QueueStays DEF SameOps, SameLog
<1>6. ReplayOK(s)'
  BY <1>1, <1>2, <1>3, ReplayStays DEF SameLog
<1>7. LocalInv(s)'
  BY <1>1, <1>5, <1>6, RoleMoves DEF LocalInv
<1> QED BY <1>1, <1>3, <1>7, LocalKeeps

LEMMA BecomeReplicaLocal ==
    ASSUME IInv, NEW s \in Servers, BecomeReplica(s)
    PROVE  \A u \in Servers : LocalInv(u)'
<1>1. /\ Types' /\ Elsewhere(s) /\ SameRaft /\ SameOps(s) /\ SameLog(s)
      /\ role'[s].lead = "no" /\ role'[s].term = 0
  BY BecomeReplicaStep DEF NotLeader
<1>2. Types /\ QueueOK(s) /\ ReplayOK(s) /\ term \in Nat
  BY DEF IInv, LocalInv, Types
<1>3. term' >= term /\ role'[s].term <= term'
  BY <1>1, <1>2 DEF SameRaft
<1>4. IsRunning(s)
  BY ReplayingIs DEF BecomeReplica
<1>5. QueueOK(s)'
  BY <1>1, <1>2, <1>3, QueueStays DEF SameOps, SameLog
<1>6. ReplayOK(s)'
  BY <1>1, <1>2, <1>3, <1>4, ReplayStays DEF SameLog
<1>7. LocalInv(s)'
  BY <1>1, <1>5, <1>6, RoleMoves DEF LocalInv
<1> QED BY <1>1, <1>3, <1>7, LocalKeeps

LEMMA LeaderIsReadyLocal ==
    ASSUME IInv, NEW s \in Servers, LeaderIsReady(s)
    PROVE  \A u \in Servers : LocalInv(u)'
<1>1. /\ Types' /\ Elsewhere(s) /\ SameOps(s) /\ SameLog(s) /\ LeadsNow(s) /\ term' = term
      /\ role'[s].lead = "ready" /\ role'[s].term = role[s].term
  BY LeaderIsReadyStep
<1>2. Types /\ QueueOK(s) /\ ReplayOK(s) /\ OpsOK(s) /\ term \in Nat
  BY DEF IInv, LocalInv, Types
<1>3. term' >= term /\ role'[s].term <= term' /\ role[s].lead # "no"
  BY <1>1, <1>2 DEF ReplayOK, LeadsNow
<1>4. IsRunning(s)
  BY <1>3, ReplayingIs
<1>5. QueueOK(s)'
  BY <1>1, <1>2, <1>3, QueueStays DEF SameOps, SameLog
<1>6. ReplayOK(s)'
  BY <1>1, <1>2, <1>3, <1>4, ReplayStays DEF SameLog
<1>7. \A o \in finished[s] : o.ok
  BY <1>2, <1>3 DEF OpsOK
<1>8. LocalInv(s)'
  BY <1>1, <1>5, <1>6, <1>7, RoleMoves DEF LocalInv
<1> QED BY <1>1, <1>3, <1>8, LocalKeeps

LEMMA StartFollowerOpLocal ==
    ASSUME IInv, NEW s \in Servers, NEW l \in Servers, StartFollowerOp(l, s)
    PROVE  \A u \in Servers : LocalInv(u)'
<1>1. /\ Types' /\ Elsewhere(s) /\ SameRaft
      /\ IsRunning(s) /\ \A o \in finished[s] : o.ok
      /\ role[s].lead = "no" /\ Extends(log[l], log[s]) /\ Len(log[s]) + 1 \in DOMAIN log[l]
      /\ applied'[s] = applied[s] /\ role'[s] = role[s] /\ replay'[s] = replay[s]
      /\ tracker'[s] = tracker[s] /\ arrived'[s] = arrived[s]
      /\ replicating'[s] = replicating[s] /\ finished'[s] = finished[s]
  BY StartFollowerOpStep
<1>2. PICK o \in Ops : /\ o.id = log[l][Len(log[s]) + 1] /\ o.kind = "FOLLOWER"
                       /\ o.at = Len(log[s]) + 1 /\ o.failed = FALSE
                       /\ log'[s] = Append(log[s], o.id)
                       /\ queue'[s] = Append(queue[s], o)
  BY StartFollowerOpStep
<1>3. /\ Types /\ QueueOK(s) /\ ReplayOK(s) /\ OpsOK(s) /\ TrackOK(s) /\ LogInv /\ ExactlyOnce
      /\ term' >= term /\ term' = term
  BY <1>1, SameTerm DEF IInv, LocalInv, SameRaft
<1>4. PICK n : n = Len(log[s]) + 1
  OBVIOUS
<1>5. PICK g : g = log'[s]
  OBVIOUS
<1>6. /\ n \in DOMAIN g /\ g[n] = o.id /\ n \notin DOMAIN log[s]
      /\ \A i \in DOMAIN log[s] : i \in DOMAIN g /\ g[i] = log[s][i]
      /\ \A i \in DOMAIN g : i \in DOMAIN log[s] \/ i = n
  <2>1. /\ log[s] \in Seq(RequestIds) /\ Len(log[s]) \in Nat /\ DOMAIN log[s] = 1 .. Len(log[s])
        /\ o.id \in RequestIds
    BY <1>3, ServerTypes, OpTypes
  <2>2. n \notin DOMAIN log[s] /\ n \in 1 .. Len(log[s]) + 1
    BY <1>4, <2>1
  <2> QED BY <1>2, <1>4, <1>5, <2>1, <2>2, AppendIs
<1>7. PICK m : m = Len(queue[s]) + 1
  OBVIOUS
<1>8. /\ m \in DOMAIN queue'[s] /\ queue'[s][m] = o /\ m \notin DOMAIN queue[s]
      /\ \A k \in DOMAIN queue[s] :
            k \in DOMAIN queue'[s] /\ queue'[s][k] = queue[s][k] /\ ~(m < k)
      /\ \A k \in DOMAIN queue'[s] : k \in DOMAIN queue[s] \/ k = m
  BY <1>2, <1>3, <1>7, AppendedIs
<1>9. /\ LeaderOps(s)' = LeaderOps(s) /\ FollowerOps(s)' = FollowerOps(s) \cup {m}
      /\ PendingOps(s)' = PendingOps(s) \cup {m}
      /\ LeaderOps(s) \subseteq DOMAIN queue[s] /\ FollowerOps(s) \subseteq DOMAIN queue[s]
      /\ PendingOps(s) \subseteq FollowerOps(s)
  BY <1>2, <1>8 DEF LeaderOps, FollowerOps, PendingOps
<1>10. PendingAt(s)' = PendingAt(s) \cup {n}
  BY <1>2, <1>4, <1>8, <1>9 DEF PendingAt
<1>11. \A i : Known(s, i)' <=> Known(s, i)
  BY <1>1, <1>5, <1>6, <1>10 DEF Known, IsRunning
<1>12. \A i \in DOMAIN log[s] : log[s][i].seq # o.id.seq
  <2>1. \A i \in DOMAIN log[s] : i \in DOMAIN log[l] /\ log[s][i] = log[l][i]
    <3>1. /\ DOMAIN log[s] = 1 .. Len(log[s]) /\ Len(log[s]) \in Nat
          /\ DOMAIN log[l] = 1 .. Len(log[l]) /\ Len(log[l]) \in Nat
      BY <1>3, ServerTypes
    <3> QED BY <1>1, <3>1 DEF Extends
  <2>2. n \in DOMAIN log[l] /\ o.id = log[l][n]
    BY <1>1, <1>2, <1>4
  <2> QED BY <1>3, <1>6, <2>1, <2>2 DEF ExactlyOnce
<1>13. /\ applied[s] \subseteq DOMAIN log[s] /\ \A r \in replicating[s] : r.at \in DOMAIN log[s]
       /\ \A k \in PendingOps(s) : queue[s][k].at \in DOMAIN log[s]
  BY <1>3 DEF LogInv, OpsOK, QueueOK
<1>14. QueueOK(s)'
  <2>1. \A k \in LeaderOps(s)' : queue'[s][k].at <= term'
    BY <1>3, <1>8, <1>9 DEF QueueOK
  <2>2. ASSUME NEW k \in PendingOps(s)'
        PROVE  LET p == queue'[s][k]
               IN  /\ p.at \in DOMAIN g /\ g[p.at] = p.id
                   /\ p.at \notin applied'[s] /\ \A x \in replicating'[s] : x.at # p.at
    <3>1. CASE k = m
      BY <1>1, <1>2, <1>4, <1>6, <1>8, <1>13, <3>1
    <3>2. CASE k \in PendingOps(s)
      BY <1>1, <1>3, <1>6, <1>8, <1>9, <3>2 DEF QueueOK
    <3> QED BY <1>9, <3>1, <3>2
  <2>3. \A k, j \in PendingOps(s)' : queue'[s][k].at = queue'[s][j].at => k = j
    <3>1. \A k \in PendingOps(s) : queue'[s][k] = queue[s][k] /\ queue[s][k].at # n
      BY <1>6, <1>8, <1>9, <1>13
    <3>2. \A k, j \in PendingOps(s) : queue[s][k].at = queue[s][j].at => k = j
      BY <1>3 DEF QueueOK
    <3> QED BY <1>2, <1>4, <1>8, <1>9, <3>1, <3>2
  <2>4. ASSUME NEW k \in PendingOps(s)', NEW j \in FollowerOps(s)', k < j
        PROVE  queue'[s][k].id.seq # queue'[s][j].id.seq
    <3>1. k # m
      <4>1. ~(m < m) /\ \A x \in DOMAIN queue[s] : ~(m < x)
        <5>1. m \in Nat
          BY <1>3, <1>7, ServerTypes
        <5> QED BY <1>8, <5>1
      <4> QED BY <1>9, <2>4, <4>1
    <3>2. k \in PendingOps(s) /\ queue'[s][k] = queue[s][k]
      BY <1>8, <1>9, <3>1
    <3>3. CASE j = m
      <4>1. queue[s][k].at \in DOMAIN log[s] /\ log[s][queue[s][k].at] = queue[s][k].id
        BY <1>3, <3>2 DEF QueueOK
      <4>2. queue[s][k].id.seq # o.id.seq
        BY <1>12, <4>1
      <4> QED BY <1>8, <3>2, <3>3, <4>2
    <3>4. CASE j # m
      <4>1. j \in FollowerOps(s) /\ queue'[s][j] = queue[s][j]
        BY <1>8, <1>9, <3>4
      <4> QED BY <1>3, <2>4, <3>2, <4>1 DEF QueueOK
    <3> QED BY <3>3, <3>4
  <2>5. ASSUME NEW k \in FollowerOps(s)', NEW i, Known(s, i)
        PROVE  log[s][i].seq # queue'[s][k].id.seq
    <3>1. i \in DOMAIN log[s]
      BY <2>5 DEF Known
    <3>2. CASE k = m
      BY <1>8, <1>12, <3>1, <3>2
    <3>3. CASE k # m
      <4>1. k \in FollowerOps(s) /\ queue'[s][k] = queue[s][k]
        BY <1>8, <1>9, <3>3
      <4> QED BY <1>3, <2>5, <3>1, <4>1 DEF QueueOK
    <3> QED BY <3>2, <3>3
  <2>6. \A k \in FollowerOps(s)', i \in DOMAIN g : Known(s, i)' => g[i].seq # queue'[s][k].id.seq
    BY <1>6, <1>11, <2>5 DEF Known
  <2>7. role'[s].lead = "no"
    BY <1>1
  <2> QED BY <1>5, <2>1, <2>2, <2>3, <2>4, <2>6, <2>7 DEF QueueOK
<1>15. ReplayOK(s)'
  BY <1>1, <1>3, ReplayStays
<1>16. OpsOK(s)'
  <2>1. \A r \in replicating[s] :
           /\ r.at \in DOMAIN g /\ g[r.at] = r.id /\ r.at \notin applied[s]
           /\ r.tracked => Owns(tracker[s], r.id)
    BY <1>3, <1>6 DEF OpsOK
  <2>2. \A r, y \in replicating[s] : r.at = y.at => r = y
    BY <1>3 DEF OpsOK
  <2>3. \A f \in finished[s] : /\ f.ok /\ f.at \in applied[s] /\ g[f.at] = f.id
                               /\ Owns(tracker[s], f.id)
    BY <1>1, <1>3, <1>6, <1>13 DEF OpsOK
  <2> QED BY <1>1, <1>5, <2>1, <2>2, <2>3 DEF OpsOK
<1>17. TrackOK(s)'
  <2>1. Waiting(s)' = Waiting(s)
    BY <1>1, <1>8, <1>9 DEF Waiting
  <2>2. /\ \A i \in DOMAIN g : Known(s, i) => Remembers(tracker[s], g[i], Waiting(s))
        /\ \A a \in Waiting(s) : Attached(tracker[s], a)
        /\ TrackerOK(tracker[s])
    BY <1>3, <1>6 DEF TrackOK, Known
  <2>3. \A q \in Seqs : tracker[s].records[q].state = "COMPLETED" =>
           LET i == tracker[s].records[q].result
           IN  i \in applied[s] /\ Known(s, i) /\ g[i].seq = q
    BY <1>3, <1>6, <1>13 DEF TrackOK
  <2>4. ~replay[s].tracked
    BY <1>1 DEF IsRunning, Running
  <2> QED BY <1>1, <1>5, <1>11, <2>1, <2>2, <2>3, <2>4 DEF TrackOK
<1>18. LocalInv(s)'
  BY <1>14, <1>15, <1>16, <1>17 DEF LocalInv
<1> QED BY <1>1, <1>3, <1>18, LocalKeeps

\* What server s has applied is decided, and so it is not cut off.
LEMMA AppliedIsKept ==
    ASSUME IInv, NEW s \in Servers, NEW i \in DOMAIN log[s], TruncateLog(s, i)
    PROVE  applied[s] \subseteq 1 .. i - 1
<1>1. LogInv /\ Types /\ ~(i \in DOMAIN decided /\ \A k \in 1 .. i : log[s][k] = decided[k])
  BY TruncateLogStep DEF IInv
<1>2. DOMAIN log[s] = 1 .. Len(log[s]) /\ Len(log[s]) \in Nat
  BY <1>1, ServerTypes
<1> SUFFICES ASSUME NEW j \in applied[s], j >= i PROVE FALSE
  BY <1>1, <1>2 DEF LogInv
<1>3. j \in DOMAIN log[s] /\ j \in DOMAIN decided /\ \A k \in 1 .. j : log[s][k] = decided[k]
  BY <1>1 DEF LogInv
<1>4. DOMAIN decided = 1 .. Len(decided) /\ Len(decided) \in Nat
  BY <1>1, LogTypes
<1>5. i \in DOMAIN decided /\ 1 .. i \subseteq 1 .. j
  BY <1>2, <1>3, <1>4
<1> QED BY <1>1, <1>3, <1>5

LEMMA TruncateLogLocal ==
    ASSUME IInv, NEW s \in Servers, NEW i \in DOMAIN log[s], TruncateLog(s, i)
    PROVE  \A u \in Servers : LocalInv(u)'
<1>1. /\ Types' /\ Elsewhere(s) /\ SameRaft
      /\ IsRunning(s) /\ \A o \in finished[s] : o.ok
      /\ role[s].lead = "no"
      /\ ~(i \in DOMAIN decided /\ \A k \in 1 .. i : log[s][k] = decided[k])
      /\ DOMAIN log'[s] = 1 .. i - 1 /\ \A k \in 1 .. i - 1 : log'[s][k] = log[s][k]
      /\ Aborted(queue[s], queue'[s], i)
      /\ \A o \in replicating'[s] : o \in replicating[s] /\ ~(o.at >= i)
      /\ \A f \in finished'[s] :
            \/ f \in finished[s]
            \/ ~f.ok /\ \E o \in replicating[s] : o.at >= i /\ f.id = o.id
      /\ applied'[s] = applied[s] /\ role'[s] = role[s] /\ replay'[s] = replay[s]
      /\ tracker'[s] = tracker[s] /\ arrived'[s] = arrived[s]
  BY TruncateLogStep
<1>2. /\ Types /\ QueueOK(s) /\ ReplayOK(s) /\ OpsOK(s) /\ TrackOK(s) /\ LogInv /\ ExactlyOnce
      /\ term' >= term /\ term' = term
  BY <1>1, SameTerm DEF IInv, LocalInv, SameRaft
<1>3. PICK g : g = log'[s]
  OBVIOUS
<1>4. PICK r : r = queue'[s]
  OBVIOUS
<1>5. /\ DOMAIN log[s] = 1 .. Len(log[s]) /\ Len(log[s]) \in Nat /\ i \in Nat /\ i >= 1
      /\ \A j \in 1 .. i - 1 : j \in DOMAIN log[s] /\ ~(j >= i)
      /\ \A j \in DOMAIN log[s] : ~(j >= i) => j \in 1 .. i - 1
  <2>1. DOMAIN log[s] = 1 .. Len(log[s]) /\ Len(log[s]) \in Nat
    BY <1>2, ServerTypes
  <2> QED BY <2>1
<1>6. DOMAIN g = 1 .. i - 1 /\ \A j \in 1 .. i - 1 : g[j] = log[s][j]
  BY <1>1, <1>3
<1>7. applied[s] \subseteq 1 .. i - 1
  BY AppliedIsKept
<1>8. /\ DOMAIN r = DOMAIN queue[s]
      /\ \A k \in DOMAIN queue[s] :
            /\ r[k].id = queue[s][k].id /\ r[k].kind = queue[s][k].kind /\ r[k].at = queue[s][k].at
            /\ r[k].failed <=> queue[s][k].failed \/ (queue[s][k].kind = "FOLLOWER" /\ queue[s][k].at >= i)
  BY <1>1, <1>4 DEF Aborted
<1>9. /\ LeaderOps(s)' = LeaderOps(s) /\ FollowerOps(s)' = FollowerOps(s)
      /\ LeaderOps(s) \subseteq DOMAIN queue[s] /\ FollowerOps(s) \subseteq DOMAIN queue[s]
  BY <1>4, <1>8 DEF LeaderOps, FollowerOps
<1>10. /\ \A k \in PendingOps(s)' : k \in PendingOps(s) /\ ~(queue[s][k].at >= i)
       /\ \A k \in PendingOps(s) : ~(queue[s][k].at >= i) => k \in PendingOps(s)'
       /\ PendingOps(s) \subseteq FollowerOps(s)
  BY <1>4, <1>8, <1>9 DEF PendingOps, FollowerOps
<1>11. \A j \in 1 .. i - 1 : j \in PendingAt(s)' <=> j \in PendingAt(s)
  <2>1. ASSUME NEW j \in PendingAt(s)' PROVE j \in PendingAt(s)
    <3>1. PICK k \in PendingOps(s)' : j = r[k].at
      BY <1>4 DEF PendingAt
    <3> QED BY <1>8, <1>9, <1>10, <3>1 DEF PendingAt
  <2>2. ASSUME NEW j \in PendingAt(s), j \in 1 .. i - 1 PROVE j \in PendingAt(s)'
    <3>1. PICK k \in PendingOps(s) : j = queue[s][k].at
      BY DEF PendingAt
    <3>2. k \in PendingOps(s)' /\ j = r[k].at
      BY <1>5, <1>8, <1>9, <1>10, <2>2, <3>1
    <3> QED BY <1>4, <3>2 DEF PendingAt
  <2> QED BY <2>1, <2>2
<1>12. \A j : Known(s, j)' <=> Known(s, j) /\ j \in 1 .. i - 1
  BY <1>1, <1>3, <1>5, <1>6, <1>11 DEF Known, IsRunning
<1>13. QueueOK(s)'
  <2>1. \A k \in LeaderOps(s) : r[k].at <= term'
    BY <1>2, <1>8, <1>9 DEF QueueOK
  <2>2. ASSUME NEW k \in PendingOps(s)'
        PROVE  LET p == r[k]
               IN  /\ p.at \in DOMAIN g /\ g[p.at] = p.id
                   /\ p.at \notin applied[s] /\ \A x \in replicating'[s] : x.at # p.at
    <3>1. k \in PendingOps(s) /\ r[k].at = queue[s][k].at /\ r[k].id = queue[s][k].id
          /\ ~(queue[s][k].at >= i)
      BY <1>8, <1>9, <1>10
    <3>2. /\ queue[s][k].at \in DOMAIN log[s] /\ log[s][queue[s][k].at] = queue[s][k].id
          /\ queue[s][k].at \notin applied[s] /\ \A x \in replicating[s] : x.at # queue[s][k].at
      BY <1>2, <3>1 DEF QueueOK
    <3> QED BY <1>1, <1>5, <1>6, <3>1, <3>2
  <2>3. /\ \A k, l \in PendingOps(s)' : r[k].at = r[l].at => k = l
        /\ \A k \in PendingOps(s)', l \in FollowerOps(s) : k < l => r[k].id.seq # r[l].id.seq
    BY <1>2, <1>8, <1>9, <1>10 DEF QueueOK
  <2>4. \A k \in FollowerOps(s), j \in DOMAIN g : Known(s, j)' => g[j].seq # r[k].id.seq
    BY <1>2, <1>5, <1>6, <1>8, <1>9, <1>12 DEF QueueOK
  <2>5. role'[s].lead = "no" /\ applied'[s] = applied[s]
    BY <1>1
  <2> QED BY <1>3, <1>4, <1>9, <2>1, <2>2, <2>3, <2>4, <2>5 DEF QueueOK
<1>14. ReplayOK(s)'
  BY <1>1, <1>2, ReplayStays
<1>15. OpsOK(s)'
  <2>1. \A o \in replicating'[s] :
           /\ o.at \in DOMAIN g /\ g[o.at] = o.id /\ o.at \notin applied[s]
           /\ o.tracked => Owns(tracker[s], o.id)
    BY <1>1, <1>2, <1>5, <1>6 DEF OpsOK
  <2>2. \A o, p \in replicating'[s] : o.at = p.at => o = p
    BY <1>1, <1>2 DEF OpsOK
  <2>3. ASSUME NEW f \in finished'[s]
        PROVE  /\ f.ok => f.at \in applied[s] /\ g[f.at] = f.id /\ Owns(tracker[s], f.id)
               /\ ~f.ok => \A j \in DOMAIN g : g[j].seq # f.id.seq
    <3>1. CASE f \in finished[s]
      BY <1>1, <1>2, <1>6, <1>7, <3>1 DEF OpsOK
    <3>2. CASE ~f.ok /\ \E o \in replicating[s] : o.at >= i /\ f.id = o.id
      <4>1. PICK o \in replicating[s] : o.at >= i /\ f.id = o.id
        BY <3>2
      <4>2. o.at \in DOMAIN log[s] /\ log[s][o.at] = f.id
        BY <1>2, <4>1 DEF OpsOK
      <4>3. \A j \in 1 .. i - 1 : j # o.at
        BY <1>5, <4>1
      <4>4. \A j \in 1 .. i - 1 : log[s][j].seq # f.id.seq
        BY <1>2, <1>5, <4>2, <4>3 DEF ExactlyOnce
      <4> QED BY <1>6, <3>2, <4>4
    <3> QED BY <1>1, <3>1, <3>2
  <2> QED BY <1>1, <1>3, <2>1, <2>2, <2>3 DEF OpsOK
<1>16. TrackOK(s)'
  <2>1. Waiting(s)' = Waiting(s)
    BY <1>1, <1>4, <1>8, <1>9 DEF Waiting
  <2>2. /\ \A j \in DOMAIN g : Known(s, j)' => Remembers(tracker[s], g[j], Waiting(s))
        /\ \A a \in Waiting(s) : Attached(tracker[s], a)
        /\ TrackerOK(tracker[s])
    BY <1>2, <1>5, <1>6, <1>12 DEF TrackOK
  <2>3. \A q \in Seqs : \A j :
           tracker'[s].records[q].state = "COMPLETED" /\ j = tracker'[s].records[q].result =>
               j \in applied[s] /\ Known(s, j)' /\ g[j].seq = q
    <3>1. PICK t : t = tracker[s] /\ t = tracker'[s]
      BY <1>1
    <3>2. \A q \in Seqs : t.records[q].state = "COMPLETED" =>
             LET j == t.records[q].result
             IN  j \in applied[s] /\ Known(s, j) /\ log[s][j].seq = q
      BY <1>2, <3>1 DEF TrackOK
    <3> QED BY <1>6, <1>7, <1>12, <3>1, <3>2
  <2>4. ~replay[s].tracked
    BY <1>1 DEF IsRunning, Running
  <2> QED BY <1>1, <1>3, <2>1, <2>2, <2>3, <2>4 DEF TrackOK
<1>17. LocalInv(s)'
  BY <1>13, <1>14, <1>15, <1>16 DEF LocalInv
<1> QED BY <1>1, <1>2, <1>17, LocalKeeps

LEMMA CrashLocal ==
    ASSUME IInv, NEW s \in Servers, Crash(s)
    PROVE  \A u \in Servers : LocalInv(u)'
<1>1. /\ Types' /\ Elsewhere(s) /\ SameRaft
      /\ log'[s] = log[s] /\ role'[s] = NotLeader /\ tracker'[s] = NewTracker
      /\ arrived'[s] = {} /\ queue'[s] = <<>> /\ replicating'[s] = {} /\ finished'[s] = {}
  BY CrashStep
<1>2. PICK n \in Nat : /\ applied'[s] = 1 .. n
                       /\ replay'[s] = [at |-> 1, upto |-> n, tracked |-> FALSE]
  BY CrashStep
<1>3. Types /\ term \in Nat /\ term' = term /\ term' >= term
  BY <1>1, SameTerm DEF IInv, Types, SameRaft
<1>4. replay'[s].at = 1 /\ replay'[s].upto = n /\ replay'[s].tracked = FALSE
  BY <1>2
<1>5. ~IsRunning(s)'
  BY <1>4 DEF IsRunning, Running
<1>6. LeaderOps(s)' = {} /\ FollowerOps(s)' = {} /\ PendingOps(s)' = {} /\ Waiting(s)' = {}
  BY <1>1 DEF LeaderOps, FollowerOps, PendingOps, Waiting
<1>7. \A i : ~Known(s, i)'
  <2>1. DOMAIN log[s] \subseteq Nat \ {0}
    BY <1>3, ServerTypes
  <2>2. \A i \in DOMAIN log[s] : ~(i < 1)
    BY <2>1
  <2> QED BY <1>1, <1>4, <1>5, <2>2 DEF Known
<1>8. QueueOK(s)'
  BY <1>6 DEF QueueOK
<1>9. ReplayOK(s)'
  BY <1>1, <1>2, <1>3, <1>4 DEF ReplayOK, NotLeader
<1>10. OpsOK(s)'
  BY <1>1 DEF OpsOK
<1>11. TrackOK(s)'
  <2>1. TrackerOK(NewTracker) /\ \A q \in Seqs : NewTracker.records[q].state # "COMPLETED"
    BY NewTrackerType DEF NewTracker, NoRecord
  <2> QED BY <1>1, <1>4, <1>6, <1>7, <2>1 DEF TrackOK
<1>12. LocalInv(s)'
  BY <1>8, <1>9, <1>10, <1>11 DEF LocalInv
<1> QED BY <1>1, <1>3, <1>12, LocalKeeps

\* A server that replays its log has no ops.
LEMMA ReplayingKeeps ==
    ASSUME IInv, NEW s \in Servers, ~IsRunning(s), Types', SameRaft,
           queue'[s] = queue[s], replicating'[s] = replicating[s], finished'[s] = finished[s],
           role'[s] = role[s], applied'[s] = applied[s], replay'[s].upto = replay[s].upto,
           replay'[s].at \in 1 .. replay[s].upto + 1,
           replay'[s].tracked => replay'[s].at <= replay[s].upto
    PROVE  QueueOK(s)' /\ ReplayOK(s)' /\ OpsOK(s)'
<1>1. /\ queue'[s] = <<>> /\ replicating'[s] = {} /\ finished'[s] = {} /\ role'[s].lead = "no"
      /\ applied'[s] = 1 .. replay[s].upto
  BY ReplayingIs
<1>2. LeaderOps(s)' = {} /\ FollowerOps(s)' = {} /\ PendingOps(s)' = {}
  BY <1>1 DEF LeaderOps, FollowerOps, PendingOps
<1>3. QueueOK(s)'
  BY <1>2 DEF QueueOK
<1>4. role'[s].term <= term'
  BY DEF IInv, LocalInv, ReplayOK, SameRaft
<1>5. ReplayOK(s)'
  BY <1>1, <1>4 DEF ReplayOK
<1>6. OpsOK(s)'
  BY <1>1 DEF OpsOK
<1> QED BY <1>3, <1>5, <1>6

LEMMA PlayWriteRequestLocal ==
    ASSUME IInv, NEW s \in Servers, PlayWriteRequest(s)
    PROVE  \A u \in Servers : LocalInv(u)'
<1>1. /\ Types' /\ Elsewhere(s) /\ SameRaft
      /\ log'[s] = log[s] /\ applied'[s] = applied[s] /\ role'[s] = role[s]
      /\ arrived'[s] = arrived[s] /\ queue'[s] = queue[s]
      /\ replicating'[s] = replicating[s] /\ finished'[s] = finished[s]
      /\ ~IsRunning(s) /\ replay[s].at \in 1 .. replay[s].upto
      /\ replay'[s].upto = replay[s].upto
  BY PlayWriteRequestStep
<1>2. PICK a, t, e : a = replay[s].at /\ t = tracker'[s] /\ e = log[s][a]
  OBVIOUS
<1>3. \/ /\ replay[s].tracked /\ CompletesFrom(tracker[s], e, a, t)
         /\ replay'[s].at = a + 1 /\ replay'[s].tracked = FALSE
      \/ \E x : /\ ~replay[s].tracked /\ DrivesFrom(tracker[s], e, x) /\ t = x.tracker
                /\ IF x.state = "NEW" THEN replay'[s].at = a /\ replay'[s].tracked = TRUE
                   ELSE replay'[s].at = a + 1 /\ replay'[s].tracked = FALSE
  BY <1>2, PlayWriteRequestStep
<1>4. /\ Types /\ TrackOK(s) /\ ExactlyOnce /\ FreshInv /\ term' >= term /\ tracker[s] \in Trackers
      /\ TrackerOK(tracker[s])
  BY <1>1, SameTerm, ServerTypes DEF IInv, LocalInv, TrackOK
<1>5. /\ a \in 1 .. replay[s].upto /\ a \in Nat /\ a \in DOMAIN log[s] /\ a \in applied[s]
      /\ replay[s].upto \in Nat /\ replay[s].upto # 0 /\ DOMAIN log[s] \subseteq Nat
  <2>1. /\ replay[s].upto \in Nat /\ 1 .. replay[s].upto \subseteq DOMAIN log[s]
        /\ applied[s] = 1 .. replay[s].upto
    BY <1>1, ReplayingIs
  <2>2. DOMAIN log[s] \subseteq Nat
    BY <1>4, ServerTypes
  <2> QED BY <1>1, <1>2, <2>1, <2>2
<1>6. e \in RequestIds /\ e \in Logged
  BY <1>2, <1>5, FirstIsLow DEF Logged, LoggedOn
<1>7. ~IsRunning(s)'
  BY <1>1, <1>5 DEF IsRunning, Running
<1>8. Waiting(s)' = Waiting(s)
  BY <1>1, QueueSets DEF Waiting
<1>9. \A w \in Waiting(s) : w \in RequestIds /\ ~SameAttempt(w, e)
  <2>1. \A w \in Waiting(s) : w \in RequestIds /\ w \in Unlogged
    BY FirstIsLow DEF Waiting, LeaderOps, Unlogged
  <2> QED BY <1>4, <1>6, <2>1 DEF FreshInv
<1>10. \A i : Known(s, i)' <=> i \in DOMAIN log[s] /\ (i < a \/ i = a)
  <2>1. \A i : Known(s, i)' <=>
           i \in DOMAIN log[s] /\ (i < replay'[s].at \/ (i = replay'[s].at /\ replay'[s].tracked))
    BY <1>1, <1>7 DEF Known
  <2>2. \A i \in DOMAIN log[s] : i < a + 1 <=> i < a \/ i = a
    BY <1>5
  <2>3. \/ replay'[s].at = a + 1 /\ ~replay'[s].tracked
        \/ replay'[s].at = a /\ replay'[s].tracked
    BY <1>3
  <2> QED BY <2>1, <2>2, <2>3
<1>11. QueueOK(s)' /\ ReplayOK(s)' /\ OpsOK(s)'
  <2>1. \/ replay'[s].at = a + 1 /\ ~replay'[s].tracked
        \/ replay'[s].at = a
    BY <1>3
  <2>2. /\ replay'[s].at \in 1 .. replay[s].upto + 1
        /\ replay'[s].tracked => replay'[s].at <= replay[s].upto
    BY <1>5, <2>1
  <2> QED BY <1>1, <2>2, ReplayingKeeps
<1>12. \A i : Known(s, i) => /\ log[s][i] \in RequestIds
                             /\ Remembers(tracker[s], log[s][i], Waiting(s))
  BY <1>4, FirstIsLow DEF Known, TrackOK
<1>13. \A w \in Waiting(s) : Attached(tracker[s], w)
  BY <1>4 DEF TrackOK
<1>14. \A q \in Seqs : \A i :
          tracker[s].records[q].state = "COMPLETED" /\ i = tracker[s].records[q].result =>
              i \in applied[s] /\ Known(s, i) /\ log[s][i].seq = q
  BY <1>4 DEF TrackOK
<1>15. ASSUME replay[s].tracked, CompletesFrom(tracker[s], e, a, t),
              replay'[s].at = a + 1, replay'[s].tracked = FALSE
       PROVE  TrackOK(s)'
  <2>1. /\ \A f \in RequestIds : \A W : Remembers(tracker[s], f, W) => Remembers(t, f, W)
        /\ \A w \in RequestIds : ~SameAttempt(w, e) /\ Attached(tracker[s], w) => Attached(t, w)
        /\ \A q \in Seqs : t.records[q].state = "COMPLETED" =>
              \/ q = e.seq /\ t.records[q].result = a
              \/ tracker[s].records[q].state = "COMPLETED"
                 /\ tracker[s].records[q].result = t.records[q].result
    <3>1. tracker[s].records[e.seq] # NoRecord
      <4>1. Owns(tracker[s], e)
        BY <1>2, <1>4, <1>15 DEF TrackOK
      <4> QED BY <4>1 DEF Owns, IsCurrentDriver, IsTracked
    <3> QED BY <1>4, <1>5, <1>6, <1>15, <3>1, CompleteKeeps
  <2>2. TrackerOK(t)
    BY <1>15 DEF CompletesFrom
  <2>3. \A i : Known(s, i)' <=> Known(s, i)
    BY <1>1, <1>2, <1>10, <1>15 DEF Known
  <2>4. \A i \in DOMAIN log[s] : Known(s, i)' => Remembers(t, log[s][i], Waiting(s))
    BY <1>12, <2>1, <2>3
  <2>5. \A w \in Waiting(s) : Attached(t, w)
    BY <1>9, <1>13, <2>1
  <2>6. \A q \in Seqs : \A i :
           t.records[q].state = "COMPLETED" /\ i = t.records[q].result =>
               i \in applied[s] /\ Known(s, i)' /\ log[s][i].seq = q
    BY <1>2, <1>5, <1>10, <1>14, <2>1, <2>3
  <2> QED BY <1>1, <1>2, <1>8, <1>15, <2>2, <2>4, <2>5, <2>6 DEF TrackOK
<1>16. ASSUME NEW x, ~replay[s].tracked, DrivesFrom(tracker[s], e, x), t = x.tracker,
              IF x.state = "NEW" THEN replay'[s].at = a /\ replay'[s].tracked = TRUE
              ELSE replay'[s].at = a + 1 /\ replay'[s].tracked = FALSE
       PROVE  TrackOK(s)'
  <2>1. /\ ~replay[s].tracked /\ DrivesFrom(tracker[s], e, x) /\ t = x.tracker
        /\ IF x.state = "NEW" THEN replay'[s].at = a /\ replay'[s].tracked = TRUE
           ELSE replay'[s].at = a + 1 /\ replay'[s].tracked = FALSE
    BY <1>16
  <2>2. \A i : Known(s, i) => i \in DOMAIN log[s] /\ i < a
    BY <1>1, <1>2, <2>1 DEF Known
  <2>3. \A i : Known(s, i) => log[s][i].seq # e.seq
    <3>1. \A i \in DOMAIN log[s] : i < a => i # a
      BY <1>5
    <3> QED BY <1>2, <1>4, <1>5, <2>2, <3>1 DEF ExactlyOnce
  <2>4. tracker[s].records[e.seq].state # "COMPLETED"
    BY <1>6, <1>14, <2>3, IdTypes
  <2>5. PICK b \in Trackers : b = tracker[s]
    BY <1>4
  <2>6. PICK W : W = Waiting(s)
    OBVIOUS
  <2>7. /\ \A f \in RequestIds : f.seq # e.seq /\ Remembers(b, f, W) => Remembers(t, f, W)
        /\ Remembers(t, e, W)
        /\ \A w \in RequestIds : Attached(b, w) => Attached(t, w)
        /\ x.state = "NEW" => Owns(t, e)
        /\ SameResponses(b, t)
    <3>1. DrivesFrom(b, e, x) /\ b.records[e.seq].state # "COMPLETED" /\ t = x.tracker
      BY <2>1, <2>4, <2>5
    <3>2. \A w \in W : Attached(b, w)
      BY <1>13, <2>5, <2>6
    <3> QED BY <1>6, <3>1, <3>2, DriveKeeps
  <2>8. TrackerOK(t)
    BY <2>1 DEF DrivesFrom
  <2>9. \A i : Known(s, i)' <=> Known(s, i) \/ i = a
    BY <1>1, <1>2, <1>5, <1>10, <2>1 DEF Known
  <2>10. \A i \in DOMAIN log[s] : Known(s, i)' => Remembers(t, log[s][i], W)
    BY <1>2, <1>12, <2>3, <2>5, <2>6, <2>7, <2>9
  <2>11. \A w \in W : Attached(t, w)
    BY <1>9, <1>13, <2>5, <2>6, <2>7
  <2>12. \A q \in Seqs : \A i :
            t.records[q].state = "COMPLETED" /\ i = t.records[q].result =>
                i \in applied[s] /\ Known(s, i)' /\ log[s][i].seq = q
    BY <1>14, <2>5, <2>7, <2>9 DEF SameResponses
  <2>13. replay'[s].tracked => Owns(t, log[s][replay'[s].at])
    BY <1>2, <2>1, <2>7
  <2> QED BY <1>1, <1>2, <1>8, <2>6, <2>8, <2>10, <2>11, <2>12, <2>13 DEF TrackOK
<1>17. TrackOK(s)'
  BY <1>3, <1>15, <1>16
<1>18. LocalInv(s)'
  BY <1>11, <1>17 DEF LocalInv
<1> QED BY <1>1, <1>4, <1>18, LocalKeeps

LEMMA StartOrphanedReplicatesLocal ==
    ASSUME IInv, NEW s \in Servers, StartOrphanedReplicates(s)
    PROVE  \A u \in Servers : LocalInv(u)'
<1>1. /\ Types' /\ Elsewhere(s) /\ SameRaft
      /\ log'[s] = log[s] /\ applied'[s] = applied[s] /\ role'[s] = role[s]
      /\ tracker'[s] = tracker[s] /\ arrived'[s] = arrived[s]
      /\ replicating'[s] = replicating[s] /\ finished'[s] = finished[s]
      /\ ~IsRunning(s) /\ replay[s].at = replay[s].upto + 1 /\ replay'[s] = Running
  BY StartOrphanedReplicatesStep
<1>2. PICK n, r : n = replay[s].upto /\ r = queue'[s]
  OBVIOUS
<1>3. /\ DOMAIN r = 1 .. (Len(log[s]) - n)
      /\ \A k \in DOMAIN r : /\ r[k].id = log[s][r[k].at] /\ r[k].kind = "FOLLOWER"
                             /\ r[k].at = n + k /\ r[k].failed = FALSE /\ r[k].at \in DOMAIN log[s]
  BY <1>2, StartOrphanedReplicatesStep
<1>4. Types /\ ReplayOK(s) /\ TrackOK(s) /\ ExactlyOnce /\ term' >= term /\ term' = term
  BY <1>1, SameTerm DEF IInv, LocalInv, SameRaft
<1>5. /\ queue[s] = <<>> /\ replicating[s] = {} /\ finished[s] = {} /\ role[s].lead = "no"
      /\ ~replay[s].tracked /\ applied[s] = 1 .. n /\ n \in Nat
      /\ DOMAIN log[s] = 1 .. Len(log[s]) /\ Len(log[s]) \in Nat
  <2>1. /\ queue[s] = <<>> /\ replicating[s] = {} /\ finished[s] = {} /\ role[s].lead = "no"
        /\ replay[s].tracked => replay[s].at <= replay[s].upto
        /\ applied[s] = 1 .. replay[s].upto /\ replay[s].upto \in Nat
    BY <1>1, ReplayingIs
  <2>2. DOMAIN log[s] = 1 .. Len(log[s]) /\ Len(log[s]) \in Nat
    BY <1>4, ServerTypes
  <2> QED BY <1>1, <1>2, <2>1, <2>2
<1>6. LeaderOps(s)' = {} /\ FollowerOps(s)' = DOMAIN r /\ PendingOps(s)' = DOMAIN r
  BY <1>2, <1>3 DEF LeaderOps, FollowerOps, PendingOps
<1>7. PendingAt(s)' = {j \in DOMAIN log[s] : j > n}
  <2>1. ASSUME NEW j \in PendingAt(s)' PROVE j \in DOMAIN log[s] /\ j > n
    <3>1. PICK k \in DOMAIN r : j = r[k].at
      BY <1>2, <1>6 DEF PendingAt
    <3> QED BY <1>3, <1>5, <3>1
  <2>2. ASSUME NEW j \in DOMAIN log[s], j > n PROVE j \in PendingAt(s)'
    <3>1. j - n \in DOMAIN r
      BY <1>3, <1>5, <2>2
    <3>2. r[j - n].at = j
      BY <1>3, <1>5, <3>1
    <3> QED BY <1>2, <1>6, <3>1, <3>2 DEF PendingAt
  <2> QED BY <2>1, <2>2
<1>8. \A i : Known(s, i) <=> i \in DOMAIN log[s] /\ ~(i > n)
  <2>1. \A i : Known(s, i) <=> i \in DOMAIN log[s] /\ i < n + 1
    BY <1>1, <1>2, <1>5 DEF Known
  <2>2. \A i \in DOMAIN log[s] : i < n + 1 <=> ~(i > n)
    BY <1>5
  <2> QED BY <2>1, <2>2
<1>9. \A i : Known(s, i)' <=> Known(s, i)
  <2>1. IsRunning(s)'
    BY <1>1 DEF IsRunning
  <2> QED BY <1>1, <1>7, <1>8, <2>1 DEF Known
<1>10. QueueOK(s)'
  <2>1. \A k \in DOMAIN r : /\ r[k].at \in DOMAIN log[s] /\ log[s][r[k].at] = r[k].id
                            /\ r[k].at > n /\ r[k].at \notin applied[s]
    BY <1>3, <1>5
  <2>2. \A k, l \in DOMAIN r : r[k].at = r[l].at => k = l
    BY <1>3, <1>5
  <2>3. \A k, l \in DOMAIN r : k < l => r[k].id.seq # r[l].id.seq
    <3> SUFFICES ASSUME NEW k \in DOMAIN r, NEW l \in DOMAIN r, k < l
                 PROVE  r[k].id.seq # r[l].id.seq
      OBVIOUS
    <3>1. r[k].at # r[l].at
      BY <1>3, <1>5
    <3> QED BY <1>4, <2>1, <3>1 DEF ExactlyOnce
  <2>4. \A k \in DOMAIN r, i \in DOMAIN log[s] : Known(s, i) => log[s][i].seq # r[k].id.seq
    BY <1>4, <1>8, <2>1 DEF ExactlyOnce
  <2>5. replicating'[s] = {}
    BY <1>1, <1>5
  <2> QED BY <1>1, <1>2, <1>6, <1>9, <2>1, <2>2, <2>3, <2>4, <2>5 DEF QueueOK
<1>11. ReplayOK(s)'
  <2>1. IsRunning(s)' /\ role'[s].term <= term'
    BY <1>1, <1>4 DEF ReplayOK, IsRunning
  <2> QED BY <2>1 DEF ReplayOK
<1>12. OpsOK(s)'
  BY <1>1, <1>5 DEF OpsOK
<1>13. TrackOK(s)'
  <2>1. Waiting(s)' = Waiting(s)
    <3>1. LeaderOps(s) = {}
      BY <1>5 DEF LeaderOps
    <3> QED BY <1>1, <1>6, <3>1 DEF Waiting
  <2>2. ~replay'[s].tracked
    BY <1>1 DEF Running
  <2> QED BY <1>1, <1>4, <1>9, <2>1, <2>2 DEF TrackOK
<1>14. LocalInv(s)'
  BY <1>10, <1>11, <1>12, <1>13 DEF LocalInv
<1> QED BY <1>1, <1>4, <1>14, LocalKeeps

-----------------------------------------------------------------------------
(***************************************************************************)
(* Every step keeps the invariant                                          *)
(***************************************************************************)

LEMMA SameLogs ==
    ASSUME IInv, SameRaft, NEW s \in Servers, Elsewhere(s), log'[s] = log[s],
           applied'[s] \subseteq applied[s], role'[s] = role[s] \/ role'[s].lead = "no"
    PROVE  LogInv' /\ ExactlyOnce'
<1>1. \A u \in Servers : /\ log'[u] = log[u] /\ applied'[u] \subseteq applied[u]
                         /\ role'[u] = role[u] \/ role'[u].lead = "no"
  BY DEF Elsewhere, SameServer
<1>2. \A u \in Servers : LeadsNow(u)' => LeadsNow(u)
  BY <1>1 DEF LeadsNow, SameRaft
<1> QED BY <1>1, <1>2, LogStays DEF SameRaft

LEMMA SameServers ==
    ASSUME IInv, SameRaft, \A u \in Servers : SameServer(u)
    PROVE  LogInv' /\ ExactlyOnce'
<1>1. \A u \in Servers : log'[u] = log[u] /\ applied'[u] = applied[u] /\ role'[u] = role[u]
  BY DEF SameServer
<1>2. \A u \in Servers : LeadsNow(u)' => LeadsNow(u)
  BY <1>1 DEF LeadsNow, SameRaft
<1> QED BY <1>1, <1>2, LogStays DEF SameRaft

LEMMA SameDecided ==
    ASSUME decided' = decided PROVE \A i \in DOMAIN decided' : decided'[i] \in Logged
BY DEF Logged

LEMMA FinishInternalKeeps ==
    ASSUME IInv, NEW q \in Seqs, FinishInternal(q) PROVE IInv'
<1>1. Types' /\ SameRaft /\ sent' = sent /\ net' = net /\ \A u \in Servers : SameServer(u)
  BY FinishInternalStep
<1>2. FreshInv' /\ DistinctInv'
  BY <1>1, SameDecided, AttemptsStay DEF SameRaft
<1>3. term' >= term
  BY <1>1, SameTerm DEF IInv
<1> QED BY <1>1, <1>2, <1>3, SameServers, SameServerKeeps DEF IInv

LEMMA SendRpcKeeps ==
    ASSUME IInv, NEW q \in Seqs, NEW s \in Servers, SendRpc(q, s) PROVE IInv'
<1>1. Types' /\ SameRaft /\ \A u \in Servers : SameServer(u)
  BY SendRpcStep
<1>2. term' >= term
  BY <1>1, SameTerm DEF IInv
<1> QED BY <1>1, <1>2, SendRpcAttempts, SameServers, SameServerKeeps DEF IInv

LEMMA HandleKeepsAll ==
    ASSUME IInv, NEW m \in net, Handle(m) PROVE IInv'
<1>1. PICK s : s = m.to
  OBVIOUS
<1>2. s \in Servers /\ Types' /\ SameRaft /\ Elsewhere(s) /\ SameStore(s)
  BY <1>1, HandleStep
<1>3. LogInv' /\ ExactlyOnce'
  BY <1>2, SameLogs DEF SameStore
<1> QED BY <1>2, <1>3, HandleAttempts, HandleLocal DEF IInv

LEMMA ExecuteAsyncKeeps ==
    ASSUME IInv, NEW s \in Servers, NEW id \in arrived[s], ExecuteAsync(s, id) PROVE IInv'
<1>1. Types' /\ SameRaft /\ Elsewhere(s) /\ SameStore(s)
  BY ExecuteAsyncStep
<1>2. LogInv' /\ ExactlyOnce'
  BY <1>1, SameLogs DEF SameStore
<1> QED BY <1>1, <1>2, ExecuteAsyncAttempts, ExecuteAsyncLocal DEF IInv

LEMMA LeaderOpFailsKeeps ==
    ASSUME IInv, NEW s \in Servers, NEW o, LeaderOpFails(s, o), Types', Elsewhere(s), SameRaft,
           SameClient
    PROVE  IInv'
<1>1. LogInv' /\ ExactlyOnce'
  BY SameLogs DEF LeaderOpFails, SameStore
<1> QED BY <1>1, LeaderOpFailsAttempts, LeaderOpFailsLocal DEF IInv

LEMMA PrepareTimedOutKeeps ==
    ASSUME IInv, NEW s \in Servers, NEW o, PrepareTimedOut(s, o) PROVE IInv'
BY PrepareTimedOutStep, LeaderOpFailsKeeps

LEMMA PrepareLeaderOpKeeps ==
    ASSUME IInv, NEW s \in Servers, NEW o, PrepareLeaderOp(s, o) PROVE IInv'
<1>1. /\ Types' /\ SameRaft /\ Elsewhere(s) /\ SameClient /\ o.id \in RequestIds
      /\ LeaderOpFails(s, o) \/ LeaderOpLogged(s, o)
  BY PrepareLeaderOpStep
<1>2. CASE LeaderOpFails(s, o)
  BY <1>1, <1>2, LeaderOpFailsKeeps
<1>3. CASE LeaderOpLogged(s, o)
  <2>1. LogInv' /\ ExactlyOnce'
    BY <1>1, <1>3, LeaderLogs
  <2>2. FreshInv' /\ DistinctInv'
    BY <1>1, <1>3, LeaderOpLoggedAttempts
  <2>3. \A u \in Servers : LocalInv(u)'
    BY <1>1, <1>3, <2>1, LeaderOpLoggedLocal
  <2> QED BY <1>1, <2>1, <2>2, <2>3 DEF IInv
<1> QED BY <1>1, <1>2, <1>3

LEMMA PrepareFollowerOpKeeps ==
    ASSUME IInv, NEW s \in Servers, NEW o, PrepareFollowerOp(s, o) PROVE IInv'
<1>1. Types' /\ SameRaft /\ Elsewhere(s) /\ SameStore(s)
  BY PrepareFollowerOpStep
<1>2. LogInv' /\ ExactlyOnce'
  BY <1>1, SameLogs DEF SameStore
<1> QED BY <1>1, <1>2, FollowerOpAttempts, PrepareFollowerOpLocal DEF IInv

LEMMA ApplyTaskKeeps ==
    ASSUME IInv, NEW s \in Servers, NEW o \in replicating[s], ApplyTask(s, o) PROVE IInv'
<1>1. /\ Types' /\ SameRaft /\ Elsewhere(s) /\ log'[s] = log[s] /\ role'[s] = role[s]
      /\ o.at \in DOMAIN decided /\ log[s][o.at] = decided[o.at]
      /\ applied'[s] = applied[s] \cup {o.at}
  BY ApplyTaskStep
<1>2. o.at \in DOMAIN log[s]
  BY LocalTypes
<1>3. \A u \in Servers : /\ log'[u] = log[u] /\ role'[u] = role[u]
                         /\ u # s => applied'[u] = applied[u]
  BY <1>1 DEF Elsewhere, SameServer
<1>4. \A u \in Servers : LeadsNow(u)' => LeadsNow(u)
  BY <1>1, <1>3 DEF LeadsNow, SameRaft
<1>5. \A u \in Servers : \A i \in applied'[u] :
         i \in applied[u] \/ (i \in DOMAIN log[u] \cap DOMAIN decided /\ log[u][i] = decided[i])
  BY <1>1, <1>2, <1>3
<1>6. LogInv' /\ ExactlyOnce'
  BY <1>1, <1>3, <1>4, <1>5, LogStays DEF SameRaft
<1> QED BY <1>1, <1>6, ApplyTaskAttempts, ApplyTaskLocal DEF IInv

LEMMA OpCompletedKeeps ==
    ASSUME IInv, NEW s \in Servers, NEW o \in finished[s], OpCompleted(s, o) PROVE IInv'
<1>1. /\ Types' /\ SameRaft /\ Elsewhere(s) /\ SameClient /\ SameStore(s)
      /\ arrived'[s] = arrived[s] /\ queue'[s] = queue[s]
      /\ replicating'[s] = replicating[s] /\ finished'[s] \subseteq finished[s]
  BY OpCompletedStep
<1>2. LogInv' /\ ExactlyOnce'
  BY <1>1, SameLogs DEF SameStore
<1>3. FreshInv' /\ DistinctInv'
  BY <1>1, SameDecided, NothingLogged DEF SameStore, SameRaft
<1> QED BY <1>1, <1>2, <1>3, OpCompletedLocal DEF IInv

LEMMA CollectResponsesKeeps ==
    ASSUME IInv, NEW s \in Servers, NEW q \in Seqs, CollectResponses(s, q) PROVE IInv'
<1>1. /\ Types' /\ SameRaft /\ Elsewhere(s) /\ SameClient /\ SameStore(s)
      /\ arrived'[s] = arrived[s] /\ queue'[s] = queue[s]
      /\ replicating'[s] = replicating[s] /\ finished'[s] = finished[s]
  BY CollectResponsesStep
<1>2. LogInv' /\ ExactlyOnce'
  BY <1>1, SameLogs DEF SameStore
<1>3. FreshInv' /\ DistinctInv'
  BY <1>1, SameDecided, NothingLogged DEF SameStore, SameRaft
<1> QED BY <1>1, <1>2, <1>3, CollectResponsesLocal DEF IInv

LEMMA BecomeLeaderKeeps ==
    ASSUME IInv, NEW s \in Servers, BecomeLeader(s) PROVE IInv'
<1>1. /\ Types' /\ Elsewhere(s) /\ SameClient /\ SameOps(s) /\ SameLog(s)
      /\ Extends(log[s], decided) /\ decided' = decided /\ leader' = s
  BY BecomeLeaderStep
<1>2. \A u \in Servers : log'[u] = log[u] /\ applied'[u] = applied[u]
  BY <1>1 DEF Elsewhere, SameServer, SameLog
<1>3. \A u \in Servers : LeadsNow(u)' => Extends(log[u], decided)
  BY <1>1 DEF LeadsNow
<1>4. LogInv' /\ ExactlyOnce'
  BY <1>1, <1>2, <1>3, LogStays
<1>5. FreshInv' /\ DistinctInv'
  BY <1>1, SameDecided, NothingLogged DEF SameOps, SameLog
<1> QED BY <1>1, <1>4, <1>5, BecomeLeaderLocal DEF IInv

LEMMA OtherLeaderKeeps ==
    ASSUME IInv, OtherLeader PROVE IInv'
<1>1. /\ Types' /\ SameClient /\ decided' = decided /\ term' = term + 1 /\ leader' = Other
      /\ \A u \in Servers : SameServer(u)
  BY OtherLeaderStep
<1>2. \A u \in Servers : log'[u] = log[u] /\ applied'[u] = applied[u]
  BY <1>1 DEF SameServer
<1>3. \A u \in Servers : ~LeadsNow(u)'
  BY <1>1, TrackedWritesAssumption DEF LeadsNow
<1>4. LogInv' /\ ExactlyOnce'
  BY <1>1, <1>2, <1>3, LogStays
<1>5. FreshInv' /\ DistinctInv'
  BY <1>1, SameDecided, AttemptsStay DEF SameClient
<1>6. term' >= term
  BY <1>1 DEF IInv, Types
<1> QED BY <1>1, <1>4, <1>5, <1>6, SameServerKeeps DEF IInv

LEMMA BecomeReplicaKeeps ==
    ASSUME IInv, NEW s \in Servers, BecomeReplica(s) PROVE IInv'
<1>1. /\ Types' /\ Elsewhere(s) /\ SameClient /\ SameRaft /\ SameOps(s) /\ SameLog(s)
      /\ role'[s].lead = "no"
  BY BecomeReplicaStep DEF NotLeader
<1>2. LogInv' /\ ExactlyOnce'
  BY <1>1, SameLogs DEF SameLog
<1>3. FreshInv' /\ DistinctInv'
  BY <1>1, SameDecided, NothingLogged DEF SameOps, SameLog, SameRaft
<1> QED BY <1>1, <1>2, <1>3, BecomeReplicaLocal DEF IInv

LEMMA LeaderIsReadyKeeps ==
    ASSUME IInv, NEW s \in Servers, LeaderIsReady(s) PROVE IInv'
<1>1. /\ Types' /\ Elsewhere(s) /\ SameClient /\ SameOps(s) /\ SameLog(s)
      /\ LeadsNow(s) /\ leader' = leader /\ decided' = log[s]
  BY LeaderIsReadyStep
<1>2. Extends(log[s], decided)
  BY <1>1 DEF IInv, LogInv
<1>3. Len(log[s]) \in Nat /\ Len(decided) \in Nat
  BY LogTypes DEF IInv
<1>4. Extends(log[s], decided') /\ Len(decided') >= Len(decided)
  <2>1. PICK d : d = log[s]
    OBVIOUS
  <2>2. Extends(d, d) /\ Len(d) >= Len(decided)
    BY <1>2, <1>3, <2>1 DEF Extends
  <2>3. decided' = d
    BY <1>1, <2>1
  <2> QED BY <2>1, <2>2, <2>3
<1>5. \A u \in Servers : log'[u] = log[u] /\ applied'[u] = applied[u]
  BY <1>1 DEF Elsewhere, SameServer, SameLog
<1>6. LogInv' /\ ExactlyOnce'
  BY <1>1, <1>4, <1>5, DecidedGrows
<1>7. FreshInv' /\ DistinctInv'
  BY <1>1, <1>4, DecidedLogged, NothingLogged DEF SameOps, SameLog
<1> QED BY <1>1, <1>6, <1>7, LeaderIsReadyLocal DEF IInv

LEMMA DecideKeeps ==
    ASSUME IInv, NEW s \in Servers, Decide(s) PROVE IInv'
<1>1. /\ Types' /\ SameClient /\ \A u \in Servers : SameServer(u)
      /\ LeadsNow(s) /\ term' = term /\ leader' = leader
      /\ Extends(log[s], decided') /\ Len(decided') >= Len(decided)
  BY DecideStep
<1>2. \A u \in Servers : log'[u] = log[u] /\ applied'[u] = applied[u]
  BY <1>1 DEF SameServer
<1>3. LogInv' /\ ExactlyOnce'
  BY <1>1, <1>2, DecidedGrows
<1>4. FreshInv' /\ DistinctInv'
  BY <1>1, DecidedLogged, AttemptsStay DEF SameClient
<1>5. term' >= term
  BY <1>1 DEF IInv, Types
<1> QED BY <1>1, <1>3, <1>4, <1>5, SameServerKeeps DEF IInv

LEMMA StartFollowerOpKeeps ==
    ASSUME IInv, NEW s \in Servers, NEW l \in Servers, StartFollowerOp(l, s) PROVE IInv'
<1>1. /\ Types' /\ Elsewhere(s) /\ SameRaft
      /\ role[s].lead = "no" /\ Extends(log[l], log[s]) /\ Len(log[s]) + 1 \in DOMAIN log[l]
      /\ applied'[s] = applied[s] /\ role'[s] = role[s]
  BY StartFollowerOpStep
<1>2. log'[s] = Append(log[s], log[l][Len(log[s]) + 1])
  <2>1. PICK o \in Ops : o.id = log[l][Len(log[s]) + 1] /\ log'[s] = Append(log[s], o.id)
    BY StartFollowerOpStep
  <2> QED BY <2>1
<1>3. PICK g : g = log'[s]
  OBVIOUS
<1>4. /\ log[s] \in Ids /\ Len(log[s]) \in Nat /\ DOMAIN log[s] = 1 .. Len(log[s])
      /\ log[l] \in Ids /\ Len(log[l]) \in Nat /\ DOMAIN log[l] = 1 .. Len(log[l])
      /\ log[l][Len(log[s]) + 1] \in RequestIds /\ \A i \in applied[s] : i \in DOMAIN log[s]
  BY <1>1, LogTypes, FirstIsLow DEF IInv, LogInv
<1>5. /\ Len(g) = Len(log[s]) + 1 /\ DOMAIN g = 1 .. Len(log[s]) + 1
      /\ \A i \in DOMAIN log[s] : i \in DOMAIN g /\ g[i] = log[s][i]
      /\ g[Len(log[s]) + 1] = log[l][Len(log[s]) + 1]
      /\ \A i \in DOMAIN g : i \in DOMAIN log[s] \/ i = Len(log[s]) + 1
  BY <1>2, <1>3, <1>4, AppendIs DEF Ids
<1>6. Extends(log[l], g)
  <2>1. Len(g) <= Len(log[l])
    BY <1>1, <1>4, <1>5
  <2>2. \A i \in DOMAIN g : log[l][i] = g[i]
    BY <1>1, <1>5 DEF Extends
  <2> QED BY <2>1, <2>2 DEF Extends
<1>7. LogInv' /\ ExactlyOnce'
  BY <1>1, <1>3, <1>4, <1>5, <1>6, PrefixLogged
<1> QED BY <1>1, <1>7, StartFollowerOpAttempts, StartFollowerOpLocal DEF IInv

LEMMA TruncateLogKeeps ==
    ASSUME IInv, NEW s \in Servers, NEW i \in DOMAIN log[s], TruncateLog(s, i) PROVE IInv'
<1>1. /\ Types' /\ Elsewhere(s) /\ SameRaft /\ role[s].lead = "no"
      /\ DOMAIN log'[s] = 1 .. i - 1 /\ \A k \in 1 .. i - 1 : log'[s][k] = log[s][k]
      /\ applied'[s] = applied[s] /\ role'[s] = role[s]
  BY TruncateLogStep
<1>2. PICK g : g = log'[s]
  OBVIOUS
<1>3. /\ DOMAIN log[s] = 1 .. Len(log[s]) /\ Len(log[s]) \in Nat
      /\ DOMAIN g = 1 .. Len(g) /\ Len(g) \in Nat
  <2>1. log'[s] \in Seq(RequestIds)
    BY <1>1 DEF Types
  <2> QED BY <1>2, <2>1, LogTypes, SeqIs DEF IInv
<1>4. Extends(log[s], g)
  <2>1. DOMAIN g = 1 .. i - 1 /\ i \in Nat /\ i <= Len(log[s]) /\ i >= 1
    BY <1>1, <1>2, <1>3
  <2>2. Len(g) = i - 1
    BY <1>3, <2>1
  <2> QED BY <1>1, <1>2, <1>3, <2>1, <2>2 DEF Extends
<1>5. \A j \in applied[s] : j \in DOMAIN g
  BY <1>1, <1>2, AppliedIsKept
<1>6. \A j \in DOMAIN log[s] \cap DOMAIN g : g[j] = log[s][j]
  BY <1>1, <1>2
<1>7. LogInv' /\ ExactlyOnce'
  BY <1>1, <1>2, <1>4, <1>5, <1>6, PrefixLogged
<1> QED BY <1>1, <1>7, TruncateLogAttempts, TruncateLogLocal DEF IInv

LEMMA CrashKeeps ==
    ASSUME IInv, NEW s \in Servers, Crash(s) PROVE IInv'
<1>1. /\ Types' /\ Elsewhere(s) /\ SameRaft /\ log'[s] = log[s] /\ role'[s].lead = "no"
      /\ applied'[s] \subseteq applied[s]
  <2>1. /\ Types' /\ Elsewhere(s) /\ SameRaft /\ log'[s] = log[s] /\ role'[s] = NotLeader
        /\ \E n \in Nat : 1 .. n \subseteq applied[s] /\ applied'[s] = 1 .. n
    BY CrashStep
  <2> QED BY <2>1 DEF NotLeader
<1>2. LogInv' /\ ExactlyOnce'
  BY <1>1, SameLogs
<1> QED BY <1>1, <1>2, CrashAttempts, CrashLocal DEF IInv

LEMMA PlayWriteRequestKeeps ==
    ASSUME IInv, NEW s \in Servers, PlayWriteRequest(s) PROVE IInv'
<1>1. /\ Types' /\ Elsewhere(s) /\ SameClient /\ SameRaft
      /\ log'[s] = log[s] /\ applied'[s] = applied[s] /\ role'[s] = role[s]
      /\ arrived'[s] = arrived[s] /\ queue'[s] = queue[s]
      /\ replicating'[s] = replicating[s] /\ finished'[s] = finished[s]
  BY PlayWriteRequestStep
<1>2. LogInv' /\ ExactlyOnce'
  BY <1>1, SameLogs
<1>3. FreshInv' /\ DistinctInv'
  BY <1>1, SameDecided, NothingLogged DEF SameRaft
<1> QED BY <1>1, <1>2, <1>3, PlayWriteRequestLocal DEF IInv

LEMMA StartOrphanedReplicatesKeeps ==
    ASSUME IInv, NEW s \in Servers, StartOrphanedReplicates(s) PROVE IInv'
<1>1. /\ Types' /\ Elsewhere(s) /\ SameRaft
      /\ log'[s] = log[s] /\ applied'[s] = applied[s] /\ role'[s] = role[s]
  BY StartOrphanedReplicatesStep
<1>2. LogInv' /\ ExactlyOnce'
  BY <1>1, SameLogs
<1> QED BY <1>1, <1>2, StartOrphanedReplicatesAttempts, StartOrphanedReplicatesLocal DEF IInv

LEMMA InitKeeps == Init => IInv
<1> SUFFICES ASSUME Init PROVE IInv
  OBVIOUS
<1>1. Types
  BY InitTypes
<1>2. PICK l \in Servers :
        /\ leader = l
        /\ role = [x \in Servers |-> IF x = l THEN [lead |-> "ready", term |-> 1] ELSE NotLeader]
  BY DEF Init
<1>3. /\ net = {} /\ decided = <<>> /\ term = 1
      /\ \A s \in Servers :
            /\ log[s] = <<>> /\ applied[s] = {} /\ tracker[s] = NewTracker /\ arrived[s] = {}
            /\ queue[s] = <<>> /\ replicating[s] = {} /\ finished[s] = {} /\ replay[s] = Running
            /\ role[s].term <= 1
  BY <1>2 DEF Init, NotLeader
<1>4. \A s \in Servers : /\ LeaderOps(s) = {} /\ FollowerOps(s) = {} /\ PendingOps(s) = {}
                         /\ Waiting(s) = {} /\ LoggedOn(s) = {}
  BY <1>3 DEF LeaderOps, FollowerOps, PendingOps, Waiting, LoggedOn
<1>5. Unlogged = {} /\ Logged = {}
  BY <1>3, <1>4 DEF Unlogged, Logged
<1>6. FreshInv /\ DistinctInv
  BY <1>3, <1>4, <1>5 DEF FreshInv, DistinctInv
<1>7. LogInv /\ ExactlyOnce
  BY <1>3 DEF LogInv, ExactlyOnce, Agree, Extends
<1>8. ASSUME NEW s \in Servers PROVE LocalInv(s)
  <2>1. QueueOK(s)
    BY <1>4 DEF QueueOK
  <2>2. ReplayOK(s)
    BY <1>3 DEF ReplayOK, IsRunning
  <2>3. OpsOK(s)
    BY <1>3 DEF OpsOK
  <2>4. TrackOK(s)
    <3>1. TrackerOK(NewTracker) /\ \A q \in Seqs : NewTracker.records[q].state # "COMPLETED"
      BY NewTrackerType DEF NewTracker, NoRecord
    <3>2. DOMAIN log[s] = {} /\ ~replay[s].tracked
      BY <1>3 DEF Running
    <3> QED BY <1>3, <1>4, <3>1, <3>2 DEF TrackOK
  <2> QED BY <2>1, <2>2, <2>3, <2>4 DEF LocalInv
<1> QED BY <1>1, <1>6, <1>7, <1>8 DEF IInv

LEMMA NextKeeps ==
    ASSUME IInv, [Next]_vars PROVE IInv'
<1>1. CASE Next
  <2>1. ASSUME NEW q \in Seqs, FinishInternal(q) PROVE IInv'
    BY <2>1, FinishInternalKeeps
  <2>2. ASSUME NEW q \in Seqs, NEW s \in Servers, SendRpc(q, s) PROVE IInv'
    BY <2>2, SendRpcKeeps
  <2>3. ASSUME NEW m \in net, Handle(m) PROVE IInv'
    BY <2>3, HandleKeepsAll
  <2>4. ASSUME NEW s \in Servers, NEW id \in arrived[s], ExecuteAsync(s, id) PROVE IInv'
    BY <2>4, ExecuteAsyncKeeps
  <2>5. ASSUME NEW s \in Servers, NEW o, PrepareLeaderOp(s, o) PROVE IInv'
    BY <2>5, PrepareLeaderOpKeeps
  <2>6. ASSUME NEW s \in Servers, NEW o, PrepareTimedOut(s, o) PROVE IInv'
    BY <2>6, PrepareTimedOutKeeps
  <2>7. ASSUME NEW s \in Servers, NEW o, PrepareFollowerOp(s, o) PROVE IInv'
    BY <2>7, PrepareFollowerOpKeeps
  <2>8. ASSUME NEW s \in Servers, NEW o \in replicating[s], ApplyTask(s, o) PROVE IInv'
    BY <2>8, ApplyTaskKeeps
  <2>9. ASSUME NEW s \in Servers, NEW o \in finished[s], OpCompleted(s, o) PROVE IInv'
    BY <2>9, OpCompletedKeeps
  <2>10. ASSUME NEW s \in Servers, NEW q \in Seqs, CollectResponses(s, q) PROVE IInv'
    BY <2>10, CollectResponsesKeeps
  <2>11. ASSUME NEW s \in Servers, BecomeLeader(s) PROVE IInv'
    BY <2>11, BecomeLeaderKeeps
  <2>12. ASSUME NEW s \in Servers, BecomeReplica(s) PROVE IInv'
    BY <2>12, BecomeReplicaKeeps
  <2>13. ASSUME NEW s \in Servers, LeaderIsReady(s) PROVE IInv'
    BY <2>13, LeaderIsReadyKeeps
  <2>14. ASSUME NEW s \in Servers, Decide(s) PROVE IInv'
    BY <2>14, DecideKeeps
  <2>15. ASSUME NEW s \in Servers, NEW l \in Servers, StartFollowerOp(l, s) PROVE IInv'
    BY <2>15, StartFollowerOpKeeps
  <2>16. ASSUME NEW s \in Servers, NEW i \in DOMAIN log[s], TruncateLog(s, i) PROVE IInv'
    BY <2>16, TruncateLogKeeps
  <2>17. ASSUME NEW s \in Servers, Crash(s) PROVE IInv'
    BY <2>17, CrashKeeps
  <2>18. ASSUME NEW s \in Servers, PlayWriteRequest(s) PROVE IInv'
    BY <2>18, PlayWriteRequestKeeps
  <2>19. ASSUME NEW s \in Servers, StartOrphanedReplicates(s) PROVE IInv'
    BY <2>19, StartOrphanedReplicatesKeeps
  <2>20. ASSUME OtherLeader PROVE IInv'
    BY <2>20, OtherLeaderKeeps
  <2> QED BY <1>1, <2>1, <2>2, <2>3, <2>4, <2>5, <2>6, <2>7, <2>8, <2>9, <2>10, <2>11, <2>12,
             <2>13, <2>14, <2>15, <2>16, <2>17, <2>18, <2>19, <2>20 DEF Next
<1>2. CASE UNCHANGED vars
  <2>1. /\ SameRaft /\ sent' = sent /\ net' = net /\ \A u \in Servers : SameServer(u)
    BY <1>2 DEF vars, client, raft, storage, drivers, SameRaft, SameServer
  <2>2. Types'
    BY <1>2 DEF vars, client, raft, storage, drivers, IInv, Types
  <2>3. FreshInv' /\ DistinctInv'
    BY <2>1, SameDecided, AttemptsStay DEF SameRaft
  <2>4. term' >= term
    BY <2>1, SameTerm DEF IInv
  <2> QED BY <2>1, <2>2, <2>3, <2>4, SameServers, SameServerKeeps DEF IInv
<1> QED BY <1>1, <1>2

-----------------------------------------------------------------------------
(***************************************************************************)
(* The theorems                                                            *)
(***************************************************************************)

\* The inductive invariant: every server's tracker knows every write of its log
\* that is not still waiting in its prepare queue (rpc/result_tracker.cc).
THEOREM TrackedWritesInvariant == Spec => []IInv
BY InitKeeps, NextKeeps, PTL DEF Spec

\* No log ever has two attempts of one write: a leader logs an attempt only while
\* it is the driver of its record (tablet/ops/op_driver.cc, Prepare), and then no
\* other attempt can be in its log.
THEOREM WritesExecuteExactlyOnce == Spec => []ExactlyOnce
<1>1. IInv => ExactlyOnce
  BY DEF IInv
<1> QED BY <1>1, TrackedWritesInvariant, PTL

\* The CHECKs of RecordCompletionAndRespond (rpc/result_tracker.cc) never fail,
\* neither when an op is done nor when a write is replayed.
THEOREM DriversComplete == Spec => []OnlyTheDriverCompletes
<1>1. IInv => OnlyTheDriverCompletes
  <2> SUFFICES ASSUME IInv, NEW s \in Servers
               PROVE  /\ \A o \in finished[s] : o.ok => HasItsRecord(s, o.id)
                      /\ replay[s].tracked => HasItsRecord(s, log[s][replay[s].at])
    BY DEF OnlyTheDriverCompletes
  <2>1. OpsOK(s) /\ TrackOK(s)
    BY DEF IInv, LocalInv
  <2> QED BY <2>1 DEF OpsOK, TrackOK, Owns, HasItsRecord
<1> QED BY <1>1, TrackedWritesInvariant, PTL

\* A server answers a repeated attempt only with the response of a decided write
\* (rpc/result_tracker.cc, tablet/tablet_bootstrap.cc).
THEOREM CachedResponsesAreDecided == Spec => []CachedResponseIsDecided
<1>1. IInv => CachedResponseIsDecided
  <2> SUFFICES ASSUME IInv, NEW s \in Servers, NEW q \in Seqs,
                      tracker[s].records[q].state = "COMPLETED"
               PROVE  LET i == tracker[s].records[q].result
                      IN  i \in DOMAIN decided /\ decided[i].seq = q
    BY DEF CachedResponseIsDecided
  <2>1. PICK i : i = tracker[s].records[q].result
    OBVIOUS
  <2>2. i \in applied[s] /\ log[s][i].seq = q
    BY <2>1 DEF IInv, LocalInv, TrackOK
  <2>3. i \in DOMAIN log[s] /\ i \in DOMAIN decided /\ \A j \in 1 .. i : log[s][j] = decided[j]
    BY <2>2 DEF IInv, LogInv
  <2>4. i \in 1 .. i
    <3>1. DOMAIN log[s] = 1 .. Len(log[s]) /\ Len(log[s]) \in Nat
      BY LogTypes DEF IInv
    <3> QED BY <2>3, <3>1
  <2> QED BY <2>1, <2>2, <2>3, <2>4
<1> QED BY <1>1, TrackedWritesInvariant, PTL
================================================================================
