---------------------------- MODULE RaftElection ----------------------------
(***************************************************************************)
(* Leader election in a tablet's Raft configuration: RaftConsensus         *)
(* (consensus/raft_consensus.cc), the LeaderElection and VoteCounter it    *)
(* runs (leader_election.cc) and the term and vote that ConsensusMetadata  *)
(* keeps in memory and on disk (consensus_meta.cc).                        *)
(*                                                                         *)
(* lock_ is held for a whole handler, so a handler is one step, except     *)
(* DoElectionCallback(), which releases it between a won pre-election and  *)
(* the real election. Vote requests are RPCs with a timeout and without    *)
(* retries: one may be delivered after the candidate counted it as a NO,   *)
(* or after the candidate restarted. A server loses everything but the     *)
(* flushed consensus metadata when it crashes.                             *)
(*                                                                         *)
(* The log is abstracted to its effect here: a voter that compares last    *)
(* OpIds, and a follower that checks the preceding OpId, may answer either *)
(* way. The set of voters is fixed.                                        *)
(***************************************************************************)
EXTENDS Integers, FiniteSets

CONSTANTS
    Servers,                  \* the voters of the active config
    None,                     \* no server: an unset voted_for or leader_uuid
    Elections,                \* the LeaderElection objects
    raft_enable_pre_election, \* the flag
    MaxTerm,                  \* bound: no election and no step down beyond it
    MaxCrashes                \* bound on the crashes of all servers together

ASSUME ElectionAssumption ==
    /\ IsFiniteSet(Servers)
    /\ None \notin Servers
    /\ raft_enable_pre_election \in BOOLEAN
    /\ MaxTerm \in Nat /\ MaxCrashes \in Nat

VARIABLES
    cmeta,     \* term and vote in memory, per server
    disk,      \* term and vote as last flushed
    leader,    \* leader_uuid_; a server is leader iff it names itself
    withhold,  \* whether withhold_votes_until_ is in the future
    up,        \* whether the server runs
    crashes,   \* crashes so far
    election,  \* the elections being run
    notices,   \* terms that rejected requests reported to their caller
    votes,     \* history: every vote <<voter, term, candidate>> recorded
    led        \* history: every <<leader, term>>; such a leader has sent
               \* requests that may arrive, again, at any later time

procVars == <<up, crashes>>
metaVars == <<cmeta, disk, leader, withhold, votes>>
electionVars == <<metaVars, procVars, election, notices, led>>

Terms == 0 .. MaxTerm

NoElection == [cand |-> None]

num_voters == Cardinality(Servers)

MajoritySize == (num_voters \div 2) + 1

\* The answer to a vote request. Its term is 0 when the responder does not set it.
Response == [from : Servers, granted : BOOLEAN, term : Terms]

\* A LeaderElection: its request (candidate, term, is_pre_election,
\* ignore_live_leader), the voters its requests are on their way to, the
\* responses on their way back, the VoteCounter, highest_voter_term_ and result_.
\* A pre-election that is won stays, as "restart", until its candidate calls the
\* real one.
Election ==
    [cand : Servers, term : Terms, pre : BOOLEAN, ignore : BOOLEAN,
     asked : SUBSET Servers, responses : SUBSET Response,
     yes : SUBSET Servers, no : SUBSET Servers, highest : Terms,
     result : {"none", "won", "lost", "restart"}]

Running == {e \in Elections : election[e] # NoElection}

IsLeader(s) == leader[s] = s

(***************************************************************************)
(* The term and the vote                                                   *)
(***************************************************************************)
\* Mutant: the vote of a new term is not initialised.
NewTerm_NoVote(t) == [term |-> t]

\* SetCurrentTermUnlocked(): a new term starts without a vote.
NewTerm(t) == [term |-> t, voted |-> None]

Vote(t, s) == [term |-> t, voted |-> s]

\* BecomeReplicaUnlocked() when a leader learns of a higher term: it may vote
\* again. The leader itself is cleared with the term.
WithholdAfterAdvance(s) == withhold[s] /\ ~IsLeader(s)

\* HandleTermAdvanceUnlocked(): the flush is up to the caller.
HandleTermAdvance(s, t) ==
    /\ cmeta' = [cmeta EXCEPT ![s] = NewTerm(t)]
    /\ leader' = [leader EXCEPT ![s] = None]
    /\ withhold' = [withhold EXCEPT ![s] = WithholdAfterAdvance(s)]

\* ConsensusMetadata::Flush().
Flush(s) == disk' = [disk EXCEPT ![s] = cmeta'[s]]

(***************************************************************************)
(* LeaderElection                                                          *)
(***************************************************************************)
IsLost(no) == Cardinality(no) > num_voters - MajoritySize

IsWon(yes) == Cardinality(yes) >= MajoritySize

\* CheckForDecision(): result_ is written once. Once it is, later responses
\* change nothing, so the election keeps none.
CheckForDecision(el) ==
    LET decided == [el EXCEPT !.asked = {}, !.responses = {}] IN
    IF el.result = "none" /\ IsWon(el.yes) THEN [decided EXCEPT !.result = "won"]
    ELSE IF el.result = "none" /\ IsLost(el.no) THEN [decided EXCEPT !.result = "lost"]
    ELSE IF el.result # "none" THEN decided
    ELSE el

\* The election e continues as el, after CheckForDecision().
UpdateElection(e, el) == election' = [election EXCEPT ![e] = CheckForDecision(el)]

Larger(a, b) == IF a > b THEN a ELSE b

\* VoteResponseRpcCallback() without an RPC error. A refusal with a higher term
\* cancels the election.
HandleResponse(el, r) ==
    LET heard == [el EXCEPT !.responses = @ \ {r}, !.highest = Larger(@, r.term)] IN
    IF r.granted THEN [heard EXCEPT !.yes = @ \union {r.from}]
    ELSE IF r.term > el.term THEN [heard EXCEPT !.result = "lost"]
    ELSE [heard EXCEPT !.no = @ \union {r.from}]

\* A response arrives.
VoteResponse(e, r) ==
    /\ e \in Running
    /\ r \in election[e].responses
    /\ UpdateElection(e, HandleResponse(election[e], r))
    /\ UNCHANGED <<metaVars, procVars, notices, led>>

\* Mutant: an RPC error is logged and not counted.
VoteRpcFailed_NotCounted(e, v) ==
    /\ e \in Running
    /\ v \in election[e].asked \union {r.from : r \in election[e].responses}
    /\ LET el == election[e] IN
       UpdateElection(e, [el EXCEPT !.asked = @ \ {v},
                                    !.responses = {r \in @ : r.from # v}])
    /\ UNCHANGED <<metaVars, procVars, notices, led>>

\* A vote request fails or times out, or the tablet answers with an error: it is
\* a NO vote, although the request may still arrive.
VoteRpcFailed(e, v) ==
    /\ e \in Running
    /\ v \in election[e].asked \union {r.from : r \in election[e].responses}
    /\ LET el == election[e] IN
       UpdateElection(e, [el EXCEPT !.asked = @ \ {v},
                                    !.responses = {r \in @ : r.from # v},
                                    !.no = @ \union {v}])
    /\ UNCHANGED <<metaVars, procVars, notices, led>>

(***************************************************************************)
(* Calling an election                                                     *)
(***************************************************************************)
NewElection(s, t, pre, ignore) ==
    [cand |-> s, term |-> t, pre |-> pre, ignore |-> ignore,
     asked |-> Servers \ {s}, responses |-> {},
     yes |-> {s}, no |-> {}, highest |-> 0, result |-> "none"]

\* Mutant: the vote for itself is not flushed.
StartRealElection_NoFlush(s, e, ignore) ==
    LET t == cmeta[s].term + 1 IN
    /\ t <= MaxTerm
    /\ cmeta' = [cmeta EXCEPT ![s] = Vote(t, s)]
    /\ leader' = [leader EXCEPT ![s] = None]
    /\ votes' = votes \union {<<s, t, s>>}
    /\ election' = [election EXCEPT ![e] = CheckForDecision(NewElection(s, t, FALSE, ignore))]
    /\ UNCHANGED <<disk, withhold, procVars, notices, led>>

\* StartElection() in the modes NORMAL_ELECTION and
\* ELECT_EVEN_IF_LEADER_IS_ALIVE, by a server that is not leader: the new term and
\* the vote for itself are flushed together, before any request is sent.
StartRealElection(s, e, ignore) ==
    LET t == cmeta[s].term + 1 IN
    /\ t <= MaxTerm
    /\ cmeta' = [cmeta EXCEPT ![s] = Vote(t, s)]
    /\ Flush(s)
    /\ leader' = [leader EXCEPT ![s] = None]
    /\ votes' = votes \union {<<s, t, s>>}
    /\ election' = [election EXCEPT ![e] = CheckForDecision(NewElection(s, t, FALSE, ignore))]
    /\ UNCHANGED <<withhold, procVars, notices, led>>

\* StartElection() in the mode PRE_ELECTION: it asks for votes in the next term.
StartPreElection(s, e) ==
    /\ cmeta[s].term < MaxTerm
    /\ election' = [election EXCEPT
           ![e] = CheckForDecision(NewElection(s, cmeta[s].term + 1, TRUE, FALSE))]
    /\ UNCHANGED <<metaVars, procVars, notices, led>>

CanCallElection(s, e) == e \notin Running /\ up[s] /\ ~IsLeader(s)

\* The failure detector fires (ReportFailureDetectedTask).
ReportFailureDetected(s, e) ==
    /\ CanCallElection(s, e)
    /\ IF raft_enable_pre_election THEN StartPreElection(s, e)
                                   ELSE StartRealElection(s, e, FALSE)

\* The RunLeaderElection RPC, of an administrator or of a leader that transfers
\* its leadership.
RunLeaderElection(s, e) == CanCallElection(s, e) /\ StartRealElection(s, e, TRUE)

(***************************************************************************)
(* Voting                                                                  *)
(***************************************************************************)
\* Mutant: a vote already cast does not keep a voter from voting again.
HasVoted_Never(v, t) == FALSE

HasVoted(v, t) == cmeta[v].term = t /\ cmeta[v].voted # None

\* Mutant: the vote is left in memory.
RecordVote_NoFlush(v, c, t) ==
    /\ cmeta' = [cmeta EXCEPT ![v] = Vote(t, c)]
    /\ UNCHANGED disk
    /\ votes' = votes \union {<<v, t, c>>}

\* SetVotedForCurrentTermUnlocked(): the vote, and with it a term advanced
\* without a flush, is on disk before the response is sent.
RecordVote(v, c, t) ==
    /\ cmeta' = [cmeta EXCEPT ![v] = Vote(t, c)]
    /\ Flush(v)
    /\ votes' = votes \union {<<v, t, c>>}

LeaderAfterVote(v, t) ==
    /\ leader' = [leader EXCEPT ![v] = IF t > cmeta[v].term THEN None ELSE @]
    /\ withhold' = [withhold EXCEPT ![v] = @ /\ ~(t > cmeta[v].term /\ IsLeader(v))]

\* What RequestVote() does with the request of candidate c for term t, under its
\* locks; resp is the response. The voter's log is newer than the candidate's
\* or it is not.
RequestVote(v, c, t, pre, resp) ==
    \/ /\ t < cmeta[v].term
       /\ resp = [from |-> v, granted |-> FALSE, term |-> cmeta[v].term]
       /\ UNCHANGED metaVars
    \/ /\ HasVoted(v, t)
       /\ resp = [from |-> v, granted |-> cmeta[v].voted = c, term |-> t]
       /\ UNCHANGED metaVars
    \/ /\ t >= cmeta[v].term /\ ~HasVoted(v, t) /\ pre
       /\ \E vote_yes \in BOOLEAN :
             resp = [from |-> v, granted |-> vote_yes, term |-> cmeta[v].term]
       /\ UNCHANGED metaVars
    \/ /\ t >= cmeta[v].term /\ ~HasVoted(v, t) /\ ~pre
       /\ resp = [from |-> v, granted |-> TRUE, term |-> t]
       /\ RecordVote(v, c, t)
       /\ LeaderAfterVote(v, t)
    \/ /\ t > cmeta[v].term /\ ~pre
       /\ resp = [from |-> v, granted |-> FALSE, term |-> t]
       /\ HandleTermAdvance(v, t)
       /\ Flush(v)
       /\ UNCHANGED votes
    \/ /\ t = cmeta[v].term /\ ~HasVoted(v, t) /\ ~pre
       /\ resp = [from |-> v, granted |-> FALSE, term |-> t]
       /\ UNCHANGED metaVars

\* RequestVoteRespondLeaderIsAlive() and RequestVoteRespondIsBusy(): a refusal
\* without a term. Another vote or update may hold update_lock_ at any time.
RefuseVote(v, resp) ==
    /\ resp = [from |-> v, granted |-> FALSE, term |-> 0]
    /\ UNCHANGED metaVars

\* A request is delivered to v and answered.
DeliverVoteRequest(e, v) ==
    /\ e \in Running /\ up[v]
    /\ v \in election[e].asked
    /\ LET el == election[e] IN
       \E resp \in [from : {v}, granted : BOOLEAN, term : Terms] :
          /\ \/ (el.ignore \/ ~withhold[v]) /\ RequestVote(v, el.cand, el.term, el.pre, resp)
             \/ RefuseVote(v, resp)
          /\ election' = [election EXCEPT ![e] =
                [el EXCEPT !.asked = @ \ {v}, !.responses = @ \union {resp}]]
    /\ UNCHANGED <<procVars, notices, led>>

\* A request of the candidate c in term t is delivered although c no longer waits
\* for the answer: its RPC timed out, its election was decided or it restarted. A
\* candidate that has voted for itself has sent requests; any of them may be on
\* its way, with or without ignore_live_leader.
DeliverLateRequest(v, c, t) ==
    /\ up[v] /\ v # c
    /\ \E resp \in [from : {v}, granted : BOOLEAN, term : Terms] :
          RequestVote(v, c, t, FALSE, resp)
    /\ UNCHANGED <<procVars, election, notices, led>>

(***************************************************************************)
(* The outcome of an election                                              *)
(***************************************************************************)
\* DoElectionCallback() with a lost election: the term of a voter that is ahead
\* is taken over.
ElectionLost(e) ==
    /\ e \in Running /\ election[e].result = "lost"
    /\ LET el == election[e] s == el.cand IN
       IF el.highest > cmeta[s].term
       THEN HandleTermAdvance(s, el.highest) /\ Flush(s) /\ UNCHANGED votes
       ELSE UNCHANGED metaVars
    /\ election' = [election EXCEPT ![e] = NoElection]
    /\ UNCHANGED <<procVars, notices, led>>

StartedInTerm(el) == IF el.pre THEN el.term - 1 ELSE el.term

\* Mutant: the term the election was started in is not compared.
IsDefunct_Never(el) == FALSE

IsDefunct(el) == StartedInTerm(el) # cmeta[el.cand].term

\* ... with a won pre-election: unless its term is defunct or the server is leader
\* by now, a real election is called next, after lock_ was released.
PreElectionWon(e) ==
    /\ e \in Running /\ election[e].result = "won" /\ election[e].pre
    /\ election' = [election EXCEPT ![e] =
          IF IsDefunct(election[e]) \/ IsLeader(election[e].cand) THEN NoElection
          ELSE [@ EXCEPT !.result = "restart"]]
    /\ UNCHANGED <<metaVars, procVars, notices, led>>

\* The real election after a pre-election, whatever happened in between.
StartElectionAfterPreElection(e) ==
    /\ e \in Running /\ election[e].result = "restart"
    /\ IF IsLeader(election[e].cand) \/ cmeta[election[e].cand].term = MaxTerm
       THEN /\ election' = [election EXCEPT ![e] = NoElection]
            /\ UNCHANGED <<metaVars, procVars, notices, led>>
       ELSE StartRealElection(election[e].cand, e, FALSE)

\* ... with a won election: unless its term is defunct the server becomes leader
\* and votes for nobody.
ElectionWon(e) ==
    /\ e \in Running /\ election[e].result = "won" /\ ~election[e].pre
    /\ LET el == election[e] s == el.cand IN
       IF IsDefunct(el)
       THEN UNCHANGED <<leader, withhold, led>>
       ELSE /\ leader' = [leader EXCEPT ![s] = s]
            /\ withhold' = [withhold EXCEPT ![s] = TRUE]
            /\ led' = led \union {<<s, el.term>>}
    /\ election' = [election EXCEPT ![e] = NoElection]
    /\ UNCHANGED <<cmeta, disk, votes, procVars, notices>>

(***************************************************************************)
(* Requests of a leader                                                    *)
(***************************************************************************)
\* UpdateReplica(): a request of the leader l of term t reaches s. An older term
\* is rejected; a newer one is taken over, and flushed, before the preceding OpId
\* is compared. LOG(FATAL) on another leader in the same term is a guard here.
UpdateReplica(s, l, t) ==
    /\ up[s] /\ l # s /\ <<l, t>> \in led
    /\ \/ /\ t < cmeta[s].term
          /\ notices' = notices \union {<<l, cmeta[s].term>>}
          /\ UNCHANGED metaVars
       \/ /\ t > cmeta[s].term
          /\ cmeta' = [cmeta EXCEPT ![s] = NewTerm(t)]
          /\ Flush(s)
          /\ \E matches \in BOOLEAN :
                /\ leader' = [leader EXCEPT ![s] = IF matches THEN l ELSE None]
                /\ withhold' = [withhold EXCEPT ![s] = matches \/ WithholdAfterAdvance(s)]
          /\ UNCHANGED <<votes, notices>>
       \/ /\ t = cmeta[s].term
          /\ leader[s] \in {None, l}
          /\ leader' = [leader EXCEPT ![s] = l]
          /\ withhold' = [withhold EXCEPT ![s] = TRUE]
          /\ UNCHANGED <<cmeta, disk, votes, notices>>
    /\ UNCHANGED <<procVars, election, led>>

\* NotifyTermChange(): the rejection reaches the consensus of its caller.
NotifyTermChange(s, t) ==
    /\ up[s] /\ <<s, t>> \in notices
    /\ notices' = notices \ {<<s, t>>}
    /\ IF t > cmeta[s].term
       THEN HandleTermAdvance(s, t) /\ Flush(s) /\ UNCHANGED votes
       ELSE UNCHANGED metaVars
    /\ UNCHANGED <<procVars, election, led>>

\* StepDown(): the next term, left in memory.
StepDown(s) ==
    /\ up[s] /\ IsLeader(s)
    /\ cmeta[s].term < MaxTerm
    /\ HandleTermAdvance(s, cmeta[s].term + 1)
    /\ UNCHANGED <<disk, votes, procVars, election, notices, led>>

\* MinimumElectionTimeout() after the last request of the leader.
WithholdExpires(s) ==
    /\ up[s] /\ withhold[s] /\ ~IsLeader(s)
    /\ withhold' = [withhold EXCEPT ![s] = FALSE]
    /\ UNCHANGED <<cmeta, disk, leader, votes, procVars, election, notices, led>>

(***************************************************************************)
(* Crashes                                                                 *)
(***************************************************************************)
\* The process dies; the requests it sent stay in flight.
Crash(s) ==
    /\ up[s] /\ crashes < MaxCrashes
    /\ up' = [up EXCEPT ![s] = FALSE]
    /\ crashes' = crashes + 1
    /\ election' = [e \in Elections |->
           IF election[e].cand = s THEN NoElection ELSE election[e]]
    /\ notices' = {n \in notices : n[1] # s}
    /\ UNCHANGED <<metaVars, led>>

\* ConsensusMetadata::Load() and Start().
Restart(s) ==
    /\ ~up[s]
    /\ up' = [up EXCEPT ![s] = TRUE]
    /\ cmeta' = [cmeta EXCEPT ![s] = disk[s]]
    /\ leader' = [leader EXCEPT ![s] = None]
    /\ withhold' = [withhold EXCEPT ![s] = FALSE]
    /\ UNCHANGED <<crashes, disk, votes, election, notices, led>>

ElectionInit ==
    /\ cmeta = [s \in Servers |-> NewTerm(0)]
    /\ disk = [s \in Servers |-> NewTerm(0)]
    /\ leader = [s \in Servers |-> None]
    /\ withhold = [s \in Servers |-> FALSE]
    /\ up = [s \in Servers |-> TRUE]
    /\ crashes = 0
    /\ election = [e \in Elections |-> NoElection]
    /\ notices = {}
    /\ votes = {}
    /\ led = {}

ElectionStep(e) ==
    \/ \E v \in Servers : DeliverVoteRequest(e, v)
    \/ \E v \in Servers : VoteRpcFailed(e, v)
    \/ e \in Running /\ \E r \in election[e].responses : VoteResponse(e, r)
    \/ ElectionLost(e)
    \/ PreElectionWon(e)
    \/ StartElectionAfterPreElection(e)
    \/ ElectionWon(e)

ElectionNext ==
    \/ \E s \in Servers, e \in Elections : ReportFailureDetected(s, e)
    \/ \E s \in Servers, e \in Elections : RunLeaderElection(s, e)
    \/ \E e \in Elections : ElectionStep(e)
    \/ \E v \in Servers, b \in votes : b[1] = b[3] /\ DeliverLateRequest(v, b[1], b[2])
    \/ \E s \in Servers : \E lt \in led : UpdateReplica(s, lt[1], lt[2])
    \/ \E n \in notices : NotifyTermChange(n[1], n[2])
    \/ \E s \in Servers : StepDown(s)
    \/ \E s \in Servers : WithholdExpires(s)
    \/ \E s \in Servers : Crash(s)
    \/ \E s \in Servers : Restart(s)

Spec == ElectionInit /\ [][ElectionNext]_electionVars

\* The failure detector, the RPC timeouts and the thread pool of the consensus
\* always run: an RPC of an election ends, and its callback is executed.
ElectionFairness ==
    \A e \in Elections :
        /\ \A v \in Servers : WF_electionVars(VoteRpcFailed(e, v))
        /\ WF_electionVars(ElectionLost(e) \/ PreElectionWon(e) \/ ElectionWon(e))
        /\ WF_electionVars(StartElectionAfterPreElection(e))

FairSpec == Spec /\ ElectionFairness

(***************************************************************************)
(* Properties                                                              *)
(***************************************************************************)
\* Every variable has its type.
TypeOK ==
    /\ cmeta \in [Servers -> [term : Terms, voted : Servers \union {None}]]
    /\ disk \in [Servers -> [term : Terms, voted : Servers \union {None}]]
    /\ leader \in [Servers -> Servers \union {None}]
    /\ withhold \in [Servers -> BOOLEAN]
    /\ up \in [Servers -> BOOLEAN]
    /\ crashes \in Nat
    /\ election \in [Elections -> Election \union {NoElection}]
    /\ notices \subseteq Servers \X Terms
    /\ votes \subseteq Servers \X Terms \X Servers
    /\ led \subseteq Servers \X Terms

\* At most one server ever becomes leader in a term, whatever is lost, delayed or
\* restarted between the request for a vote and the callback of the election
\* (RequestVote, DoElectionCallback).
ElectionSafety ==
    \A a, b \in led : a[2] = b[2] => a[1] = b[1]

\* No server ever votes twice in a term, across restarts and across terms that it
\* advanced to without a flush (SetVotedForCurrentTermUnlocked, SKIP_FLUSH_TO_DISK).
OneVotePerTerm ==
    \A a, b \in votes : a[1] = b[1] /\ a[2] = b[2] => a[3] = b[3]

\* A vote that was given is on disk as long as its term is: a restart finds the
\* vote or a later term (ConsensusMetadata::Flush, Load).
VotesAreDurable ==
    \A a \in votes :
        disk[a[1]].term > a[2] \/ disk[a[1]] = Vote(a[2], a[3])

\* The leader a replica follows was elected in the term the replica is in, so a
\* request never meets "Unexpected new leader in same term!"
\* (CheckLeaderRequestUnlocked).
NoUnexpectedLeader ==
    \A s \in Servers :
        up[s] /\ leader[s] # None =>
            /\ <<leader[s], cmeta[s].term>> \in led
            /\ \A lt \in led : lt[2] = cmeta[s].term => lt[1] = leader[s]

\* An election that is called ends: its callback runs, and the candidate is free
\* to try again (LeaderElection::Run, DoElectionCallback).
ElectionsEnd ==
    \A e \in Elections : e \in Running ~> e \notin Running
=============================================================================
