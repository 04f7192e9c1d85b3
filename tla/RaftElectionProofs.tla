------------------------- MODULE RaftElectionProofs -------------------------
(***************************************************************************)
(* Election safety, for any finite set of voters, any number of elections  *)
(* at a time, any number of terms and of crashes.                          *)
(*                                                                         *)
(* The argument is about what is on disk. A vote is on disk or its term is *)
(* past there (VotesAreDurable); memory is the disk, or a later term       *)
(* without a vote (MetaInv): so a server never votes twice in a term, even *)
(* after a restart. What an election counts was voted (ElectionInv), so a  *)
(* leader had a majority of the votes of its term (LedInv), and two        *)
(* majorities have a voter in common.                                      *)
(***************************************************************************)
EXTENDS RaftElection, FiniteSetTheorems, TLAPS

Nobody == Servers \union {None}

\* Of the memory m, the disk d and the leader l of the server s: memory is ahead
\* of the disk only by a term without a vote, a recorded vote is one of the
\* history V, and the leader was elected, as L says, in the term of the memory.
MetaOK(s, m, d, l, V, L) ==
    /\ d.term <= m.term
    /\ m.term = d.term => m.voted = d.voted
    /\ m.term > d.term => m.voted = None
    /\ m.voted # None => <<s, m.term, m.voted>> \in V
    /\ d.voted # None => <<s, d.term, d.voted>> \in V
    /\ l # None => <<l, m.term>> \in L

MetaInv == \A s \in Servers : MetaOK(s, cmeta[s], disk[s], leader[s], votes, led)

\* What a real election counts, or will count, are votes of the history V.
Supported(el, V) ==
    ~el.pre => /\ \A v \in el.yes : <<v, el.term, el.cand>> \in V
               /\ \A r \in el.responses : r.granted => <<r.from, el.term, el.cand>> \in V

ElectionOK(el, V) ==
    /\ Supported(el, V)
    /\ el.result = "won" => IsWon(el.yes)
    /\ el.result # "none" => el.asked = {} /\ el.responses = {}

ElectionInv == \A e \in Running : ElectionOK(election[e], votes)

\* A majority Q voted for s in term t.
ElectedBy(Q, s, t, V) == IsWon(Q) /\ \A v \in Q : <<v, t, s>> \in V

LedInv == \A lt \in led : \E Q \in SUBSET Servers : ElectedBy(Q, lt[1], lt[2], votes)

IInv ==
    /\ TypeOK
    /\ MetaInv
    /\ VotesAreDurable
    /\ OneVotePerTerm
    /\ ElectionInv
    /\ LedInv

-----------------------------------------------------------------------------
\* Two majorities have a voter in common.
LEMMA MajoritiesMeet ==
    ASSUME NEW P \in SUBSET Servers, NEW Q \in SUBSET Servers, IsWon(P), IsWon(Q)
    PROVE  \E v \in P : v \in Q
<1>1. IsFiniteSet(P) /\ IsFiniteSet(Q) /\ IsFiniteSet(Servers)
  BY FS_Subset, ElectionAssumption
<1>2. Cardinality(P) \in Nat /\ Cardinality(Q) \in Nat /\ Cardinality(Servers) \in Nat
  BY <1>1, FS_CardinalityType
<1>3. Cardinality(P) + Cardinality(Q) > Cardinality(Servers)
  BY <1>2 DEF IsWon, MajoritySize, num_voters
<1>4. P \cap Q # {}
  BY <1>1, <1>3, FS_MajoritiesIntersect
<1> QED BY <1>4

\* The invariant implies that a term has one leader (DoElectionCallback).
LEMMA OneLeader ==
    ASSUME TypeOK, OneVotePerTerm, LedInv
    PROVE  ElectionSafety
<1> SUFFICES ASSUME NEW a \in led, NEW b \in led, a[2] = b[2] PROVE a[1] = b[1]
  BY DEF ElectionSafety
<1>1. PICK P \in SUBSET Servers : ElectedBy(P, a[1], a[2], votes)
  BY DEF LedInv
<1>2. PICK Q \in SUBSET Servers : ElectedBy(Q, b[1], b[2], votes)
  BY DEF LedInv
<1>3. PICK v \in P : v \in Q
  BY <1>1, <1>2, MajoritiesMeet DEF ElectedBy
<1>4. <<v, a[2], a[1]>> \in votes /\ <<v, a[2], b[1]>> \in votes
  BY <1>1, <1>2, <1>3 DEF ElectedBy
<1> QED BY <1>4 DEF OneVotePerTerm

\* CheckForDecision() wins only with a majority.
LEMMA CheckForDecisionOK ==
    ASSUME NEW el \in Election, NEW V, Supported(el, V), el.result \in {"none", "lost"}
    PROVE  /\ CheckForDecision(el) \in Election
           /\ ElectionOK(CheckForDecision(el), V)
<1>1. CASE el.result = "none" /\ IsWon(el.yes)
  BY <1>1 DEF CheckForDecision, Election, ElectionOK, Supported
<1>2. CASE el.result = "none" /\ ~IsWon(el.yes) /\ IsLost(el.no)
  BY <1>2 DEF CheckForDecision, Election, ElectionOK, Supported
<1>3. CASE el.result = "none" /\ ~IsWon(el.yes) /\ ~IsLost(el.no)
  BY <1>3 DEF CheckForDecision, Election, ElectionOK, Supported
<1>4. CASE el.result = "lost"
  BY <1>4 DEF CheckForDecision, Election, ElectionOK, Supported
<1> QED BY <1>1, <1>2, <1>3, <1>4

\* An election whose votes are in V has them in a larger V.
LEMMA ElectionOKGrows ==
    ASSUME NEW el \in Election, NEW V, NEW W, V \subseteq W, ElectionOK(el, V)
    PROVE  ElectionOK(el, W)
BY DEF ElectionOK, Supported

-----------------------------------------------------------------------------
(***************************************************************************)
(* The few ways in which a step changes the term, the vote and the leader  *)
(* a server knows.                                                         *)
(***************************************************************************)
KeepShape == UNCHANGED <<cmeta, disk, leader, votes>>

\* A higher term, flushed or not; l, if any, leads it.
AdvanceShape(s, t, l) ==
    /\ t > cmeta[s].term
    /\ l # None => <<l, t>> \in led
    /\ cmeta' = [cmeta EXCEPT ![s] = NewTerm(t)]
    /\ disk' = disk \/ disk' = [disk EXCEPT ![s] = NewTerm(t)]
    /\ leader' = [leader EXCEPT ![s] = l]
    /\ votes' = votes

\* A vote in a term in which there was none, flushed.
VoteShape(s, t, c, l) ==
    /\ t > cmeta[s].term \/ (t = cmeta[s].term /\ cmeta[s].voted = None)
    /\ l = None \/ (l = leader[s] /\ t = cmeta[s].term)
    /\ cmeta' = [cmeta EXCEPT ![s] = Vote(t, c)]
    /\ disk' = [disk EXCEPT ![s] = Vote(t, c)]
    /\ leader' = [leader EXCEPT ![s] = l]
    /\ votes' = votes \union {<<s, t, c>>}

\* A leader of the current term becomes known.
LeaderShape(s, l) ==
    /\ <<l, cmeta[s].term>> \in led'
    /\ leader' = [leader EXCEPT ![s] = l]
    /\ UNCHANGED <<cmeta, disk, votes>>

RestartShape(s) ==
    /\ cmeta' = [cmeta EXCEPT ![s] = disk[s]]
    /\ leader' = [leader EXCEPT ![s] = None]
    /\ UNCHANGED <<disk, votes>>

MetaShape ==
    /\ withhold' \in [Servers -> BOOLEAN]
    /\ \/ KeepShape
       \/ \E s \in Servers, t \in Terms, l \in Nobody : AdvanceShape(s, t, l)
       \/ \E s \in Servers, t \in Terms, c \in Servers, l \in Nobody : VoteShape(s, t, c, l)
       \/ \E s \in Servers, l \in Servers : LeaderShape(s, l)
       \/ \E s \in Servers : RestartShape(s)

\* An election is kept, dropped or replaced by one whose votes were cast.
ElectionShape ==
    /\ election' \in [Elections -> Election \union {NoElection}]
    /\ \A e \in Elections :
          \/ election'[e] \in {election[e], NoElection}
          \/ ElectionOK(election'[e], votes')

\* A leader is added with its majority.
LedShape ==
    /\ led' \subseteq Servers \X Terms
    /\ led \subseteq led'
    /\ \A lt \in led' : lt \in led \/ \E Q \in SUBSET Servers : ElectedBy(Q, lt[1], lt[2], votes)

OtherShape ==
    /\ up' \in [Servers -> BOOLEAN]
    /\ crashes' \in Nat
    /\ notices' \subseteq Servers \X Terms

Shape == MetaShape /\ ElectionShape /\ LedShape /\ OtherShape

-----------------------------------------------------------------------------
\* A shaped step keeps the types.
LEMMA ShapeType == TypeOK /\ Shape => TypeOK'
<1> SUFFICES ASSUME TypeOK, Shape PROVE TypeOK'
  OBVIOUS
<1>1. election' \in [Elections -> Election \union {NoElection}] /\ led' \subseteq Servers \X Terms
      /\ up' \in [Servers -> BOOLEAN] /\ crashes' \in Nat /\ notices' \subseteq Servers \X Terms
      /\ withhold' \in [Servers -> BOOLEAN]
  BY DEF Shape, ElectionShape, LedShape, OtherShape, MetaShape
<1> DEFINE Metas == [term : Terms, voted : Nobody]
<1>2. \A t \in Terms, c \in Nobody : Vote(t, c) \in Metas /\ NewTerm(t) \in Metas
  BY DEF Vote, NewTerm, Nobody
<1>3. cmeta \in [Servers -> Metas] /\ disk \in [Servers -> Metas] /\ leader \in [Servers -> Nobody]
      /\ votes \subseteq Servers \X Terms \X Servers
  BY DEF TypeOK, Nobody
<1>4. cmeta' \in [Servers -> Metas] /\ disk' \in [Servers -> Metas] /\ leader' \in [Servers -> Nobody]
      /\ votes' \subseteq Servers \X Terms \X Servers
  <2> HIDE DEF Metas
  <2>1. CASE KeepShape
    BY <1>3, <2>1 DEF KeepShape
  <2>2. CASE \E s \in Servers, t \in Terms, l \in Nobody : AdvanceShape(s, t, l)
    <3>1. PICK s \in Servers, t \in Terms, l \in Nobody : AdvanceShape(s, t, l)
      BY <2>2
    <3>2. NewTerm(t) \in Metas
      BY <1>2 DEF Nobody
    <3> QED BY <1>3, <3>1, <3>2 DEF AdvanceShape
  <2>3. CASE \E s \in Servers, t \in Terms, c \in Servers, l \in Nobody : VoteShape(s, t, c, l)
    <3>1. PICK s \in Servers, t \in Terms, c \in Servers, l \in Nobody : VoteShape(s, t, c, l)
      BY <2>3
    <3>2. Vote(t, c) \in Metas
      BY <1>2 DEF Nobody
    <3> QED BY <1>3, <3>1, <3>2 DEF VoteShape
  <2>4. CASE \E s \in Servers, l \in Servers : LeaderShape(s, l)
    BY <1>3, <2>4 DEF LeaderShape, Nobody
  <2>5. CASE \E s \in Servers : RestartShape(s)
    <3>1. PICK s \in Servers : RestartShape(s)
      BY <2>5
    <3>2. disk[s] \in Metas
      BY <1>3
    <3> QED BY <1>3, <3>1, <3>2 DEF RestartShape, Nobody
  <2> QED BY <2>1, <2>2, <2>3, <2>4, <2>5 DEF Shape, MetaShape
<1> QED BY <1>1, <1>4 DEF TypeOK, Nobody

\* A shaped step keeps memory and disk, the votes and the leaders consistent.
LEMMA ShapeMeta ==
    TypeOK /\ MetaInv /\ VotesAreDurable /\ OneVotePerTerm /\ Shape
        => MetaInv' /\ VotesAreDurable' /\ OneVotePerTerm' /\ votes \subseteq votes'
<1> SUFFICES ASSUME TypeOK, MetaInv, VotesAreDurable, OneVotePerTerm, Shape
             PROVE  MetaInv' /\ VotesAreDurable' /\ OneVotePerTerm' /\ votes \subseteq votes'
  OBVIOUS
<1>1. led \subseteq led'
  BY DEF Shape, LedShape
<1>2. /\ cmeta \in [Servers -> [term : Terms, voted : Nobody]]
      /\ disk \in [Servers -> [term : Terms, voted : Nobody]]
      /\ leader \in [Servers -> Nobody]
      /\ votes \subseteq Servers \X Terms \X Servers
      /\ Terms \subseteq Nat
      /\ None \notin Servers
  BY ElectionAssumption DEF TypeOK, Nobody, Terms
<1>3. ASSUME NEW x \in Servers, NEW V, votes \subseteq V
      PROVE  MetaOK(x, cmeta[x], disk[x], leader[x], V, led')
  <2>1. MetaOK(x, cmeta[x], disk[x], leader[x], votes, led)
    BY DEF MetaInv
  <2> QED BY <1>1, <1>3, <2>1 DEF MetaOK
<1>4. CASE KeepShape
  BY <1>3, <1>4 DEF KeepShape, MetaInv, VotesAreDurable, OneVotePerTerm
<1>5. ASSUME NEW s \in Servers, NEW t \in Terms, NEW l \in Nobody, AdvanceShape(s, t, l)
      PROVE  MetaInv' /\ VotesAreDurable' /\ OneVotePerTerm' /\ votes \subseteq votes'
  <2>1. \A x \in Servers : x # s =>
           cmeta'[x] = cmeta[x] /\ disk'[x] = disk[x] /\ leader'[x] = leader[x]
    BY <1>2, <1>5 DEF AdvanceShape
  <2>2. /\ cmeta'[s] = NewTerm(t) /\ leader'[s] = l /\ t > cmeta[s].term /\ votes' = votes
        /\ l # None => <<l, t>> \in led'
    BY <1>1, <1>2, <1>5 DEF AdvanceShape
  <2>3. disk'[s] = disk[s] \/ disk'[s] = NewTerm(t)
    BY <1>2, <1>5 DEF AdvanceShape
  <2>4. disk[s].term \in Nat /\ cmeta[s].term \in Nat /\ t \in Nat /\ disk[s].term < t
    <3>1. disk[s].term \in Nat /\ cmeta[s].term \in Nat /\ t \in Nat
      BY <1>2
    <3>2. disk[s].term <= cmeta[s].term
      BY DEF MetaInv, MetaOK
    <3> QED BY <2>2, <3>1, <3>2
  <2>5. MetaOK(s, cmeta'[s], disk'[s], leader'[s], votes', led')
    <3>1. CASE disk'[s] = disk[s]
      <4>1. disk[s].voted # None => <<s, disk[s].term, disk[s].voted>> \in votes
        BY DEF MetaInv, MetaOK
      <4>2. cmeta'[s].term = t /\ cmeta'[s].voted = None
        BY <2>2 DEF NewTerm
      <4> QED BY <2>2, <2>4, <3>1, <4>1, <4>2 DEF MetaOK
    <3>2. CASE disk'[s] = NewTerm(t)
      BY <2>2, <2>4, <3>2 DEF MetaOK, NewTerm
    <3> QED BY <2>3, <3>1, <3>2
  <2>6. MetaInv'
    BY <1>3, <2>1, <2>2, <2>5 DEF MetaInv
  <2>7. ASSUME NEW a \in votes
        PROVE  disk'[a[1]].term > a[2] \/ disk'[a[1]] = Vote(a[2], a[3])
    <3>1. a[1] \in Servers /\ a[2] \in Nat
      BY <1>2
    <3>2. disk[a[1]].term > a[2] \/ disk[a[1]] = Vote(a[2], a[3])
      BY DEF VotesAreDurable
    <3>3. CASE a[1] # s \/ disk'[s] = disk[s]
      BY <2>1, <3>1, <3>2, <3>3
    <3>4. CASE a[1] = s /\ disk'[s] = NewTerm(t)
      <4>1. disk'[s].term = t
        BY <3>4 DEF NewTerm
      <4>2. disk[s].term >= a[2]
        BY <2>4, <3>1, <3>2, <3>4 DEF Vote
      <4> QED BY <2>4, <3>1, <3>4, <4>1, <4>2
    <3> QED BY <2>3, <3>3, <3>4
  <2> QED BY <2>2, <2>6, <2>7 DEF VotesAreDurable, OneVotePerTerm
<1>6. ASSUME NEW s \in Servers, NEW t \in Terms, NEW c \in Servers, NEW l \in Nobody,
             VoteShape(s, t, c, l)
      PROVE  MetaInv' /\ VotesAreDurable' /\ OneVotePerTerm' /\ votes \subseteq votes'
  <2>1. \A x \in Servers : x # s =>
           cmeta'[x] = cmeta[x] /\ disk'[x] = disk[x] /\ leader'[x] = leader[x]
    BY <1>2, <1>6 DEF VoteShape
  <2>2. cmeta'[s] = Vote(t, c) /\ disk'[s] = Vote(t, c) /\ leader'[s] = l
        /\ votes' = votes \union {<<s, t, c>>}
    BY <1>2, <1>6 DEF VoteShape
  <2>3. disk[s].term \in Nat /\ cmeta[s].term \in Nat /\ t \in Nat /\ disk[s].term <= t
    <3>1. disk[s].term \in Nat /\ cmeta[s].term \in Nat /\ t \in Nat
      BY <1>2
    <3>2. disk[s].term <= cmeta[s].term
      BY DEF MetaInv, MetaOK
    <3> QED BY <1>6, <3>1, <3>2 DEF VoteShape
  <2>4. l # None => <<l, t>> \in led'
    BY <1>3, <1>6 DEF VoteShape, MetaOK
  <2>5. MetaOK(s, cmeta'[s], disk'[s], leader'[s], votes', led')
    BY <2>2, <2>3, <2>4 DEF MetaOK, Vote
  <2>6. MetaInv'
    BY <1>3, <2>1, <2>2, <2>5 DEF MetaInv
  <2>7. ASSUME NEW a \in votes, a[1] = s
        PROVE  a[2] < t
    <3>1. a[2] \in Nat /\ a[3] # None
      BY <1>2
    <3>2. disk[s].term > a[2] \/ disk[s] = Vote(a[2], a[3])
      BY <2>7 DEF VotesAreDurable
    <3>3. CASE disk[s].term > a[2]
      BY <2>3, <3>1, <3>3
    <3>4. CASE disk[s] = Vote(a[2], a[3])
      <4>1. disk[s].term = a[2] /\ disk[s].voted = a[3]
        BY <3>4 DEF Vote
      <4>2. MetaOK(s, cmeta[s], disk[s], leader[s], votes, led)
        BY DEF MetaInv
      <4>3. cmeta[s].term = a[2] => cmeta[s].voted # None
        BY <3>1, <4>1, <4>2 DEF MetaOK
      <4> QED BY <1>6, <2>3, <3>1, <4>1, <4>2, <4>3 DEF VoteShape, MetaOK
    <3> QED BY <3>2, <3>3, <3>4
  <2>8. ASSUME NEW a \in votes'
        PROVE  disk'[a[1]].term > a[2] \/ disk'[a[1]] = Vote(a[2], a[3])
    <3>1. CASE a = <<s, t, c>>
      BY <2>2, <3>1
    <3>2. CASE a \in votes /\ a[1] = s
      BY <2>2, <2>7, <3>2, <1>2 DEF Vote
    <3>3. CASE a \in votes /\ a[1] # s
      BY <1>2, <2>1, <3>3 DEF VotesAreDurable
    <3> QED BY <2>2, <3>1, <3>2, <3>3
  <2>9. ASSUME NEW a \in votes', NEW b \in votes', a[1] = b[1], a[2] = b[2]
        PROVE  a[3] = b[3]
    <3>1. CASE a \in votes /\ b \in votes
      BY <2>9, <3>1 DEF OneVotePerTerm
    <3>2. CASE a = <<s, t, c>> /\ b = <<s, t, c>>
      BY <3>2
    <3>3. CASE a \in votes /\ b = <<s, t, c>>
      BY <1>2, <2>3, <2>7, <2>9, <3>3
    <3>4. CASE a = <<s, t, c>> /\ b \in votes
      BY <1>2, <2>3, <2>7, <2>9, <3>4
    <3> QED BY <2>2, <3>1, <3>2, <3>3, <3>4
  <2> QED BY <2>2, <2>6, <2>8, <2>9 DEF VotesAreDurable, OneVotePerTerm
<1>7. ASSUME NEW s \in Servers, NEW l \in Servers, LeaderShape(s, l)
      PROVE  MetaInv' /\ VotesAreDurable' /\ OneVotePerTerm' /\ votes \subseteq votes'
  <2>1. cmeta' = cmeta /\ disk' = disk /\ votes' = votes /\ <<l, cmeta[s].term>> \in led'
    BY <1>7 DEF LeaderShape
  <2>2. \A x \in Servers : leader'[x] = IF x = s THEN l ELSE leader[x]
    BY <1>2, <1>7 DEF LeaderShape
  <2>3. ASSUME NEW x \in Servers PROVE MetaOK(x, cmeta[x], disk[x], leader'[x], votes, led')
    BY <1>3, <2>1, <2>2 DEF MetaOK
  <2> QED BY <2>1, <2>3 DEF MetaInv, VotesAreDurable, OneVotePerTerm
<1>8. ASSUME NEW s \in Servers, RestartShape(s)
      PROVE  MetaInv' /\ VotesAreDurable' /\ OneVotePerTerm' /\ votes \subseteq votes'
  <2>1. disk' = disk /\ votes' = votes
    BY <1>8 DEF RestartShape
  <2>2. \A x \in Servers : /\ cmeta'[x] = IF x = s THEN disk[s] ELSE cmeta[x]
                           /\ leader'[x] = IF x = s THEN None ELSE leader[x]
    BY <1>2, <1>8 DEF RestartShape
  <2>3. ASSUME NEW x \in Servers PROVE MetaOK(x, cmeta'[x], disk[x], leader'[x], votes, led')
    <3>1. disk[x].term \in Nat
      BY <1>2
    <3>2. MetaOK(x, cmeta[x], disk[x], leader[x], votes, led')
      BY <1>3
    <3> QED BY <2>2, <3>1, <3>2 DEF MetaOK
  <2> QED BY <2>1, <2>3 DEF MetaInv, VotesAreDurable, OneVotePerTerm
<1> QED BY <1>4, <1>5, <1>6, <1>7, <1>8 DEF Shape, MetaShape

\* A shaped step keeps every counted vote in the history.
LEMMA ShapeElections ==
    ASSUME TypeOK, ElectionInv, LedInv, Shape, votes \subseteq votes'
    PROVE  ElectionInv' /\ LedInv'
<1>1. ElectionInv'
  <2> SUFFICES ASSUME NEW e \in Elections, election'[e] # NoElection
               PROVE  ElectionOK(election'[e], votes')
    BY DEF ElectionInv, Running
  <2>1. CASE election'[e] = election[e]
    <3>1. election[e] \in Election /\ ElectionOK(election[e], votes)
      BY <2>1 DEF TypeOK, ElectionInv, Running
    <3> QED BY <2>1, <3>1, ElectionOKGrows
  <2> QED BY <2>1 DEF Shape, ElectionShape
<1>2. LedInv'
  <2> SUFFICES ASSUME NEW lt \in led'
               PROVE  \E Q \in SUBSET Servers : ElectedBy(Q, lt[1], lt[2], votes')
    BY DEF LedInv
  <2>1. PICK Q \in SUBSET Servers : ElectedBy(Q, lt[1], lt[2], votes)
    BY DEF Shape, LedShape, LedInv
  <2>2. ElectedBy(Q, lt[1], lt[2], votes')
    BY <2>1 DEF ElectedBy
  <2> QED BY <2>2
<1> QED BY <1>1, <1>2

-----------------------------------------------------------------------------
(***************************************************************************)
(* Every step has such a shape.                                            *)
(***************************************************************************)
\* The terms of the servers are terms, and a server is not None.
LEMMA TypeFacts ==
    ASSUME TypeOK
    PROVE  /\ \A s \in Servers : cmeta[s].term \in Terms /\ disk[s].term \in Terms
           /\ Terms \subseteq Nat
           /\ None \notin Servers
           /\ None \in Nobody /\ Servers \subseteq Nobody
           /\ \A e \in Running : election[e] \in Election
BY ElectionAssumption DEF TypeOK, Terms, Nobody, Running

\* A step that leaves the term, the vote and the leader of every server alone.
LEMMA UnchangedMeta == TypeOK /\ UNCHANGED metaVars => MetaShape /\ votes' = votes
BY DEF TypeOK, metaVars, MetaShape, KeepShape

\* HandleTermAdvanceUnlocked() with a higher term, flushed or not.
LEMMA TermAdvance ==
    ASSUME TypeOK, NEW s \in Servers, NEW t \in Terms, t > cmeta[s].term,
           HandleTermAdvance(s, t), Flush(s) \/ UNCHANGED disk, UNCHANGED votes
    PROVE  MetaShape
<1>1. withhold' \in [Servers -> BOOLEAN]
  <2>1. WithholdAfterAdvance(s) \in BOOLEAN
    BY DEF WithholdAfterAdvance
  <2> QED BY <2>1 DEF TypeOK, HandleTermAdvance
<1>2. cmeta'[s] = NewTerm(t)
  BY DEF TypeOK, HandleTermAdvance
<1>3. disk' = disk \/ disk' = [disk EXCEPT ![s] = NewTerm(t)]
  BY <1>2 DEF Flush
<1>4. AdvanceShape(s, t, None)
  BY <1>3 DEF AdvanceShape, HandleTermAdvance
<1> QED BY <1>1, <1>4, TypeFacts DEF MetaShape

\* RequestVote() grants a real vote only if the vote is recorded.
LEMMA RequestVoteShape ==
    ASSUME TypeOK, MetaInv,
           NEW v \in Servers, NEW c \in Servers, NEW t \in Terms, NEW pre \in BOOLEAN, NEW resp,
           RequestVote(v, c, t, pre, resp)
    PROVE  /\ MetaShape
           /\ ~pre /\ resp.granted => <<v, t, c>> \in votes'
<1>1. CASE UNCHANGED metaVars /\ resp = [from |-> v, granted |-> FALSE, term |-> cmeta[v].term]
  BY <1>1, UnchangedMeta
<1>2. CASE UNCHANGED metaVars /\ HasVoted(v, t)
           /\ resp = [from |-> v, granted |-> cmeta[v].voted = c, term |-> t]
  <2>1. MetaShape /\ votes' = votes
    BY <1>2, UnchangedMeta
  <2>2. resp.granted => cmeta[v].voted = c
    BY <1>2
  <2>3. cmeta[v].term = t /\ cmeta[v].voted # None
    BY <1>2 DEF HasVoted
  <2>4. <<v, cmeta[v].term, cmeta[v].voted>> \in votes
    BY <2>3 DEF MetaInv, MetaOK
  <2> QED BY <2>1, <2>2, <2>3, <2>4
<1>3. CASE UNCHANGED metaVars /\ pre
  BY <1>3, UnchangedMeta
<1>4. CASE /\ t >= cmeta[v].term /\ ~HasVoted(v, t)
           /\ RecordVote(v, c, t) /\ LeaderAfterVote(v, t)
  <2>1. cmeta'[v] = Vote(t, c)
    BY <1>4 DEF RecordVote, TypeOK
  <2>2. t > cmeta[v].term \/ (t = cmeta[v].term /\ cmeta[v].voted = None)
    BY <1>4, TypeFacts DEF HasVoted
  <2>3. PICK l \in Nobody : /\ l = None \/ (l = leader[v] /\ t = cmeta[v].term)
                            /\ leader' = [leader EXCEPT ![v] = l]
    <3>1. CASE t > cmeta[v].term
      BY <1>4, <3>1, TypeFacts DEF LeaderAfterVote
    <3>2. CASE t = cmeta[v].term
      <4>1. leader[v] \in Nobody
        BY DEF TypeOK, Nobody
      <4>2. ~(t > cmeta[v].term)
        BY <3>2, TypeFacts
      <4>3. leader' = [leader EXCEPT ![v] = leader[v]]
        BY <1>4, <4>2 DEF LeaderAfterVote
      <4> QED BY <3>2, <4>1, <4>3
    <3> QED BY <2>2, <3>1, <3>2
  <2>4. VoteShape(v, t, c, l)
    BY <1>4, <2>1, <2>2, <2>3 DEF VoteShape, RecordVote, Flush
  <2>5. withhold' \in [Servers -> BOOLEAN]
    <3>1. (withhold[v] /\ ~(t > cmeta[v].term /\ IsLeader(v))) \in BOOLEAN
      OBVIOUS
    <3> QED BY <1>4, <3>1 DEF LeaderAfterVote, TypeOK
  <2>6. <<v, t, c>> \in votes'
    BY <2>4 DEF VoteShape
  <2> QED BY <2>4, <2>5, <2>6 DEF MetaShape
<1>5. CASE /\ t > cmeta[v].term /\ resp = [from |-> v, granted |-> FALSE, term |-> t]
           /\ HandleTermAdvance(v, t) /\ Flush(v) /\ UNCHANGED votes
  BY <1>5, TermAdvance
<1>6. CASE UNCHANGED metaVars /\ resp = [from |-> v, granted |-> FALSE, term |-> t]
  BY <1>6, UnchangedMeta
<1> QED BY <1>1, <1>2, <1>3, <1>4, <1>5, <1>6 DEF RequestVote

\* An election e that goes on as el, or ends.
LEMMA OneElectionChanges ==
    ASSUME TypeOK, NEW e \in Elections, NEW el \in Election \union {NoElection},
           election' = [election EXCEPT ![e] = el],
           el = NoElection \/ el = election[e] \/ ElectionOK(el, votes')
    PROVE  ElectionShape
<1>1. election \in [Elections -> Election \union {NoElection}]
  BY DEF TypeOK
<1>2. election' \in [Elections -> Election \union {NoElection}]
  BY <1>1
<1>3. \A f \in Elections : election'[f] = IF f = e THEN el ELSE election[f]
  BY <1>1
<1> QED BY <1>2, <1>3 DEF ElectionShape

LEMMA SameElections == TypeOK /\ UNCHANGED election => ElectionShape
BY DEF TypeOK, ElectionShape

LEMMA SameLed == TypeOK /\ UNCHANGED led => LedShape
BY DEF TypeOK, LedShape

LEMMA SameOther == TypeOK /\ UNCHANGED <<procVars, notices>> => OtherShape
BY DEF TypeOK, OtherShape, procVars

\* A new election has the candidate's own vote.
LEMMA NewElectionOK ==
    ASSUME NEW s \in Servers, NEW t \in Terms, NEW pre \in BOOLEAN, NEW ignore \in BOOLEAN,
           NEW V, ~pre => <<s, t, s>> \in V
    PROVE  /\ CheckForDecision(NewElection(s, t, pre, ignore)) \in Election
           /\ ElectionOK(CheckForDecision(NewElection(s, t, pre, ignore)), V)
<1> DEFINE el == NewElection(s, t, pre, ignore)
<1>1. 0 \in Terms
  BY ElectionAssumption DEF Terms
<1>2. el \in Election
  BY <1>1 DEF NewElection, Election
<1>3. Supported(el, V) /\ el.result = "none"
  BY DEF NewElection, Supported
<1> QED BY <1>2, <1>3, CheckForDecisionOK

\* StartElection(): the new term and the vote for itself are one flushed vote.
LEMMA StartRealElectionShape ==
    ASSUME IInv, NEW s \in Servers, NEW e \in Elections, NEW ignore \in BOOLEAN,
           StartRealElection(s, e, ignore)
    PROVE  Shape
<1> DEFINE t == cmeta[s].term + 1
<1> USE DEF IInv
<1>1. t \in Terms /\ t > cmeta[s].term
  BY TypeFacts, ElectionAssumption DEF StartRealElection, Terms
<1>2. /\ cmeta' = [cmeta EXCEPT ![s] = Vote(t, s)] /\ disk' = [disk EXCEPT ![s] = cmeta'[s]]
      /\ leader' = [leader EXCEPT ![s] = None] /\ votes' = votes \union {<<s, t, s>>}
      /\ election' = [election EXCEPT ![e] = CheckForDecision(NewElection(s, t, FALSE, ignore))]
      /\ UNCHANGED <<withhold, procVars, notices, led>>
  BY DEF StartRealElection, Flush
<1> HIDE DEF t
<1>3. cmeta'[s] = Vote(t, s)
  BY <1>2 DEF TypeOK
<1>4. VoteShape(s, t, s, None)
  BY <1>1, <1>2, <1>3 DEF VoteShape
<1>5. MetaShape
  BY <1>1, <1>2, <1>4, TypeFacts DEF MetaShape, TypeOK
<1>6. ElectionShape
  BY <1>1, <1>2, NewElectionOK, OneElectionChanges
<1> QED BY <1>2, <1>5, <1>6, SameLed, SameOther DEF Shape

LEMMA StartPreElectionShape ==
    ASSUME IInv, NEW s \in Servers, NEW e \in Elections, StartPreElection(s, e)
    PROVE  Shape
<1> DEFINE t == cmeta[s].term + 1
<1> USE DEF IInv
<1>1. t \in Terms
  BY TypeFacts, ElectionAssumption DEF StartPreElection, Terms
<1>2. /\ election' = [election EXCEPT ![e] = CheckForDecision(NewElection(s, t, TRUE, FALSE))]
      /\ UNCHANGED <<metaVars, procVars, notices, led>>
  BY DEF StartPreElection
<1> HIDE DEF t
<1>3. ElectionShape
  BY <1>1, <1>2, NewElectionOK, OneElectionChanges
<1> QED BY <1>2, <1>3, UnchangedMeta, SameLed, SameOther DEF Shape

\* VoteResponseRpcCallback(): what is counted was voted.
LEMMA VoteResponseShape ==
    ASSUME IInv, NEW e \in Elections, NEW r, VoteResponse(e, r)
    PROVE  Shape
<1> USE DEF IInv
<1> DEFINE el == election[e]
           next == HandleResponse(el, r)
<1>1. el \in Election /\ ElectionOK(el, votes) /\ r \in el.responses
  BY TypeFacts DEF VoteResponse, ElectionInv
<1>2. r \in Response /\ el.result = "none"
  BY <1>1 DEF Election, ElectionOK
<1>3. Larger(el.highest, r.term) \in Terms
  BY <1>1, <1>2 DEF Larger, Election, Response
<1>4. next \in Election /\ Supported(next, votes) /\ next.result \in {"none", "lost"}
  <2>1. r.from \in Servers /\ r.granted \in BOOLEAN
    BY <1>2 DEF Response
  <2>2. CASE r.granted
    BY <1>1, <1>2, <1>3, <2>1, <2>2 DEF HandleResponse, Election, Supported, ElectionOK
  <2>3. CASE ~r.granted /\ r.term > el.term
    BY <1>1, <1>2, <1>3, <2>1, <2>3 DEF HandleResponse, Election, Supported, ElectionOK
  <2>4. CASE ~r.granted /\ ~(r.term > el.term)
    BY <1>1, <1>2, <1>3, <2>1, <2>4 DEF HandleResponse, Election, Supported, ElectionOK
  <2> QED BY <2>2, <2>3, <2>4
<1>5. election' = [election EXCEPT ![e] = CheckForDecision(next)]
      /\ UNCHANGED <<metaVars, procVars, notices, led>>
  BY DEF VoteResponse, UpdateElection
<1> HIDE DEF next
<1>6. MetaShape /\ votes' = votes
  BY <1>5, UnchangedMeta
<1>7. ElectionShape
  BY <1>4, <1>5, <1>6, CheckForDecisionOK, OneElectionChanges
<1> QED BY <1>5, <1>6, <1>7, SameLed, SameOther DEF Shape

LEMMA VoteRpcFailedShape ==
    ASSUME IInv, NEW e \in Elections, NEW v \in Servers, VoteRpcFailed(e, v)
    PROVE  Shape
<1> USE DEF IInv
<1> DEFINE el == election[e]
           next == [el EXCEPT !.asked = @ \ {v}, !.responses = {r \in @ : r.from # v},
                              !.no = @ \union {v}]
<1>1. el \in Election /\ ElectionOK(el, votes)
  BY TypeFacts DEF VoteRpcFailed, ElectionInv
<1>2. el.result = "none"
  BY <1>1 DEF VoteRpcFailed, Election, ElectionOK
<1>3. next \in Election /\ Supported(next, votes) /\ next.result \in {"none", "lost"}
  BY <1>1, <1>2 DEF Election, ElectionOK, Supported
<1>4. election' = [election EXCEPT ![e] = CheckForDecision(next)]
      /\ UNCHANGED <<metaVars, procVars, notices, led>>
  BY DEF VoteRpcFailed, UpdateElection
<1> HIDE DEF next
<1>5. MetaShape /\ votes' = votes
  BY <1>4, UnchangedMeta
<1>6. ElectionShape
  BY <1>3, <1>4, <1>5, CheckForDecisionOK, OneElectionChanges
<1> QED BY <1>4, <1>5, <1>6, SameLed, SameOther DEF Shape

\* A delivered request is answered with a recorded vote or without one.
LEMMA DeliverVoteRequestShape ==
    ASSUME IInv, NEW e \in Elections, NEW v \in Servers, DeliverVoteRequest(e, v)
    PROVE  Shape
<1> USE DEF IInv
<1> DEFINE el == election[e]
<1>1. el \in Election /\ ElectionOK(el, votes) /\ v \in el.asked
      /\ UNCHANGED <<procVars, notices, led>>
  BY TypeFacts DEF DeliverVoteRequest, ElectionInv
<1>2. el.result = "none" /\ el.cand \in Servers /\ el.term \in Terms /\ el.pre \in BOOLEAN
  BY <1>1 DEF Election, ElectionOK
<1>3. PICK resp \in [from : {v}, granted : BOOLEAN, term : Terms] :
         /\ RequestVote(v, el.cand, el.term, el.pre, resp) \/ RefuseVote(v, resp)
         /\ election' = [election EXCEPT ![e] =
                [el EXCEPT !.asked = @ \ {v}, !.responses = @ \union {resp}]]
  BY DEF DeliverVoteRequest
<1>4. /\ MetaShape
      /\ ~el.pre /\ resp.granted => <<v, el.term, el.cand>> \in votes'
  <2>1. CASE RequestVote(v, el.cand, el.term, el.pre, resp)
    BY <1>2, <2>1, RequestVoteShape
  <2>2. CASE RefuseVote(v, resp)
    BY <2>2, UnchangedMeta DEF RefuseVote
  <2> QED BY <1>3, <2>1, <2>2
<1> DEFINE next == [el EXCEPT !.asked = @ \ {v}, !.responses = @ \union {resp}]
<1>5. votes \subseteq votes'
  BY <1>4 DEF MetaShape, KeepShape, AdvanceShape, VoteShape, LeaderShape, RestartShape
<1>6. next \in Election
  BY <1>1 DEF Election, Response
<1>7. ElectionOK(next, votes')
  <2>1. resp.from = v
    OBVIOUS
  <2>2. next.yes = el.yes /\ next.responses = el.responses \union {resp} /\ next.pre = el.pre
        /\ next.term = el.term /\ next.cand = el.cand /\ next.result = el.result
    BY <1>1 DEF Election
  <2> QED BY <1>1, <1>2, <1>4, <1>5, <2>1, <2>2 DEF ElectionOK, Supported
<1>8. election' = [election EXCEPT ![e] = next]
  BY <1>3
<1> HIDE DEF next
<1>9. ElectionShape
  BY <1>6, <1>7, <1>8, OneElectionChanges
<1> QED BY <1>1, <1>4, <1>9, SameLed, SameOther DEF Shape

LEMMA DeliverLateRequestShape ==
    ASSUME IInv, NEW v \in Servers, NEW b \in votes, DeliverLateRequest(v, b[1], b[2])
    PROVE  Shape
<1> USE DEF IInv
<1>1. b[1] \in Servers /\ b[2] \in Terms
  BY DEF TypeOK
<1>2. PICK resp : RequestVote(v, b[1], b[2], FALSE, resp)
  BY DEF DeliverLateRequest
<1>3. MetaShape
  BY <1>1, <1>2, RequestVoteShape
<1> QED BY <1>3, SameElections, SameLed, SameOther DEF Shape, DeliverLateRequest

\* The callbacks (DoElectionCallback).
LEMMA ElectionLostShape ==
    ASSUME IInv, NEW e \in Elections, ElectionLost(e)
    PROVE  Shape
<1> USE DEF IInv
<1> DEFINE s == election[e].cand
           t == election[e].highest
<1>1. s \in Servers /\ t \in Terms
  BY TypeFacts DEF ElectionLost, Election
<1>2. MetaShape
  <2>1. CASE t > cmeta[s].term
    <3>1. HandleTermAdvance(s, t) /\ Flush(s) /\ UNCHANGED votes
      BY <2>1 DEF ElectionLost
    <3> QED BY <1>1, <2>1, <3>1, TermAdvance
  <2>2. CASE ~(t > cmeta[s].term)
    BY <2>2, UnchangedMeta DEF ElectionLost
  <2> QED BY <2>1, <2>2
<1>3. ElectionShape
  BY OneElectionChanges DEF ElectionLost
<1> QED BY <1>2, <1>3, SameLed, SameOther DEF Shape, ElectionLost

LEMMA PreElectionWonShape ==
    ASSUME IInv, NEW e \in Elections, PreElectionWon(e)
    PROVE  Shape
<1> USE DEF IInv
<1> DEFINE el == election[e]
           restart == [el EXCEPT !.result = "restart"]
<1>1. el \in Election /\ ElectionOK(el, votes) /\ el.result = "won"
  BY TypeFacts DEF PreElectionWon, ElectionInv
<1>2. restart \in Election /\ ElectionOK(restart, votes)
  BY <1>1 DEF Election, ElectionOK, Supported
<1>3. MetaShape /\ votes' = votes
  BY UnchangedMeta DEF PreElectionWon
<1>4. PICK next \in {NoElection, restart} : election' = [election EXCEPT ![e] = next]
  <2>1. CASE IsDefunct(el) \/ IsLeader(el.cand)
    BY <2>1 DEF PreElectionWon
  <2>2. CASE ~(IsDefunct(el) \/ IsLeader(el.cand))
    BY <2>2 DEF PreElectionWon
  <2> QED BY <2>1, <2>2
<1> HIDE DEF restart
<1>5. ElectionShape
  BY <1>2, <1>3, <1>4, OneElectionChanges
<1> QED BY <1>3, <1>5, SameLed, SameOther DEF Shape, PreElectionWon

LEMMA AfterPreElectionShape ==
    ASSUME IInv, NEW e \in Elections, StartElectionAfterPreElection(e)
    PROVE  Shape
<1> USE DEF IInv
<1>1. election[e].cand \in Servers
  BY TypeFacts DEF StartElectionAfterPreElection, Election
<1>2. CASE StartRealElection(election[e].cand, e, FALSE)
  BY <1>1, <1>2, StartRealElectionShape
<1>3. CASE /\ election' = [election EXCEPT ![e] = NoElection]
           /\ UNCHANGED <<metaVars, procVars, notices, led>>
  BY <1>3, UnchangedMeta, OneElectionChanges, SameLed, SameOther DEF Shape
<1> QED BY <1>2, <1>3 DEF StartElectionAfterPreElection

\* The winner of a real election has its majority.
LEMMA ElectionWonShape ==
    ASSUME IInv, NEW e \in Elections, ElectionWon(e)
    PROVE  Shape
<1> USE DEF IInv
<1> DEFINE el == election[e]
           s == el.cand
<1>1. /\ el \in Election /\ ElectionOK(el, votes) /\ el.result = "won" /\ ~el.pre
      /\ election' = [election EXCEPT ![e] = NoElection]
      /\ UNCHANGED <<cmeta, disk, votes, procVars, notices>>
  BY TypeFacts DEF ElectionWon, ElectionInv
<1>2. s \in Servers /\ el.term \in Terms /\ el.yes \in SUBSET Servers
  BY <1>1 DEF Election
<1>3. ElectedBy(el.yes, s, el.term, votes)
  BY <1>1 DEF ElectionOK, Supported, ElectedBy
<1>4. ElectionShape
  BY <1>1, OneElectionChanges
<1>5. CASE IsDefunct(el)
  <2>1. UNCHANGED <<leader, withhold, led>>
    BY <1>5 DEF ElectionWon
  <2> QED BY <1>1, <1>4, <2>1, UnchangedMeta, SameLed, SameOther DEF Shape, metaVars
<1>6. CASE ~IsDefunct(el)
  <2>1. /\ leader' = [leader EXCEPT ![s] = s] /\ withhold' = [withhold EXCEPT ![s] = TRUE]
        /\ led' = led \union {<<s, el.term>>}
    BY <1>6 DEF ElectionWon
  <2>2. el.term = cmeta[s].term
    BY <1>1, <1>6 DEF IsDefunct, StartedInTerm
  <2>3. LeaderShape(s, s)
    BY <1>1, <2>1, <2>2 DEF LeaderShape
  <2>4. MetaShape
    BY <1>2, <2>1, <2>3 DEF MetaShape, TypeOK
  <2>5. LedShape
    <3>1. led' \subseteq Servers \X Terms /\ led \subseteq led'
      BY <1>2, <2>1 DEF TypeOK
    <3>2. \A lt \in led' : lt \in led \/ (lt[1] = s /\ lt[2] = el.term)
      BY <2>1
    <3> QED BY <1>2, <1>3, <3>1, <3>2 DEF LedShape
  <2> QED BY <1>1, <1>4, <2>4, <2>5, SameOther DEF Shape
<1> QED BY <1>5, <1>6

\* A request of a leader (UpdateReplica, CheckLeaderRequestUnlocked).
LEMMA UpdateReplicaShape ==
    ASSUME IInv, NEW s \in Servers, NEW lt \in led, UpdateReplica(s, lt[1], lt[2])
    PROVE  Shape
<1> USE DEF IInv
<1> DEFINE l == lt[1]
           t == lt[2]
<1>1. l \in Servers /\ t \in Terms /\ <<l, t>> \in led /\ cmeta[s].term \in Terms
  <2>1. <<l, t>> \in led
    BY DEF UpdateReplica
  <2>2. led \subseteq Servers \X Terms
    BY DEF TypeOK
  <2> QED BY <2>1, <2>2, TypeFacts
<1>2. UNCHANGED <<procVars, election, led>>
  BY DEF UpdateReplica
<1>3. up' = up /\ crashes' = crashes /\ ElectionShape /\ LedShape
  BY <1>2, SameElections, SameLed DEF procVars
<1>4. CASE notices' = notices \union {<<l, cmeta[s].term>>} /\ UNCHANGED metaVars
  <2>1. OtherShape
    BY <1>1, <1>3, <1>4 DEF OtherShape, TypeOK
  <2> QED BY <1>3, <1>4, <2>1, UnchangedMeta DEF Shape
<1>5. ASSUME t > cmeta[s].term, cmeta' = [cmeta EXCEPT ![s] = NewTerm(t)], Flush(s),
             NEW matches \in BOOLEAN,
             leader' = [leader EXCEPT ![s] = IF matches THEN l ELSE None],
             withhold' = [withhold EXCEPT ![s] = matches \/ WithholdAfterAdvance(s)],
             UNCHANGED <<votes, notices>>
      PROVE  Shape
  <2>1. cmeta'[s] = NewTerm(t)
    BY <1>5 DEF TypeOK
  <2>2. PICK k \in Nobody : k \in {l, None} /\ leader' = [leader EXCEPT ![s] = k]
    BY <1>1, <1>5, TypeFacts
  <2>3. AdvanceShape(s, t, k)
    BY <1>1, <1>5, <2>1, <2>2 DEF AdvanceShape, Flush
  <2>4. withhold' \in [Servers -> BOOLEAN]
    <3>1. (matches \/ WithholdAfterAdvance(s)) \in BOOLEAN
      BY DEF WithholdAfterAdvance
    <3> QED BY <1>5, <3>1 DEF TypeOK
  <2>5. MetaShape
    BY <1>1, <2>3, <2>4 DEF MetaShape
  <2> QED BY <1>2, <1>3, <1>5, <2>5, SameOther DEF Shape
<1>6. CASE /\ t = cmeta[s].term /\ leader' = [leader EXCEPT ![s] = l]
           /\ withhold' = [withhold EXCEPT ![s] = TRUE]
           /\ UNCHANGED <<cmeta, disk, votes, notices>>
  <2>1. LeaderShape(s, l)
    BY <1>1, <1>2, <1>6 DEF LeaderShape
  <2>2. MetaShape
    BY <1>1, <1>6, <2>1 DEF MetaShape, TypeOK
  <2> QED BY <1>2, <1>3, <1>6, <2>2, SameOther DEF Shape
<1> QED BY <1>4, <1>5, <1>6 DEF UpdateReplica

LEMMA NotifyTermChangeShape ==
    ASSUME IInv, NEW n \in notices, NotifyTermChange(n[1], n[2])
    PROVE  Shape
<1> USE DEF IInv
<1>1. n[1] \in Servers /\ n[2] \in Terms
  BY DEF TypeOK
<1>2. MetaShape
  <2>1. CASE n[2] > cmeta[n[1]].term
    <3>1. HandleTermAdvance(n[1], n[2]) /\ Flush(n[1]) /\ UNCHANGED votes
      BY <2>1 DEF NotifyTermChange
    <3> QED BY <1>1, <2>1, <3>1, TermAdvance
  <2>2. CASE ~(n[2] > cmeta[n[1]].term)
    BY <2>2, UnchangedMeta DEF NotifyTermChange
  <2> QED BY <2>1, <2>2
<1>3. OtherShape
  BY DEF NotifyTermChange, OtherShape, procVars, TypeOK
<1> QED BY <1>2, <1>3, SameElections, SameLed DEF Shape, NotifyTermChange

LEMMA StepDownShape ==
    ASSUME IInv, NEW s \in Servers, StepDown(s)
    PROVE  Shape
<1> USE DEF IInv
<1>1. cmeta[s].term + 1 \in Terms /\ cmeta[s].term + 1 > cmeta[s].term
  BY TypeFacts, ElectionAssumption DEF StepDown, Terms
<1>2. MetaShape
  BY <1>1, TermAdvance DEF StepDown
<1> QED BY <1>2, SameElections, SameLed, SameOther DEF Shape, StepDown

LEMMA WithholdExpiresShape ==
    ASSUME IInv, NEW s \in Servers, WithholdExpires(s)
    PROVE  Shape
<1> USE DEF IInv
<1>1. MetaShape
  BY DEF WithholdExpires, MetaShape, KeepShape, TypeOK
<1> QED BY <1>1, SameElections, SameLed, SameOther DEF Shape, WithholdExpires

LEMMA CrashShape ==
    ASSUME IInv, NEW s \in Servers, Crash(s)
    PROVE  Shape
<1> USE DEF IInv
<1>1. MetaShape
  BY UnchangedMeta DEF Crash
<1>2. ElectionShape
  BY DEF Crash, ElectionShape, TypeOK
<1>3. OtherShape
  BY DEF Crash, OtherShape, TypeOK
<1> QED BY <1>1, <1>2, <1>3, SameLed DEF Shape, Crash

LEMMA RestartShapes ==
    ASSUME IInv, NEW s \in Servers, Restart(s)
    PROVE  Shape
<1> USE DEF IInv
<1>1. MetaShape
  BY DEF Restart, RestartShape, MetaShape, TypeOK
<1>2. OtherShape
  BY DEF Restart, OtherShape, TypeOK
<1> QED BY <1>1, <1>2, SameElections, SameLed DEF Shape, Restart

LEMMA NextShape == IInv /\ [ElectionNext]_electionVars => Shape
<1> SUFFICES ASSUME IInv, [ElectionNext]_electionVars PROVE Shape
  OBVIOUS
<1>1. ASSUME NEW s \in Servers, NEW e \in Elections, ReportFailureDetected(s, e) PROVE Shape
  <2>1. CASE StartPreElection(s, e)
    BY <2>1, StartPreElectionShape
  <2>2. CASE StartRealElection(s, e, FALSE)
    BY <2>2, StartRealElectionShape
  <2> QED BY <1>1, <2>1, <2>2 DEF ReportFailureDetected
<1>2. ASSUME NEW s \in Servers, NEW e \in Elections, RunLeaderElection(s, e) PROVE Shape
  BY <1>2, StartRealElectionShape DEF RunLeaderElection
<1>3. ASSUME NEW e \in Elections, ElectionStep(e) PROVE Shape
  <2>1. CASE \E v \in Servers : DeliverVoteRequest(e, v)
    BY <2>1, DeliverVoteRequestShape
  <2>2. CASE \E v \in Servers : VoteRpcFailed(e, v)
    BY <2>2, VoteRpcFailedShape
  <2>3. CASE \E r \in election[e].responses : VoteResponse(e, r)
    BY <2>3, VoteResponseShape
  <2>4. CASE ElectionLost(e) \/ PreElectionWon(e) \/ StartElectionAfterPreElection(e) \/ ElectionWon(e)
    BY <2>4, ElectionLostShape, PreElectionWonShape, AfterPreElectionShape, ElectionWonShape
  <2> QED BY <1>3, <2>1, <2>2, <2>3, <2>4 DEF ElectionStep
<1>4. ASSUME NEW v \in Servers, NEW b \in votes, DeliverLateRequest(v, b[1], b[2]) PROVE Shape
  BY <1>4, DeliverLateRequestShape
<1>5. ASSUME NEW s \in Servers, NEW lt \in led, UpdateReplica(s, lt[1], lt[2]) PROVE Shape
  BY <1>5, UpdateReplicaShape
<1>6. ASSUME NEW n \in notices, NotifyTermChange(n[1], n[2]) PROVE Shape
  BY <1>6, NotifyTermChangeShape
<1>7. ASSUME NEW s \in Servers, StepDown(s) \/ WithholdExpires(s) \/ Crash(s) \/ Restart(s)
      PROVE  Shape
  BY <1>7, StepDownShape, WithholdExpiresShape, CrashShape, RestartShapes
<1>8. CASE UNCHANGED electionVars
  BY <1>8, UnchangedMeta, SameElections, SameLed, SameOther
     DEF electionVars, metaVars, procVars, Shape, IInv
<1> QED BY <1>1, <1>2, <1>3, <1>4, <1>5, <1>6, <1>7, <1>8 DEF ElectionNext

-----------------------------------------------------------------------------
LEMMA InitInv == ElectionInit => IInv
<1> SUFFICES ASSUME ElectionInit PROVE IInv
  OBVIOUS
<1>1. 0 \in Terms
  BY ElectionAssumption DEF Terms
<1>2. TypeOK
  BY <1>1 DEF ElectionInit, TypeOK, NewTerm
<1>3. MetaInv
  BY DEF ElectionInit, MetaInv, MetaOK, NewTerm
<1> QED BY <1>2, <1>3
     DEF ElectionInit, IInv, VotesAreDurable, OneVotePerTerm, ElectionInv, LedInv, Running

\* The invariant of the argument holds in every reachable state.
THEOREM ElectionInvariant == Spec => []IInv
<1>1. IInv /\ [ElectionNext]_electionVars => IInv'
  BY NextShape, ShapeType, ShapeMeta, ShapeElections DEF IInv
<1> QED BY <1>1, InitInv, PTL DEF Spec

\* Every variable keeps its type, for every value of the constants.
THEOREM ElectionTypeCorrect == Spec => []TypeOK
<1>1. IInv => TypeOK
  BY DEF IInv
<1> QED BY <1>1, ElectionInvariant, PTL

\* At most one server becomes leader in a term (RequestVote, DoElectionCallback).
THEOREM AtMostOneLeader == Spec => []ElectionSafety
<1>1. IInv => ElectionSafety
  BY OneLeader DEF IInv
<1> QED BY <1>1, ElectionInvariant, PTL

\* A server votes once in a term, across restarts
\* (SetVotedForCurrentTermUnlocked).
THEOREM VotesOnce == Spec => []OneVotePerTerm
<1>1. IInv => OneVotePerTerm
  BY DEF IInv
<1> QED BY <1>1, ElectionInvariant, PTL

\* A vote is on disk before it is given (ConsensusMetadata::Flush).
THEOREM VotesStayOnDisk == Spec => []VotesAreDurable
<1>1. IInv => VotesAreDurable
  BY DEF IInv
<1> QED BY <1>1, ElectionInvariant, PTL

\* LOG(FATAL) "Unexpected new leader in same term!" is unreachable
\* (CheckLeaderRequestUnlocked).
THEOREM LeaderIsExpected == Spec => []NoUnexpectedLeader
<1>1. IInv => NoUnexpectedLeader
  <2> SUFFICES ASSUME IInv, NEW s \in Servers, leader[s] # None
               PROVE  /\ <<leader[s], cmeta[s].term>> \in led
                      /\ \A lt \in led : lt[2] = cmeta[s].term => lt[1] = leader[s]
    BY DEF NoUnexpectedLeader
  <2>1. <<leader[s], cmeta[s].term>> \in led
    BY DEF IInv, MetaInv, MetaOK
  <2>2. ElectionSafety
    BY OneLeader DEF IInv
  <2> QED BY <2>1, <2>2 DEF ElectionSafety
<1> QED BY <1>1, ElectionInvariant, PTL
=============================================================================
