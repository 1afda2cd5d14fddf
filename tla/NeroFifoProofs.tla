--------------------------- MODULE NeroFifoProofs ---------------------------
(***************************************************************************)
(* On the connections of NeroFifo no first vote is lost and no second vote *)
(* comes too early.  NeroFifo only narrows which votes NeroCore may handle *)
(* next (FifoRefines), so all that is proved about Spec holds here.        *)
(***************************************************************************)
EXTENDS NeroFifo, NeroSafetyProofs

TakenType == taken \in [Node -> [Node -> [Election -> 0 .. MaxRound]]]

\* A step over connections is a step of the cores, or none.
LEMMA FifoStep == [FifoNext]_fifoVars => [Next]_vars
<1> SUFFICES ASSUME FifoNext
             PROVE  [Next]_vars
  BY DEF fifoVars, vars
<1>1. ASSUME NEW n \in Node, NEW e \in Election, TakeTransaction(n, e)
      PROVE  Next
  BY <1>1 DEF TakeTransaction, Next
<1>2. ASSUME NEW n \in Node, NEW m \in Node, NEW e \in Election, Deliver(n, m, e)
      PROVE  Next
  BY <1>2 DEF Deliver, NextVotes, Next
<1>3. ASSUME NEW n \in Node, NEW m \in Node, Reconnect(n, m)
      PROVE  UNCHANGED vars
  BY <1>3 DEF Reconnect
<1> QED BY <1>1, <1>2, <1>3 DEF FifoNext

LEMMA FifoRefines == FifoSpec => Spec
<1>1. FifoInit => Init
  BY DEF FifoInit
<1> QED BY <1>1, FifoStep, PTL DEF FifoSpec, Spec
-----------------------------------------------------------------------------
\* What a node validated it keeps.
LEMMA NothingForgotten ==
    ASSUME Inv, [Next]_vars, NEW n \in Node, NEW e \in Election, NEW r \in Round
    PROVE  Validated(n, e, r) \subseteq Validated(n, e, r)'
<1>1. CASE UNCHANGED vars
  BY <1>1 DEF vars, Validated
<1>2. ASSUME NEW m, NEW f, NEW q, NEW heard, NEW own, NEW cast,
             Shape(m, f, q, heard, own, cast)
      PROVE  Validated(n, e, r) \subseteq Validated(n, e, r)'
  BY <1>2, ShapeFacts
<1> QED BY <1>1, <1>2, StepShape

\* A vote of round 0 that is handled is counted, unless one of its signer was.
LEMMA FirstVoteCounted ==
    ASSUME Inv, NEW n \in Node, NEW v \in msgs, v.round = 0, HandleVote(n, v)
    PROVE  \E w \in Validated(n, v.election_hash, 0)' : w.signer = v.signer
<1> DEFINE e == v.election_hash
<1>1. /\ ViewInv /\ TypeOK /\ OwnVotesKept /\ v \in Vote /\ v.vote_type = "InitialVote"
      /\ e \in Election /\ 0 \in Round
  BY VoteFacts, BoundAssumption DEF Inv, ViewInv, VotesInv, TypeOK, StartsInitial, Round
<1>2. CASE Digest(v) \in Hashes(elections[n][e].state[v.round])
  <2>1. \E w \in Validated(n, e, 0) : w.signer = v.signer
    BY <1>2 DEF Hashes, Digest, Validated
  <2>2. Next
    BY DEF Next
  <2> QED BY <1>1, <2>1, <2>2, NothingForgotten
<1>3. CASE Digest(v) \notin Hashes(elections[n][e].state[v.round])
  <2>1. ValidateVote(n, v) = {"Valid"}
    BY <1>1 DEF ValidateVote
  <2>2. (Stay(n, v) \/ Advance(n, v)) /\ v.round < MaxRound
    BY <1>3, <2>1 DEF HandleVote
  <2>3. HeardOK(n, e, v.round, {v})
    <3>1. v.signer # n
      BY <1>1, <1>3 DEF OwnVotesKept, Hashes, Validated
    <3> QED BY <1>1, <1>3, <2>1, <3>1, ValidFacts
  <2>4. \A x \in Draws(n, v) : v \in Joined(n, v, x).validated_votes
    <3> SUFFICES ASSUME NEW x \in Draws(n, v)
                 PROVE  v \in Joined(n, v, x).validated_votes
      OBVIOUS
    <3>1. Joined(n, v, x).validated_votes =
              Validated(n, e, v.round) \union ({v} \union OwnVotes(n, v, x))
      BY <1>1, <2>3, HeardRound, Zenon
    <3> QED BY <3>1
  <2>5. CASE Stay(n, v)
    <3>1. PICK x \in Draws(n, v) :
             elections'[n][e] = Insert(elections[n][e], v.round, Joined(n, v, x))
      BY <1>1, <2>5, StayFacts
    <3>2. elections[n][e] \in ElectionState
      BY <1>1 DEF TypeOK
    <3>3. elections'[n][e].state[0] = Joined(n, v, x)
      BY <1>1, <3>1, <3>2 DEF Insert, ElectionState
    <3> QED BY <2>4, <3>3 DEF Validated
  <2>6. CASE Advance(n, v)
    <3>1. PICK x \in Draws(n, v) :
             elections'[n][e].state[v.round] = Joined(n, v, x)
      BY <1>1, <2>2, <2>6, AdvanceFacts
    <3> QED BY <2>4, <3>1 DEF Validated
  <2> QED BY <2>2, <2>5, <2>6
<1> QED BY <1>2, <1>3

LEMMA FirstVotesStep ==
    ASSUME Inv, TakenType, FirstVotesCounted, [FifoNext]_fifoVars
    PROVE  TakenType' /\ FirstVotesCounted'
<1>0. [Next]_vars /\ 0 \in Round
  BY FifoStep, BoundAssumption DEF Round
<1>1. \A n \in Node, e \in Election : Validated(n, e, 0) \subseteq Validated(n, e, 0)'
  BY <1>0, NothingForgotten
<1>2. CASE taken' = taken
  BY <1>1, <1>2 DEF TakenType, FirstVotesCounted
<1>3. ASSUME NEW n \in Node, NEW m \in Node, NEW e \in Election, Deliver(n, m, e)
      PROVE  TakenType' /\ FirstVotesCounted'
  <2>1. PICK v \in msgs : /\ v.signer = m /\ v.election_hash = e
                          /\ v.round = taken[n][m][e]
                          /\ HandleVote(n, v) /\ v.round < MaxRound
                          /\ taken' = [taken EXCEPT ![n][m][e] = @ + 1]
    BY <1>3 DEF Deliver, NextVotes, HandleVote
  <2>2. TakenType'
    BY <2>1, BoundAssumption DEF TakenType
  <2>3. \E w \in Validated(n, e, 0)' : w.signer = m
    <3>1. CASE taken[n][m][e] = 0
      BY <2>1, <3>1, FirstVoteCounted
    <3>2. CASE taken[n][m][e] > 0
      BY <1>1, <3>2 DEF FirstVotesCounted
    <3> QED BY <3>1, <3>2, BoundAssumption DEF TakenType
  <2>4. \A k, l \in Node, f \in Election :
            <<k, l, f>> # <<n, m, e>> => taken'[k][l][f] = taken[k][l][f]
    BY <2>1 DEF TakenType
  <2> QED BY <1>1, <2>2, <2>3, <2>4 DEF FirstVotesCounted
<1>4. ASSUME NEW n \in Node, NEW m \in Node, Reconnect(n, m)
      PROVE  TakenType' /\ FirstVotesCounted'
  <2>1. taken' = [taken EXCEPT ![n][m] = [e \in Election |-> 0]]
    BY <1>4 DEF Reconnect
  <2>2. TakenType'
    BY <2>1, BoundAssumption DEF TakenType
  <2>3. \A k, l \in Node, f \in Election :
            taken'[k][l][f] = taken[k][l][f] \/ taken'[k][l][f] = 0
    BY <2>1 DEF TakenType
  <2> QED BY <1>1, <2>2, <2>3 DEF FirstVotesCounted
<1>5. ASSUME NEW n \in Node, NEW e \in Election, TakeTransaction(n, e)
      PROVE  taken' = taken
  BY <1>5 DEF TakeTransaction
<1> QED BY <1>2, <1>3, <1>4, <1>5 DEF FifoNext, fifoVars

\* A first vote taken from a connection is counted, through every race of
\* transactions, votes and reconnections.
THEOREM FirstVotesNeverLost == FifoSpec => []FirstVotesCounted
<1>1. FifoInit => TakenType /\ FirstVotesCounted
  BY BoundAssumption DEF FifoInit, TakenType, FirstVotesCounted
<1>2. FifoSpec => []Inv
  BY FifoRefines, Invariant, PTL
<1> QED BY <1>1, <1>2, FirstVotesStep, PTL DEF FifoSpec

\* The state over connections has its type: no node takes more votes of a
\* signer than the bound on rounds lets it handle.
THEOREM FifoTyped == FifoSpec => []FifoTypeOK
<1>1. FifoInit => TakenType /\ FirstVotesCounted
  BY BoundAssumption DEF FifoInit, TakenType, FirstVotesCounted
<1>2. FifoSpec => []Inv
  BY FifoRefines, Invariant, PTL
<1>3. Inv /\ TakenType => FifoTypeOK
  BY DEF Inv, ViewInv, VotesInv, TakenType, FifoTypeOK
<1> QED BY <1>1, <1>2, <1>3, FirstVotesStep, PTL DEF FifoSpec
-----------------------------------------------------------------------------
\* With a vote of round 0 counted, n judges the second vote of m by what m saw
\* itself: there is no Decide in round 0.
LEMMA SecondVoteValid ==
    ASSUME Inv, NEW n \in Honest, NEW v \in msgs, v.signer \in Honest, v.round = 1,
           Validated(n, v.election_hash, 0) # {}
    PROVE  "Invalid" \notin ValidateVote(n, v)
<1>1. v.election_hash \in Election /\ n \in Node /\ 0 \in Round /\ v.round - 1 = 0
  BY VoteFacts, BoundAssumption DEF Inv, ViewInv, VotesInv, TypeOK, Honest, Round
<1>2. \A w \in ProofVotes(n, v) : w.vote_type = "InitialVote"
  BY <1>1 DEF ProofVotes, Inv, ViewInv, VotesInv, ViewsAreVotes, StartsInitial
<1>3. Votes(ProofVotes(n, v), "Decide", "Zero") = {}
  BY <1>2 DEF Votes
<1> QED BY <1>1, <1>3, ProvenFollows DEF ProvenVotesAccepted

\* Between nodes that follow the rule, a second vote is never turned down on a
\* connection: what comes before it there is enough to judge it.
THEOREM SecondVotesNeverInvalid == FifoSpec => []SecondVotesAccepted
<1>1. Inv /\ FirstVotesCounted => SecondVotesAccepted
  <2> SUFFICES ASSUME Inv, FirstVotesCounted, NEW n \in Honest, NEW m \in Honest,
                      NEW e \in Election, NEW v \in NextVotes(n, m, e), v.round = 1
               PROVE  "Invalid" \notin ValidateVote(n, v)
    BY DEF SecondVotesAccepted
  <2>1. v \in msgs /\ v.signer = m /\ v.election_hash = e /\ taken[n][m][e] = 1
    BY DEF NextVotes
  <2>2. Validated(n, e, 0) # {}
    BY <2>1 DEF FirstVotesCounted, Honest
  <2> QED BY <2>1, <2>2, SecondVoteValid
<1>2. FifoSpec => []Inv
  BY FifoRefines, Invariant, PTL
<1> QED BY <1>1, <1>2, FirstVotesNeverLost, PTL
=============================================================================
