-------------------------- MODULE NeroCoreProofs ---------------------------
(***************************************************************************)
(* Proofs about NeroCore, for any number F of faulty nodes, any committee  *)
(* of 3F + 1 of which any may be byzantine, any elections, initial values, *)
(* patterns of delivery and horizon.                                       *)
(*                                                                         *)
(* The first part states facts about tallies and the decision rule; the    *)
(* second shows what a step does to the state, one lemma per operator of   *)
(* NeroCore, and type correctness; the third that every step that is not   *)
(* a stutter has one shape (Shape).                                        *)
(***************************************************************************)
EXTENDS NeroInvariant, FiniteSetTheorems, WellFoundedInduction, TLAPS

\* A set of natural numbers has a least element: how the proofs go from one
\* round to the next.
LEMMA LeastElement ==
    ASSUME NEW T \in SUBSET Nat, T # {}
    PROVE  \E x \in T : \A y \in T : x <= y
<1> DEFINE R == {p \in Nat \X Nat : p[1] < p[2]}
<1>1. IsWellFoundedOn(R, Nat)
  <2>1. R = OpToRel(<, Nat)
    BY DEF OpToRel
  <2> QED BY <2>1, NatLessThanWellFounded
<1>2. PICK x \in T : \A y \in T : ~ (<<y, x>> \in R)
  <2> HIDE DEF R
  <2> QED BY <1>1, WFMin
<1>3. ASSUME NEW y \in T PROVE x <= y
  <2>1. y \in Nat /\ x \in Nat /\ <<y, x>> \in Nat \X Nat
    OBVIOUS
  <2>2. ~ (<<y, x>>[1] < <<y, x>>[2])
    BY <1>2, <2>1
  <2> QED BY <2>1, <2>2
<1> QED BY <1>3
-----------------------------------------------------------------------------
\* Votes as far as the tallies look at them.
Ballots(S) == \A v \in S : v.value \in Value /\ v.vote_type \in VoteType

\* tally_vote and Tally::new make tallies.
LEMMA TallyVoteType ==
    /\ NewTally \in Tally
    /\ \A t \in Tally : \A v : TallyVote(t, v) \in Tally
BY DEF NewTally, Tally, TallyVote

\* make_decision makes a decision of every tally.
LEMMA MakeDecisionType == \A t : MakeDecision(t) \in Decision
BY DEF MakeDecision, Decision, Choice, Value, VoteType

\* from_votes makes a tally of every finite set of votes.
LEMMA FromVotesType ==
    ASSUME NEW S, IsFiniteSet(S)
    PROVE  /\ \A type, val : /\ IsFiniteSet(Votes(S, type, val))
                             /\ Cardinality(Votes(S, type, val)) \in Nat
           /\ FromVotes(S) \in Tally
           /\ Seen(S) \in Tally
<1>1. ASSUME NEW type, NEW val
      PROVE  /\ IsFiniteSet(Votes(S, type, val))
             /\ Cardinality(Votes(S, type, val)) \in Nat
  <2>1. Votes(S, type, val) \in SUBSET S
    BY DEF Votes
  <2> QED BY <2>1, FS_Subset, FS_CardinalityType
<1>2. FromVotes(S) \in Tally
  BY <1>1 DEF FromVotes, Tally
<1> QED BY <1>1, <1>2 DEF Seen, Tally

\* A counter of from_votes is positive exactly when a vote of its kind is there.
LEMMA SomeVote ==
    ASSUME NEW S, IsFiniteSet(S), NEW type, NEW val
    PROVE  Cardinality(Votes(S, type, val)) > 0 <=>
           \E v \in S : v.vote_type = type /\ v.value = val
<1>1. IsFiniteSet(Votes(S, type, val)) /\ Cardinality(Votes(S, type, val)) \in Nat
  BY FromVotesType
<1>2. Cardinality(Votes(S, type, val)) = 0 <=> Votes(S, type, val) = {}
  BY <1>1, FS_EmptySet
<1> QED BY <1>1, <1>2 DEF Votes

\* The incremental tally of no votes is a new one.
LEMMA SeenNothing == Seen({}) = NewTally
<1>1. \A type, val : Votes({}, type, val) = {}
  BY DEF Votes
<1> QED BY <1>1, FS_EmptySet DEF Seen, FromVotes, NewTally

\* tally_vote turns what it made of S into what it makes of S and one more vote.
LEMMA SeenOneMore ==
    ASSUME NEW S, IsFiniteSet(S), NEW v, v \notin S, Ballots({v})
    PROVE  Seen(S \union {v}) = TallyVote(Seen(S), v)
<1>1. ASSUME NEW type, NEW val
      PROVE  Cardinality(Votes(S \union {v}, type, val)) =
                IF v.vote_type = type /\ v.value = val
                THEN Cardinality(Votes(S, type, val)) + 1
                ELSE Cardinality(Votes(S, type, val))
  <2> DEFINE A == Votes(S, type, val)
  <2>1. IsFiniteSet(A)
    BY FromVotesType
  <2>a. v \notin A
    BY DEF Votes
  <2>b. IsFiniteSet(A \union {v}) /\ Cardinality(A \union {v}) = Cardinality(A) + 1
    <3> HIDE DEF A
    <3> QED BY <2>1, <2>a, FS_AddElement
  <2>2. CASE v.vote_type = type /\ v.value = val
    <3>1. Votes(S \union {v}, type, val) = Votes(S, type, val) \union {v}
      BY <2>2 DEF Votes
    <3> QED BY <2>2, <2>b, <3>1
  <2>3. CASE ~ (v.vote_type = type /\ v.value = val)
    <3>1. Votes(S \union {v}, type, val) = Votes(S, type, val)
      BY <2>3 DEF Votes
    <3> QED BY <2>3, <3>1
  <2> QED BY <2>2, <2>3
<1>2. v.value \in {"Zero", "One"} /\ v.vote_type \in {"InitialVote", "Commit", "Decide"}
  BY DEF Ballots, Value, VoteType
<1>3. \A T : Seen(T) =
        [zero_votes   |-> Cardinality(Votes(T, "InitialVote", "Zero")),
         one_votes    |-> Cardinality(Votes(T, "InitialVote", "One")),
         zero_commits |-> Cardinality(Votes(T, "Commit", "Zero")),
         one_commits  |-> Cardinality(Votes(T, "Commit", "One")),
         zero_decides |-> 0,
         one_decides  |-> Cardinality(Votes(T, "Decide", "One"))]
  BY DEF Seen, FromVotes
<1> QED BY <1>1, <1>2, <1>3 DEF TallyVote

\* Two finite sets without a common element.
LEMMA DisjointUnion ==
    ASSUME NEW S, NEW T, IsFiniteSet(S), IsFiniteSet(T), S \cap T = {}
    PROVE  /\ IsFiniteSet(S \union T)
           /\ Cardinality(S \union T) = Cardinality(S) + Cardinality(T)
<1>1. /\ IsFiniteSet(S \union T)
      /\ Cardinality(S \union T) =
            Cardinality(S) + Cardinality(T) - Cardinality(S \cap T)
  BY FS_Union
<1>2. Cardinality(S \cap T) = 0
  BY FS_EmptySet
<1> QED BY <1>1, <1>2, FS_CardinalityType

\* The six counters of from_votes add up to the number of votes.
LEMMA TallyTotal ==
    ASSUME NEW S, IsFiniteSet(S), Ballots(S)
    PROVE  LET t == FromVotes(S)
           IN  Cardinality(S) = t.zero_votes + t.zero_commits + t.zero_decides
                                + t.one_votes + t.one_commits + t.one_decides
<1> DEFINE A == Votes(S, "InitialVote", "Zero")
           B == Votes(S, "Commit", "Zero")
           C == Votes(S, "Decide", "Zero")
           D == Votes(S, "InitialVote", "One")
           E == Votes(S, "Commit", "One")
           G == Votes(S, "Decide", "One")
<1>1. /\ IsFiniteSet(A) /\ IsFiniteSet(B) /\ IsFiniteSet(C)
      /\ IsFiniteSet(D) /\ IsFiniteSet(E) /\ IsFiniteSet(G)
  BY FromVotesType
<1>2. /\ A \cap B = {} /\ (A \union B) \cap C = {}
      /\ (A \union B \union C) \cap D = {}
      /\ (A \union B \union C \union D) \cap E = {}
      /\ (A \union B \union C \union D \union E) \cap G = {}
  BY DEF Votes
<1>3. S = A \union B \union C \union D \union E \union G
  BY DEF Votes, Ballots, Value, VoteType
<1> HIDE DEF A, B, C, D, E, G
<1>4. /\ IsFiniteSet(A \union B)
      /\ Cardinality(A \union B) = Cardinality(A) + Cardinality(B)
  BY <1>1, <1>2, DisjointUnion, FS_CardinalityType
<1>5. /\ IsFiniteSet(A \union B \union C)
      /\ Cardinality(A \union B \union C) = Cardinality(A) + Cardinality(B) + Cardinality(C)
  BY <1>1, <1>2, <1>4, DisjointUnion, FS_CardinalityType
<1>6. /\ IsFiniteSet(A \union B \union C \union D)
      /\ Cardinality(A \union B \union C \union D) =
            Cardinality(A) + Cardinality(B) + Cardinality(C) + Cardinality(D)
  BY <1>1, <1>2, <1>5, DisjointUnion, FS_CardinalityType
<1>7. /\ IsFiniteSet(A \union B \union C \union D \union E)
      /\ Cardinality(A \union B \union C \union D \union E) =
            Cardinality(A) + Cardinality(B) + Cardinality(C) + Cardinality(D) + Cardinality(E)
  BY <1>1, <1>2, <1>6, DisjointUnion, FS_CardinalityType
<1>8. Cardinality(S) = Cardinality(A) + Cardinality(B) + Cardinality(C)
                       + Cardinality(D) + Cardinality(E) + Cardinality(G)
  BY <1>1, <1>2, <1>3, <1>7, DisjointUnion, FS_CardinalityType
<1> QED BY <1>8 DEF FromVotes, A, B, C, D, E, G
-----------------------------------------------------------------------------
\* The tally t is what a node makes of the votes S: of a proof, or, vote by
\* vote, of votes that hold one of its own that is not a Decide.
TallyOf(t, S) ==
    \/ t = FromVotes(S)
    \/ t = Seen(S) /\ \E v \in S : v.vote_type # "Decide"

\* What the counters of such a tally say of the votes.
LEMMA CountersSay ==
    ASSUME NEW S, IsFiniteSet(S), Ballots(S), NEW t, TallyOf(t, S)
    PROVE  /\ t \in Tally
           /\ t.zero_votes > 0   <=> \E v \in S : v.vote_type = "InitialVote" /\ v.value = "Zero"
           /\ t.one_votes > 0    <=> \E v \in S : v.vote_type = "InitialVote" /\ v.value = "One"
           /\ t.zero_commits > 0 <=> \E v \in S : v.vote_type = "Commit" /\ v.value = "Zero"
           /\ t.one_commits > 0  <=> \E v \in S : v.vote_type = "Commit" /\ v.value = "One"
           /\ t.zero_decides > 0  => \E v \in S : v.vote_type = "Decide" /\ v.value = "Zero"
           /\ t.one_decides > 0  <=> \E v \in S : v.vote_type = "Decide" /\ v.value = "One"
<1>1. FromVotes(S) \in Tally /\ Seen(S) \in Tally
  BY FromVotesType
<1>2. \A type, val : Cardinality(Votes(S, type, val)) > 0 <=>
                     \E v \in S : v.vote_type = type /\ v.value = val
  BY SomeVote
<1>3. /\ t.zero_votes   = Cardinality(Votes(S, "InitialVote", "Zero"))
      /\ t.one_votes    = Cardinality(Votes(S, "InitialVote", "One"))
      /\ t.zero_commits = Cardinality(Votes(S, "Commit", "Zero"))
      /\ t.one_commits  = Cardinality(Votes(S, "Commit", "One"))
      /\ t.zero_decides \in {0, Cardinality(Votes(S, "Decide", "Zero"))}
      /\ t.one_decides  = Cardinality(Votes(S, "Decide", "One"))
  BY DEF TallyOf, FromVotes, Seen
<1> HIDE DEF Votes
<1> QED BY <1>1, <1>2, <1>3 DEF TallyOf

\* A quorum of votes for one value makes a vote for that value, and no initial
\* vote once there is a commit or a decide among them, provided a Decide never
\* meets an initial vote.
LEMMA RuleKeepsValue ==
    ASSUME NEW S, IsFiniteSet(S), Ballots(S), Cardinality(S) >= QUORUM,
           NEW x \in Value, \A v \in S : v.value = x,
           (\E v \in S : v.vote_type = "Decide") =>
               \A v \in S : v.vote_type # "InitialVote",
           NEW t, TallyOf(t, S)
    PROVE  /\ MakeDecision(t).value = x
           /\ (\E v \in S : v.vote_type # "InitialVote") =>
                  MakeDecision(t).vote_type # "InitialVote"
<1>1. /\ t \in Tally
      /\ t.zero_votes > 0   <=> \E v \in S : v.vote_type = "InitialVote" /\ v.value = "Zero"
      /\ t.one_votes > 0    <=> \E v \in S : v.vote_type = "InitialVote" /\ v.value = "One"
      /\ t.zero_commits > 0 <=> \E v \in S : v.vote_type = "Commit" /\ v.value = "Zero"
      /\ t.one_commits > 0  <=> \E v \in S : v.vote_type = "Commit" /\ v.value = "One"
      /\ t.zero_decides > 0  => \E v \in S : v.vote_type = "Decide" /\ v.value = "Zero"
      /\ t.one_decides > 0  <=> \E v \in S : v.vote_type = "Decide" /\ v.value = "One"
  BY CountersSay
<1>2. \A v \in S : v.vote_type \in {"InitialVote", "Commit", "Decide"}
  BY DEF Ballots, VoteType
<1>3. F \in Nat /\ F > 0
  BY FAssumption
<1>4. FromVotes(S) \in Tally
  BY FromVotesType
<1>5. Cardinality(S) = FromVotes(S).zero_votes + FromVotes(S).zero_commits
                       + FromVotes(S).zero_decides + FromVotes(S).one_votes
                       + FromVotes(S).one_commits + FromVotes(S).one_decides
  BY TallyTotal
<1>6. /\ t.zero_votes = FromVotes(S).zero_votes
      /\ t.one_votes = FromVotes(S).one_votes
      /\ t.zero_commits = FromVotes(S).zero_commits
      /\ t.one_commits = FromVotes(S).one_commits
      /\ t.one_decides = FromVotes(S).one_decides
  BY <1>1, <1>4 DEF TallyOf, Seen, Tally
<1>7. FromVotes(S).zero_decides > 0 => \E v \in S : v.vote_type = "Decide" /\ v.value = "Zero"
  BY SomeVote DEF FromVotes
<1>8. CASE x = "Zero"
  <2>1. t.one_votes = 0 /\ t.one_commits = 0 /\ t.one_decides = 0
    BY <1>1, <1>8 DEF Tally
  <2>2. CASE \E v \in S : v.vote_type # "InitialVote"
    <3>1. t.zero_commits > 0 \/ t.zero_decides > 0
      <4>1. CASE \E v \in S : v.vote_type = "Commit"
        BY <1>1, <1>8, <4>1
      <4>2. CASE ~ \E v \in S : v.vote_type = "Commit"
        <5>1. \A v \in S : v.vote_type = "Decide"
          BY <1>2, <2>2, <4>2
        <5>2. t = FromVotes(S) /\ t.zero_votes = 0 /\ t.zero_commits = 0
          BY <1>1, <5>1 DEF TallyOf, Tally
        <5> QED BY <1>3, <1>4, <1>5, <2>1, <5>2 DEF QUORUM, Tally
      <4> QED BY <4>1, <4>2
    <3> QED BY <1>1, <1>3, <1>8, <2>1, <3>1
        DEF MakeDecision, CommitClash, CommitsZero, Choice, QUORUM, SEMI_QUORUM, Tally
  <2>3. CASE ~ \E v \in S : v.vote_type # "InitialVote"
    <3>1. t.zero_commits = 0 /\ t.zero_decides = 0 /\ FromVotes(S).zero_decides = 0
      BY <1>1, <1>4, <1>7, <2>3 DEF Tally
    <3>2. t.zero_votes >= QUORUM
      BY <1>1, <1>3, <1>4, <1>5, <1>6, <2>1, <3>1 DEF QUORUM, Tally
    <3> QED BY <1>1, <1>3, <1>8, <2>1, <2>3, <3>1, <3>2
        DEF MakeDecision, CommitClash, CommitsZero, Choice, QUORUM, SEMI_QUORUM, Tally
  <2> QED BY <2>2, <2>3
<1>9. CASE x = "One"
  <2>1. /\ t.zero_votes = 0 /\ t.zero_commits = 0 /\ t.zero_decides = 0
        /\ FromVotes(S).zero_decides = 0
    BY <1>1, <1>4, <1>7, <1>9 DEF Tally
  <2>2. t.one_votes + t.one_commits + t.one_decides >= QUORUM
    BY <1>1, <1>3, <1>4, <1>5, <1>6, <2>1 DEF QUORUM, Tally
  <2>3. (\E v \in S : v.vote_type # "InitialVote") => t.one_commits > 0 \/ t.one_decides > 0
    BY <1>1, <1>2, <1>9
  <2> QED BY <1>1, <1>3, <1>9, <2>1, <2>2, <2>3
      DEF MakeDecision, CommitClash, CommitsZero, CommitsOne, Choice, QUORUM, SEMI_QUORUM, Tally
<1> QED BY <1>8, <1>9 DEF Value

\* Initial votes alone make no Decide; they make a Commit for a value only if a
\* quorum of them is for it; and they make a vote for the value that more than
\* F of them are for if at most F are not.
LEMMA RuleOfInitialVotes ==
    ASSUME NEW S, IsFiniteSet(S), Ballots(S), Cardinality(S) >= QUORUM,
           \A v \in S : v.vote_type = "InitialVote",
           NEW t, TallyOf(t, S)
    PROVE  LET d    == MakeDecision(t)
               c(x) == Cardinality(Votes(S, "InitialVote", x))
           IN  /\ d.vote_type # "Decide"
               /\ d.vote_type = "Commit" => c(d.value) >= QUORUM
               /\ c(d.value) > F
               /\ \A x \in Value : (\A y \in Value \ {x} : c(y) <= F) => d.value = x
<1>1. /\ t \in Tally
      /\ t.zero_commits = 0 /\ t.one_commits = 0
      /\ t.zero_decides = 0 /\ t.one_decides = 0
  BY CountersSay DEF Tally
<1>2. FromVotes(S) \in Tally
  BY FromVotesType
<1>3. /\ t.zero_votes = FromVotes(S).zero_votes
      /\ t.one_votes = FromVotes(S).one_votes
      /\ t.zero_commits = FromVotes(S).zero_commits
      /\ t.one_commits = FromVotes(S).one_commits
      /\ t.one_decides = FromVotes(S).one_decides
  BY <1>1, <1>2 DEF TallyOf, Seen, Tally
<1>4. FromVotes(S).zero_decides = 0
  BY <1>2, SomeVote DEF FromVotes, Tally
<1>5. t.zero_votes + t.one_votes >= QUORUM
  BY <1>1, <1>2, <1>3, <1>4, TallyTotal, FAssumption DEF QUORUM, Tally
<1>6. /\ t.zero_votes = Cardinality(Votes(S, "InitialVote", "Zero"))
      /\ t.one_votes = Cardinality(Votes(S, "InitialVote", "One"))
  BY <1>3 DEF FromVotes
<1>7. Value = {"Zero", "One"}
  BY DEF Value
<1>8. F \in Nat /\ F > 0 /\ t.zero_votes \in Nat /\ t.one_votes \in Nat
  BY <1>1, FAssumption DEF Tally
<1> QED BY <1>1, <1>5, <1>6, <1>7, <1>8
    DEF MakeDecision, CommitClash, CommitsZero, CommitsOne, Choice, QUORUM, SEMI_QUORUM

\* A Decide is made of a Decide for its value or of a quorum of commits for it;
\* a Commit, of a commit for its value or of a quorum of initial votes for it.
LEMMA RuleNeeds ==
    ASSUME NEW S, IsFiniteSet(S), Ballots(S), NEW t, TallyOf(t, S)
    PROVE  LET d == MakeDecision(t)
           IN  /\ d.vote_type = "Decide" =>
                     \/ \E v \in S : v.vote_type = "Decide" /\ v.value = d.value
                     \/ Cardinality(Votes(S, "Commit", d.value)) >= QUORUM
               /\ d.vote_type = "Commit" =>
                     \/ \E v \in S : v.vote_type = "Commit" /\ v.value = d.value
                     \/ Cardinality(Votes(S, "InitialVote", d.value)) >= QUORUM
<1>1. /\ t.zero_commits > 0 <=> \E v \in S : v.vote_type = "Commit" /\ v.value = "Zero"
      /\ t.one_commits > 0  <=> \E v \in S : v.vote_type = "Commit" /\ v.value = "One"
      /\ t.zero_decides > 0  => \E v \in S : v.vote_type = "Decide" /\ v.value = "Zero"
      /\ t.one_decides > 0  <=> \E v \in S : v.vote_type = "Decide" /\ v.value = "One"
  BY CountersSay
<1>2. /\ t.zero_votes   = Cardinality(Votes(S, "InitialVote", "Zero"))
      /\ t.one_votes    = Cardinality(Votes(S, "InitialVote", "One"))
      /\ t.zero_commits = Cardinality(Votes(S, "Commit", "Zero"))
      /\ t.one_commits  = Cardinality(Votes(S, "Commit", "One"))
  BY DEF TallyOf, FromVotes, Seen
<1> QED BY <1>1, <1>2 DEF MakeDecision, CommitsZero, CommitsOne, Choice
-----------------------------------------------------------------------------
\* Writing the entry of one node and one election.
Put(E, n, e, x) == [E EXCEPT ![n][e] = x]

\* state.insert
LEMMA InsertFacts ==
    ASSUME NEW el \in ElectionState, NEW r \in Round, NEW rs \in RoundState
    PROVE  /\ Insert(el, r, rs) \in ElectionState
           /\ Insert(el, r, rs).is_decided = el.is_decided
           /\ Insert(el, r, rs).state[r] = rs
           /\ \A q \in Round : q # r => Insert(el, r, rs).state[q] = el.state[q]
BY DEF Insert, ElectionState

\* A vote is a ballot.
LEMMA VoteFacts ==
    ASSUME NEW v \in Vote
    PROVE  /\ v.signer \in Node /\ v.round \in Round /\ v.value \in Value
           /\ v.vote_type \in VoteType /\ v.proof \in SUBSET Node
           /\ v.election_hash \in Election
           /\ v.round \in Nat /\ v.round <= MaxRound
           /\ Digest(v) = v.signer
BY BoundAssumption DEF Vote, Round, Digest

\* Counting a vote, and casting one.
LEMMA CountFacts ==
    ASSUME NEW rs \in RoundState, NEW v \in Vote
    PROVE  /\ Count(rs, v) \in RoundState
           /\ Count(rs, v).validated_votes = rs.validated_votes \union {v}
           /\ Count(rs, v).tally = TallyVote(rs.tally, v)
           /\ Count(rs, v).voted = rs.voted
           /\ CastVote(rs, v) \in RoundState
           /\ CastVote(rs, v).validated_votes = rs.validated_votes \union {v}
           /\ CastVote(rs, v).tally = TallyVote(rs.tally, v)
           /\ CastVote(rs, v).voted = TRUE
<1>1. TallyVote(rs.tally, v) \in Tally
  BY TallyVoteType DEF RoundState
<1> QED BY <1>1 DEF Count, CastVote, RoundState

\* The round state of a node that accepts a vote.
LEMMA AcceptedFacts ==
    ASSUME TypeOK, NEW n \in Node, NEW v \in Vote
    PROVE  LET rs == elections[n][v.election_hash].state[v.round]
           IN  /\ rs \in RoundState
               /\ Accepted(n, v) \in RoundState
               /\ Accepted(n, v).validated_votes = rs.validated_votes \union {v}
               /\ Accepted(n, v).tally = TallyVote(rs.tally, v)
               /\ Accepted(n, v).voted = (rs.voted \/ v.signer = n)
<1> DEFINE rs == elections[n][v.election_hash].state[v.round]
           counted == Count(rs, v)
           marked == [counted EXCEPT !.voted = @ \/ v.signer = n]
<1>1. rs \in RoundState
  BY VoteFacts DEF TypeOK, ElectionState
<1>2. /\ counted \in RoundState /\ counted.voted = rs.voted
      /\ counted.validated_votes = rs.validated_votes \union {v}
      /\ counted.tally = TallyVote(rs.tally, v)
  BY <1>1, CountFacts
<1>3. /\ marked \in RoundState /\ marked.voted = (rs.voted \/ v.signer = n)
      /\ marked.validated_votes = rs.validated_votes \union {v}
      /\ marked.tally = TallyVote(rs.tally, v)
  <2> HIDE DEF counted
  <2>1. rs.voted \in BOOLEAN
    BY <1>1 DEF RoundState
  <2> HIDE DEF rs
  <2> QED BY <1>2, <2>1 DEF RoundState
<1>4. Accepted(n, v) = ValidatePendingVotes(marked, v)
  BY DEF Accepted
<1>5. \A p \in marked.unvalidated_votes :
          [p EXCEPT !.missing = @ \ {Digest(v)}] \in Parked
  <2> HIDE DEF marked
  <2> QED BY <1>3 DEF RoundState, Parked
<1>6. /\ ValidatePendingVotes(marked, v) \in RoundState
      /\ ValidatePendingVotes(marked, v).voted = marked.voted
      /\ ValidatePendingVotes(marked, v).validated_votes = marked.validated_votes
      /\ ValidatePendingVotes(marked, v).tally = marked.tally
  <2> HIDE DEF marked
  <2> QED BY <1>3, <1>5 DEF ValidatePendingVotes, RoundState
<1> QED BY <1>1, <1>3, <1>4, <1>6

\* The votes a node makes.
LEMMA RandomVoteFacts ==
    ASSUME NEW n \in Node, NEW e \in Election, NEW x \in Value
    PROVE  LET w == RandomVote(n, e, x)
           IN  /\ w \in Vote /\ w.signer = n /\ w.round = 0 /\ w.election_hash = e
               /\ w.vote_type = "InitialVote" /\ w.value = x
BY BoundAssumption DEF RandomVote, Vote, Round, VoteType

LEMMA NextVoteFacts ==
    ASSUME NEW n \in Node, NEW e \in Election, NEW r \in Round,
           NEW d \in Decision, NEW rs \in RoundState
    PROVE  LET w == NextVote(n, e, r, d, rs)
           IN  /\ w \in Vote /\ w.signer = n /\ w.round = r /\ w.election_hash = e
               /\ w.vote_type = d.vote_type /\ w.value = d.value
               /\ w.proof = {u.signer : u \in rs.validated_votes}
<1>1. Hashes(rs) = {u.signer : u \in rs.validated_votes}
  BY DEF Hashes, Digest
<1>2. Hashes(rs) \in SUBSET Node
  BY <1>1 DEF RoundState, Vote
<1> QED BY <1>1, <1>2 DEF NextVote, Vote, Decision

LEMMA DecisionsFacts ==
    ASSUME NEW n, NEW t, NEW d \in Decisions(n, t)
    PROVE  /\ d \in Decision
           /\ n \in Honest => d = MakeDecision(t)
BY MakeDecisionType DEF Decisions, Decision, RandomDecisions, Honest, VoteType

\* A node draws a vote of its own only in round 0 and if it has not voted there.
LEMMA DrawsFacts ==
    ASSUME NEW n \in Node, NEW v, NEW x \in Draws(n, v)
    PROVE  IF v.round = 0 /\ ~Accepted(n, v).voted
           THEN x \in Value /\ x # None
           ELSE x = None
BY InputAssumption DEF Draws, None, Value

\* The round state with the vote that arrived and the node's own, if any.
LEMMA JoinedFacts ==
    ASSUME TypeOK, NEW n \in Node, NEW v \in Vote, NEW x \in Draws(n, v)
    PROVE  LET rs == elections[n][v.election_hash].state[v.round]
               own == OwnVotes(n, v, x)
           IN  /\ Joined(n, v, x) \in RoundState
               /\ Joined(n, v, x).validated_votes = rs.validated_votes \union {v} \union own
               /\ Joined(n, v, x).voted = (rs.voted \/ v.signer = n \/ v.round = 0)
               /\ own = {} \/ \E w \in Vote :
                     /\ own = {w} /\ w = RandomVote(n, v.election_hash, x)
                     /\ ~rs.voted /\ v.signer # n /\ v.round = 0
                     /\ Joined(n, v, x).tally = TallyVote(TallyVote(rs.tally, v), w)
               /\ own = {} => Joined(n, v, x).tally = TallyVote(rs.tally, v)
<1> DEFINE rs == elections[n][v.election_hash].state[v.round]
           w == RandomVote(n, v.election_hash, x)
<1>1. /\ rs \in RoundState
      /\ Accepted(n, v) \in RoundState
      /\ Accepted(n, v).validated_votes = rs.validated_votes \union {v}
      /\ Accepted(n, v).tally = TallyVote(rs.tally, v)
      /\ Accepted(n, v).voted = (rs.voted \/ v.signer = n)
  BY AcceptedFacts
<1>2. CASE x = None
  <2>1. ~(v.round = 0 /\ ~Accepted(n, v).voted)
    BY <1>2, DrawsFacts
  <2>2. Joined(n, v, x) = Accepted(n, v) /\ OwnVotes(n, v, x) = {}
    BY <1>2 DEF Joined, OwnVotes
  <2>3. Joined(n, v, x).voted = (rs.voted \/ v.signer = n \/ v.round = 0)
    BY <1>1, <2>1, <2>2 DEF RoundState
  <2> QED BY <1>1, <2>2, <2>3
<1>3. CASE x # None
  <2>1. v.round = 0 /\ ~Accepted(n, v).voted /\ x \in Value
    BY <1>3, DrawsFacts
  <2>2. w \in Vote
    BY <2>1, VoteFacts, RandomVoteFacts
  <2>3. Joined(n, v, x) = CastVote(Accepted(n, v), w) /\ OwnVotes(n, v, x) = {w}
    BY <1>3 DEF Joined, OwnVotes
  <2>4. /\ CastVote(Accepted(n, v), w) \in RoundState
        /\ CastVote(Accepted(n, v), w).validated_votes =
               Accepted(n, v).validated_votes \union {w}
        /\ CastVote(Accepted(n, v), w).tally = TallyVote(Accepted(n, v).tally, w)
        /\ CastVote(Accepted(n, v), w).voted = TRUE
    BY <1>1, <2>2, CountFacts
  <2>5. ~rs.voted /\ v.signer # n
    BY <1>1, <2>1
  <2>6. Joined(n, v, x).voted = (rs.voted \/ v.signer = n \/ v.round = 0)
    BY <2>1, <2>3, <2>4
  <2>7. OwnVotes(n, v, x) = {w} /\ OwnVotes(n, v, x) # {}
    BY <2>3
  <2>8. Joined(n, v, x).tally = TallyVote(TallyVote(rs.tally, v), w)
    BY <1>1, <2>3, <2>4
  <2>9. Joined(n, v, x).validated_votes = rs.validated_votes \union {v} \union {w}
    BY <1>1, <2>3, <2>4
  <2> HIDE DEF w
  <2> QED BY <2>1, <2>2, <2>3, <2>4, <2>5, <2>6, <2>7, <2>8, <2>9 DEF w
<1> QED BY <1>2, <1>3

-----------------------------------------------------------------------------
\* The state keeps its type when one election of one node is written and votes
\* are broadcast.
LEMMA PutType ==
    ASSUME TypeOK, NEW n \in Node, NEW e \in Election, NEW el \in ElectionState,
           NEW new \in SUBSET Vote, NEW d \in Value \union {None},
           elections' = Put(elections, n, e, el),
           decided' = Put(decided, n, e, d),
           msgs' = msgs \union new
    PROVE  /\ TypeOK'
           /\ elections'[n][e] = el /\ decided'[n][e] = d
           /\ \A m \in Node, f \in Election : m # n \/ f # e =>
                 elections'[m][f] = elections[m][f] /\ decided'[m][f] = decided[m][f]
<1>1. /\ elections' \in [Node -> [Election -> ElectionState]] /\ elections'[n][e] = el
      /\ \A m \in Node, f \in Election :
            m # n \/ f # e => elections'[m][f] = elections[m][f]
  BY DEF TypeOK, Put
<1>2. /\ decided' \in [Node -> [Election -> Value \union {None}]]
      /\ decided'[n][e] = d
      /\ \A m \in Node, f \in Election :
            m # n \/ f # e => decided'[m][f] = decided[m][f]
  BY DEF TypeOK, Put
<1>3. msgs' \subseteq Vote
  BY DEF TypeOK
<1> QED BY <1>1, <1>2, <1>3 DEF TypeOK

\* The parts of a well-typed state.
LEMMA PartsType ==
    ASSUME TypeOK, NEW n \in Node, NEW e \in Election
    PROVE  /\ elections[n][e] \in ElectionState
           /\ elections[n][e].is_decided \in BOOLEAN
           /\ \A r \in Round : elections[n][e].state[r] \in RoundState
           /\ decided[n][e] \in Value \union {None}
           /\ decided = Put(decided, n, e, decided[n][e])
<1>1. elections[n][e] \in ElectionState
  BY DEF TypeOK
<1>2. decided = Put(decided, n, e, decided[n][e])
  BY DEF TypeOK, Put
<1>3. decided[n][e] \in Value \union {None}
  BY DEF TypeOK
<1> QED BY <1>1, <1>2, <1>3 DEF ElectionState

\* What handle_transaction does.
LEMMA TransactionFacts ==
    ASSUME TypeOK, NEW n \in Node, NEW e \in Election, HandleTransaction(n, e)
    PROVE  \E x \in Value :
             LET w  == RandomVote(n, e, x)
                 el == Insert(elections[n][e], 0, CastVote(elections[n][e].state[0], w))
             IN  /\ ~elections[n][e].state[0].voted
                 /\ TypeOK' /\ w \in Vote /\ el \in ElectionState
                 /\ elections'[n][e] = el /\ decided'[n][e] = decided[n][e]
                 /\ \A m \in Node, f \in Election : m # n \/ f # e =>
                       elections'[m][f] = elections[m][f] /\ decided'[m][f] = decided[m][f]
                 /\ msgs' = msgs \union {w}
<1>1. PICK x \in Coin[n] :
         /\ elections' = Put(elections, n, e, Insert(elections[n][e], 0,
                             CastVote(elections[n][e].state[0], RandomVote(n, e, x))))
         /\ msgs' = msgs \union {RandomVote(n, e, x)}
  BY DEF HandleTransaction, Put
<1>2. x \in Value
  BY InputAssumption
<1> DEFINE w  == RandomVote(n, e, x)
           rs == CastVote(elections[n][e].state[0], w)
           el == Insert(elections[n][e], 0, rs)
<1>3. w \in Vote
  BY <1>2, RandomVoteFacts
<1>4. 0 \in Round
  BY BoundAssumption DEF Round
<1>5. rs \in RoundState
  BY <1>3, <1>4, CountFacts, PartsType
<1>6. el \in ElectionState
  BY <1>4, <1>5, InsertFacts, PartsType
<1>7. /\ ~elections[n][e].state[0].voted
      /\ decided' = Put(decided, n, e, decided[n][e])
      /\ decided[n][e] \in Value \union {None}
  BY PartsType DEF HandleTransaction
<1>8. elections' = Put(elections, n, e, el) /\ msgs' = msgs \union {w}
  BY <1>1
<1> HIDE DEF w, rs, el
<1> {w} \in SUBSET Vote
  BY <1>3
<1>9. /\ TypeOK'
      /\ elections'[n][e] = el /\ decided'[n][e] = decided[n][e]
      /\ \A m \in Node, f \in Election : m # n \/ f # e =>
            elections'[m][f] = elections[m][f] /\ decided'[m][f] = decided[m][f]
  BY <1>6, <1>7, <1>8, PutType, ZenonT(60)
<1> QED BY <1>2, <1>3, <1>6, <1>7, <1>8, <1>9 DEF w, rs, el

\* What handle_vote does when it casts no vote of the next round.
LEMMA StayFacts ==
    ASSUME TypeOK, NEW n \in Node, NEW v \in Vote, Stay(n, v)
    PROVE  \E x \in Draws(n, v) :
             LET e  == v.election_hash
                 rs == Joined(n, v, x)
                 el == Insert(elections[n][e], v.round, rs)
             IN  /\ ~Advances(n, v, rs)
                 /\ TypeOK' /\ rs \in RoundState /\ el \in ElectionState
                 /\ elections'[n][e] = el /\ decided'[n][e] = decided[n][e]
                 /\ \A m \in Node, f \in Election : m # n \/ f # e =>
                       elections'[m][f] = elections[m][f] /\ decided'[m][f] = decided[m][f]
                 /\ msgs' = msgs \union OwnVotes(n, v, x)
<1> DEFINE e == v.election_hash
<1>1. PICK x \in Draws(n, v) :
         /\ ~Advances(n, v, Joined(n, v, x))
         /\ elections' = Put(elections, n, e,
                             Insert(elections[n][e], v.round, Joined(n, v, x)))
         /\ msgs' = msgs \union OwnVotes(n, v, x)
         /\ UNCHANGED decided
  BY DEF Stay, Put
<1> DEFINE rs  == Joined(n, v, x)
           el  == Insert(elections[n][e], v.round, rs)
           own == OwnVotes(n, v, x)
<1>2. e \in Election /\ v.round \in Round
  BY VoteFacts
<1>3. rs \in RoundState
  BY JoinedFacts
<1>4. el \in ElectionState
  BY <1>2, <1>3, InsertFacts, PartsType
<1>5. own \in SUBSET Vote
  BY JoinedFacts
<1>6. /\ decided' = Put(decided, n, e, decided[n][e])
      /\ decided[n][e] \in Value \union {None}
  BY <1>1, <1>2, PartsType
<1>7. elections' = Put(elections, n, e, el) /\ msgs' = msgs \union own
  BY <1>1
<1> HIDE DEF rs, el, own, e
<1>8. /\ TypeOK'
      /\ elections'[n][e] = el /\ decided'[n][e] = decided[n][e]
      /\ \A m \in Node, f \in Election : m # n \/ f # e =>
            elections'[m][f] = elections[m][f] /\ decided'[m][f] = decided[m][f]
  BY <1>2, <1>4, <1>5, <1>6, <1>7, PutType
<1> QED BY <1>1, <1>3, <1>4, <1>7, <1>8 DEF rs, el, own, e

\* What handle_vote does when it casts one.
LEMMA AdvanceFacts ==
    ASSUME TypeOK, NEW n \in Node, NEW v \in Vote, v.round < MaxRound, Advance(n, v)
    PROVE  \E x \in Draws(n, v) :
             LET e  == v.election_hash
                 rs == Joined(n, v, x)
             IN  \E d \in Decisions(n, rs.tally) :
                   LET vote   == NextVote(n, e, v.round + 1, d, rs)
                       nextRs == CastVote(elections[n][e].state[v.round + 1], vote)
                       final  == d.vote_type = "Decide"
                       el     == elections'[n][e]
                   IN  /\ Advances(n, v, rs)
                       /\ TypeOK' /\ rs \in RoundState /\ vote \in Vote
                       /\ v.round + 1 \in Round
                       /\ el.state[v.round] = rs
                       /\ el.state[v.round + 1] = nextRs
                       /\ \A q \in Round \ {v.round, v.round + 1} :
                             el.state[q] = elections[n][e].state[q]
                       /\ el.is_decided = (elections[n][e].is_decided \/ final)
                       /\ decided'[n][e] = IF final THEN d.value ELSE decided[n][e]
                       /\ \A m \in Node, f \in Election : m # n \/ f # e =>
                             /\ elections'[m][f] = elections[m][f]
                             /\ decided'[m][f] = decided[m][f]
                       /\ msgs' = msgs \union (OwnVotes(n, v, x) \union {vote})
<1> DEFINE e == v.election_hash
           next == v.round + 1
           old == elections[n][e]
           final(d) == d.vote_type = "Decide"
           vote(d, rs) == NextVote(n, e, next, d, rs)
           nextRs(d, rs) == CastVote(Insert(old, v.round, rs).state[next], vote(d, rs))
           new(d, rs) == Insert(Insert(old, v.round, rs), next, nextRs(d, rs))
           el(d, rs) == [new(d, rs) EXCEPT !.is_decided = @ \/ final(d)]
           dec(d) == IF final(d) THEN d.value ELSE decided[n][e]
<1>1. PICK x \in Draws(n, v) : \E d \in Decisions(n, Joined(n, v, x).tally) :
         /\ Advances(n, v, Joined(n, v, x))
         /\ elections' = Put(elections, n, e, el(d, Joined(n, v, x)))
         /\ decided' = Put(decided, n, e, dec(d))
         /\ msgs' = msgs \union OwnVotes(n, v, x) \union {vote(d, Joined(n, v, x))}
  BY DEF Advance, Put
<1> DEFINE rs == Joined(n, v, x)
           own == OwnVotes(n, v, x)
<1>2. PICK d \in Decisions(n, rs.tally) :
         /\ Advances(n, v, rs)
         /\ elections' = Put(elections, n, e, el(d, rs))
         /\ decided' = Put(decided, n, e, dec(d))
         /\ msgs' = msgs \union (own \union {vote(d, rs)})
  BY <1>1
<1>3. e \in Election /\ v.round \in Round /\ next \in Round /\ next # v.round
  BY VoteFacts, BoundAssumption DEF Round
<1>4. rs \in RoundState /\ own \in SUBSET Vote
  BY JoinedFacts, SMTT(60)
<1>5. d \in Decision
  BY DecisionsFacts
<1>6. vote(d, rs) \in Vote
  BY <1>3, <1>4, <1>5, NextVoteFacts
<1>7. /\ old \in ElectionState /\ old.is_decided \in BOOLEAN
      /\ old.state[next] \in RoundState
      /\ decided[n][e] \in Value \union {None}
  BY <1>3, PartsType
<1> HIDE DEF rs, own, old, e, next
<1>8. /\ Insert(old, v.round, rs) \in ElectionState
      /\ Insert(old, v.round, rs).is_decided = old.is_decided
      /\ Insert(old, v.round, rs).state[v.round] = rs
      /\ \A q \in Round : q # v.round =>
            Insert(old, v.round, rs).state[q] = old.state[q]
  BY <1>3, <1>4, <1>7, InsertFacts
<1>9. /\ nextRs(d, rs) = CastVote(old.state[next], vote(d, rs))
      /\ nextRs(d, rs) \in RoundState
  BY <1>3, <1>6, <1>7, <1>8, CountFacts
<1> HIDE DEF vote, nextRs
<1>10. /\ new(d, rs) \in ElectionState
       /\ new(d, rs).is_decided = old.is_decided
       /\ new(d, rs).state[v.round] = rs
       /\ new(d, rs).state[next] = nextRs(d, rs)
       /\ \A q \in Round \ {v.round, next} : new(d, rs).state[q] = old.state[q]
  BY <1>3, <1>8, <1>9, InsertFacts
<1> HIDE DEF new
<1>11. /\ el(d, rs) \in ElectionState
       /\ el(d, rs).is_decided = (old.is_decided \/ final(d))
       /\ el(d, rs).state = new(d, rs).state
  BY <1>7, <1>10 DEF ElectionState
<1>12. dec(d) \in Value \union {None}
  BY <1>5, <1>7 DEF Decision
<1> HIDE DEF el, dec, final
<1> DEFINE added == own \union {vote(d, rs)}
<1>13. added \in SUBSET Vote /\ msgs' = msgs \union added
  BY <1>2, <1>4, <1>6
<1> HIDE DEF added
<1>14. /\ TypeOK'
       /\ elections'[n][e] = el(d, rs) /\ decided'[n][e] = dec(d)
       /\ \A m \in Node, f \in Election : m # n \/ f # e =>
             elections'[m][f] = elections[m][f] /\ decided'[m][f] = decided[m][f]
  BY <1>2, <1>3, <1>11, <1>12, <1>13, PutType
<1>15. /\ elections'[n][e].state[v.round] = rs
       /\ elections'[n][e].state[next] = nextRs(d, rs)
       /\ \A q \in Round \ {v.round, next} : elections'[n][e].state[q] = old.state[q]
       /\ elections'[n][e].is_decided = (old.is_decided \/ final(d))
  BY <1>10, <1>11, <1>14
<1>16. /\ Advances(n, v, rs) /\ TypeOK' /\ rs \in RoundState /\ vote(d, rs) \in Vote
       /\ next \in Round
       /\ elections'[n][e].state[v.round] = rs
       /\ elections'[n][e].state[next] = CastVote(old.state[next], vote(d, rs))
       /\ \A q \in Round \ {v.round, next} : elections'[n][e].state[q] = old.state[q]
       /\ elections'[n][e].is_decided = (old.is_decided \/ final(d))
       /\ decided'[n][e] = dec(d)
       /\ \A m \in Node, f \in Election : m # n \/ f # e =>
             elections'[m][f] = elections[m][f] /\ decided'[m][f] = decided[m][f]
       /\ msgs' = msgs \union (own \union {vote(d, rs)})
  BY <1>2, <1>3, <1>4, <1>6, <1>9, <1>14, <1>15
<1> QED BY <1>16, Zenon DEF rs, own, old, e, next, vote, final, dec

\* A handler of a vote stays, advances, or changes nothing.
LEMMA VoteStep ==
    ASSUME NEW n \in Node, NEW v, HandleVote(n, v)
    PROVE  \/ UNCHANGED vars
           \/ /\ v.round < MaxRound
              /\ Digest(v) \notin Hashes(elections[n][v.election_hash].state[v.round])
              /\ "Valid" \in ValidateVote(n, v)
              /\ Stay(n, v) \/ Advance(n, v)
BY DEF HandleVote, IgnoreVote, RejectVote, ParkVote

\* The initial state is well-typed.
LEMMA InitType == Init => TypeOK
<1> SUFFICES ASSUME Init
             PROVE  TypeOK
  OBVIOUS
<1>1. NewRoundState \in RoundState
  BY TallyVoteType DEF NewRoundState, RoundState
<1>2. NewElection \in ElectionState
  BY <1>1 DEF NewElection, ElectionState
<1> QED BY <1>2 DEF Init, TypeOK

\* Every step keeps the types: in particular no handler casts a vote of a
\* round, or writes a round state, outside those it may.
LEMMA NextType == TypeOK /\ [Next]_vars => TypeOK'
<1> SUFFICES ASSUME TypeOK, [Next]_vars
             PROVE  TypeOK'
  OBVIOUS
<1>1. CASE UNCHANGED vars
  BY <1>1 DEF vars, TypeOK
<1>2. ASSUME NEW n \in Node, NEW e \in Election, HandleTransaction(n, e)
      PROVE  TypeOK'
  BY <1>2, TransactionFacts
<1>3. ASSUME NEW n \in Node, NEW v \in msgs, HandleVote(n, v)
      PROVE  TypeOK'
  <2>1. v \in Vote
    BY DEF TypeOK
  <2>2. CASE Stay(n, v)
    BY <2>1, <2>2, StayFacts
  <2>3. CASE v.round < MaxRound /\ Advance(n, v)
    BY <2>1, <2>3, AdvanceFacts
  <2> QED BY <1>1, <1>3, <2>2, <2>3, VoteStep
<1> QED BY <1>1, <1>2, <1>3 DEF Next

\* The state of the core always has its type.
THEOREM TypeCorrect == Spec => []TypeOK
BY InitType, NextType, PTL DEF Spec
-----------------------------------------------------------------------------
(***************************************************************************)
(* Every step of NeroCore from a state of the invariant is a stutter or    *)
(* has one shape: a node hears at most one vote of a round, adds at most   *)
(* one vote of its own to that round, and casts at most one vote of the    *)
(* next.                                                                   *)
(***************************************************************************)
AtMostOne(S) == S = {} \/ \E v \in Vote : S = {v}

\* The rest of the state is left alone, and msgs grows by what is broadcast.
Frame(n, e, own, cast) ==
    /\ TypeOK'
    /\ msgs' = msgs \union (own \union cast)
    /\ \A m \in Node, f \in Election : m # n \/ f # e =>
          elections'[m][f] = elections[m][f] /\ decided'[m][f] = decided[m][f]

\* The votes of new enter their rounds, and the tallies follow.
Enters(n, e, new) ==
    \A q \in Round :
        /\ Validated(n, e, q)' = Validated(n, e, q) \union {v \in new : v.round = q}
        /\ elections'[n][e].state[q].tally = Seen(Validated(n, e, q)')

\* A round is marked as voted by a vote of the node itself.
Marks(n, e, new) ==
    \A q \in Round :
        elections'[n][e].state[q].voted <=>
            elections[n][e].state[q].voted \/ \E v \in new : v.round = q

\* What is heard: a vote of another signer than those of the round, valid.
HeardOK(n, e, r, heard) ==
    \A v \in heard :
        /\ v \in msgs /\ v.round = r /\ v.election_hash = e /\ v.signer # n
        /\ \A w \in Validated(n, e, r) : w.signer # v.signer
        /\ r > 0 =>
              /\ v.proof \subseteq {Digest(w) : w \in ProofVotes(n, v)}
              /\ n \in Honest =>
                    VoteChoice(v) = MakeDecision(FromVotes(ProofVotes(n, v)))

\* The vote of its own a node adds in round 0, not having voted there.
OwnOK(n, e, r, own) ==
    \A v \in own :
        /\ v.signer = n /\ v.round = 0 /\ r = 0 /\ v.election_hash = e
        /\ v.vote_type = "InitialVote"
        /\ ~elections[n][e].state[0].voted

\* The vote of the next round, made of a quorum of this one.
CastOK(n, e, r, cast) ==
    \A v \in cast :
        /\ v.signer = n /\ v.round = r + 1 /\ r + 1 \in Round /\ v.election_hash = e
        /\ ~elections[n][e].state[r + 1].voted
        /\ ~elections[n][e].is_decided
        /\ v.proof = {u.signer : u \in Validated(n, e, r)'}
        /\ Cardinality(Validated(n, e, r)') >= QUORUM
        /\ n \in Honest => VoteChoice(v) = MakeDecision(Seen(Validated(n, e, r)'))

\* No vote of the next round is cast only if none is due.
NotDue(n, e, r) ==
    r # MaxRound =>
        \/ elections[n][e].is_decided
        \/ Cardinality(Validated(n, e, r)') < QUORUM
        \/ elections[n][e].state[r + 1].voted

\* The election is decided by casting a Decide.
Decides(n, e, cast) ==
    /\ elections'[n][e].is_decided <=>
          elections[n][e].is_decided \/ \E v \in cast : v.vote_type = "Decide"
    /\ \A v \in cast : v.vote_type = "Decide" => decided'[n][e] = v.value
    /\ (\A v \in cast : v.vote_type # "Decide") => decided'[n][e] = decided[n][e]

Shape(n, e, r, heard, own, cast) ==
    /\ n \in Node /\ e \in Election /\ r \in Round
    /\ AtMostOne(heard) /\ AtMostOne(own) /\ AtMostOne(cast)
    /\ Frame(n, e, own, cast)
    /\ Enters(n, e, heard \union own \union cast)
    /\ Marks(n, e, own \union cast)
    /\ HeardOK(n, e, r, heard)
    /\ r = 0 => elections'[n][e].state[0].voted
    /\ OwnOK(n, e, r, own)
    /\ CastOK(n, e, r, cast)
    /\ cast = {} => NotDue(n, e, r)
    /\ Decides(n, e, cast)
-----------------------------------------------------------------------------
\* A vote a node has not cast is not among those it validated.
LEMMA FreshVote ==
    ASSUME VotedHasVote, NEW w \in Vote,
           ~elections[w.signer][w.election_hash].state[w.round].voted
    PROVE  w \notin Validated(w.signer, w.election_hash, w.round)
BY VoteFacts DEF VotedHasVote

\* Counting a vote not yet counted.
LEMMA CountedOnce ==
    ASSUME NEW S, IsFiniteSet(S), NEW v \in Vote, v \notin S
    PROVE  TallyVote(Seen(S), v) = Seen(S \union {v}) /\ IsFiniteSet(S \union {v})
<1>1. Ballots({v})
  BY DEF Ballots, Vote
<1> QED BY <1>1, SeenOneMore, FS_AddElement

\* A valid vote that is handled, and what it was checked for.
LEMMA ValidFacts ==
    ASSUME TypeOK, NEW n \in Node, NEW v \in msgs, v.signer # n,
           Digest(v) \notin Hashes(elections[n][v.election_hash].state[v.round]),
           "Valid" \in ValidateVote(n, v)
    PROVE  HeardOK(n, v.election_hash, v.round, {v})
<1> DEFINE e == v.election_hash
<1>1. /\ v \in Vote /\ v.signer \in Node /\ v.round \in Nat /\ Digest(v) = v.signer
  BY VoteFacts DEF TypeOK
<1>2. \A w \in Validated(n, e, v.round) : w.signer # v.signer
  BY DEF Hashes, Digest, Validated
<1>3. ASSUME v.round > 0
      PROVE  /\ v.proof \subseteq {Digest(w) : w \in ProofVotes(n, v)}
             /\ n \in Honest =>
                   VoteChoice(v) = MakeDecision(FromVotes(ProofVotes(n, v)))
  <2>1. v.proof \subseteq {Digest(w) : w \in Validated(n, e, v.round - 1)}
    BY <1>1, <1>3 DEF ValidateVote
  <2>2. v.proof \subseteq {Digest(w) : w \in ProofVotes(n, v)}
    BY <2>1 DEF ProofVotes
  <2>3. PICK d \in Decisions(n, FromVotes(ProofVotes(n, v))) :
           d.value = v.value /\ d.vote_type = v.vote_type
    BY <1>1, <1>3, <2>1 DEF ValidateVote
  <2>4. ASSUME n \in Honest
        PROVE  VoteChoice(v) = MakeDecision(FromVotes(ProofVotes(n, v)))
    <3>1. d \in Decision /\ d = MakeDecision(FromVotes(ProofVotes(n, v)))
      BY <2>4, DecisionsFacts
    <3>2. VoteChoice(v) = d
      BY <2>3, <3>1 DEF VoteChoice, Choice, Decision
    <3> QED BY <3>1, <3>2
  <2> QED BY <2>2, <2>4
<1> QED BY <1>2, <1>3 DEF HeardOK

\* What the invariant says of one round of one node.
LEMMA RoundFacts ==
    ASSUME TypeOK, ViewsAreVotes, TallyMatchesVotes,
           NEW n \in Node, NEW e \in Election, NEW r \in Round
    PROVE  LET rs == elections[n][e].state[r]
           IN  /\ rs \in RoundState /\ rs.voted \in BOOLEAN
               /\ rs.validated_votes = Validated(n, e, r)
               /\ rs.tally = Seen(Validated(n, e, r))
               /\ IsFiniteSet(Validated(n, e, r))
               /\ Validated(n, e, r) \subseteq msgs
<1>1. elections[n][e].state[r] \in RoundState
  BY PartsType
<1> QED BY <1>1 DEF RoundState, Validated, TallyMatchesVotes, ViewsAreVotes

\* A transaction.
LEMMA TransactionShape ==
    ASSUME ViewInv, NEW n \in Node, NEW e \in Election, HandleTransaction(n, e)
    PROVE  \E own \in SUBSET Vote : Shape(n, e, 0, {}, own, {})
<1>1. /\ TypeOK /\ ViewsAreVotes /\ VotedHasVote /\ TallyMatchesVotes /\ VotesFirst
  BY DEF ViewInv, VotesInv, RoundsInv
<1> DEFINE new(x) == RandomVote(n, e, x)
           write(x) == Insert(elections[n][e], 0, CastVote(elections[n][e].state[0], new(x)))
<1>2. PICK x \in Value :
         /\ ~elections[n][e].state[0].voted
         /\ TypeOK' /\ new(x) \in Vote /\ write(x) \in ElectionState
         /\ elections'[n][e] = write(x) /\ decided'[n][e] = decided[n][e]
         /\ \A m \in Node, f \in Election : m # n \/ f # e =>
               elections'[m][f] = elections[m][f] /\ decided'[m][f] = decided[m][f]
         /\ msgs' = msgs \union {new(x)}
  BY <1>1, TransactionFacts
<1> DEFINE w == new(x)
           rs == elections[n][e].state[0]
           next == CastVote(rs, w)
           V == Validated(n, e, 0)
<1>3. /\ w \in Vote /\ w.signer = n /\ w.round = 0 /\ w.election_hash = e
      /\ w.vote_type = "InitialVote"
  BY RandomVoteFacts
<1> HIDE DEF new
<1>4. 0 \in Round
  BY BoundAssumption DEF Round
<1>5. /\ rs \in RoundState /\ rs.validated_votes = V /\ rs.tally = Seen(V)
      /\ IsFiniteSet(V)
  BY <1>1, <1>4, RoundFacts
<1>6. w \notin V
  BY <1>1, <1>2, <1>3, FreshVote
<1>7. /\ next \in RoundState /\ next.validated_votes = V \union {w}
      /\ next.tally = Seen(V \union {w}) /\ next.voted
  <2> HIDE DEF w, rs, V
  <2>1. /\ CastVote(rs, w) \in RoundState
        /\ CastVote(rs, w).validated_votes = rs.validated_votes \union {w}
        /\ CastVote(rs, w).tally = TallyVote(rs.tally, w)
        /\ CastVote(rs, w).voted = TRUE
    BY <1>3, <1>5, CountFacts
  <2>2. TallyVote(Seen(V), w) = Seen(V \union {w})
    BY <1>3, <1>5, <1>6, CountedOnce
  <2> QED BY <1>5, <2>1, <2>2
<1>8. /\ elections'[n][e].state[0] = next
      /\ \A q \in Round : q # 0 => elections'[n][e].state[q] = elections[n][e].state[q]
      /\ elections'[n][e].is_decided = elections[n][e].is_decided
  <2>1. elections'[n][e] = Insert(elections[n][e], 0, next)
    BY <1>2
  <2> HIDE DEF next
  <2> QED BY <1>1, <1>4, <1>7, <2>1, InsertFacts, PartsType
<1> HIDE DEF w, next, rs
<1>9. Frame(n, e, {w}, {})
  BY <1>2 DEF Frame, w
<1>10. Enters(n, e, {w})
  <2> SUFFICES ASSUME NEW q \in Round
               PROVE  /\ Validated(n, e, q)' = Validated(n, e, q) \union {v \in {w} : v.round = q}
                      /\ elections'[n][e].state[q].tally = Seen(Validated(n, e, q)')
    BY DEF Enters
  <2>1. CASE q = 0
    BY <1>3, <1>7, <1>8, <2>1 DEF Validated
  <2>2. CASE q # 0
    <3>1. Validated(n, e, q)' = Validated(n, e, q)
      BY <1>8, <2>2 DEF Validated
    <3>2. elections'[n][e].state[q].tally = Seen(Validated(n, e, q))
      BY <1>1, <1>8, <2>2 DEF TallyMatchesVotes
    <3>3. {v \in {w} : v.round = q} = {}
      BY <1>3, <2>2
    <3> QED BY <3>1, <3>2, <3>3
  <2> QED BY <2>1, <2>2
<1>11. Marks(n, e, {w})
  BY <1>3, <1>7, <1>8 DEF Marks
<1>12. OwnOK(n, e, 0, {w})
  BY <1>2, <1>3 DEF OwnOK
<1>13. NotDue(n, e, 0)
  <2> SUFFICES ASSUME ~elections[n][e].is_decided
               PROVE  Cardinality(Validated(n, e, 0)') < QUORUM
    BY DEF NotDue
  <2>1. V = {}
    BY <1>1, <1>2, <1>4 DEF VotesFirst
  <2>2. Validated(n, e, 0)' = {w}
    BY <1>7, <1>8, <2>1 DEF Validated
  <2>3. \A u : Cardinality({u}) = 1
    BY FS_Singleton
  <2>4. 1 < QUORUM
    BY FAssumption DEF QUORUM
  <2> HIDE DEF w
  <2> QED BY <2>2, <2>3, <2>4
<1>14. Decides(n, e, {})
  BY <1>2, <1>8 DEF Decides
<1>15. HeardOK(n, e, 0, {}) /\ CastOK(n, e, 0, {})
  BY DEF HeardOK, CastOK
<1>16. AtMostOne({w}) /\ AtMostOne({}) /\ {w} \in SUBSET Vote
  BY <1>3 DEF AtMostOne
<1>17. {} \union {w} \union {} = {w} /\ {w} \union {} = {w}
  OBVIOUS
<1>18. Shape(n, e, 0, {}, {w}, {})
  BY <1>4, <1>7, <1>8, <1>9, <1>10, <1>11, <1>12, <1>13, <1>14, <1>15, <1>16, <1>17
  DEF Shape
<1> QED BY <1>16, <1>18

\* The round of a node that hears v, with the vote of its own it may add.
LEMMA HeardRound ==
    ASSUME ViewInv, NEW n \in Node, NEW v \in msgs, NEW x \in Draws(n, v),
           HeardOK(n, v.election_hash, v.round, {v})
    PROVE  LET e   == v.election_hash
               r   == v.round
               rs  == Joined(n, v, x)
               own == OwnVotes(n, v, x)
               V   == Validated(n, e, r) \union ({v} \union own)
           IN  /\ rs.validated_votes = V
               /\ rs.tally = Seen(V)
               /\ IsFiniteSet(V)
               /\ rs.voted <=> elections[n][e].state[r].voted \/ \E w \in own : w.round = r
               /\ \A w \in own : w.round = r
               /\ r = 0 => rs.voted
               /\ AtMostOne(own) /\ own \in SUBSET Vote
               /\ OwnOK(n, e, r, own)
<1>1. /\ TypeOK /\ ViewsAreVotes /\ VotedHasVote /\ TallyMatchesVotes
      /\ v \in Vote /\ v.election_hash \in Election /\ v.round \in Round
  <2>1. v \in Vote
    BY DEF ViewInv, VotesInv, TypeOK
  <2> QED BY <2>1, VoteFacts DEF ViewInv, VotesInv, RoundsInv
<1> DEFINE e   == v.election_hash
           r   == v.round
           old == elections[n][e].state[r]
           own == OwnVotes(n, v, x)
           rs  == Joined(n, v, x)
           W   == Validated(n, e, r)
           w   == RandomVote(n, e, x)
<1>2. /\ old.voted \in BOOLEAN /\ old.tally = Seen(W) /\ old.validated_votes = W
      /\ IsFiniteSet(W)
  BY <1>1, RoundFacts
<1>3. /\ v \notin W /\ v.signer # n
  BY DEF HeardOK
<1>4. /\ rs.validated_votes = W \union {v} \union own
      /\ rs.voted = (old.voted \/ v.signer = n \/ r = 0)
      /\ own = {} \/ /\ own = {w} /\ w \in Vote /\ ~old.voted /\ r = 0
                     /\ rs.tally = TallyVote(TallyVote(old.tally, v), w)
      /\ own = {} => rs.tally = TallyVote(old.tally, v)
  <2>0. TypeOK /\ v \in Vote
    BY <1>1
  <2>1. /\ Joined(n, v, x).validated_votes = old.validated_votes \union {v} \union own
        /\ Joined(n, v, x).voted = (old.voted \/ v.signer = n \/ v.round = 0)
        /\ own = {} \/ \E u \in Vote :
              /\ own = {u} /\ u = w /\ ~old.voted /\ v.signer # n /\ v.round = 0
              /\ Joined(n, v, x).tally = TallyVote(TallyVote(old.tally, v), u)
        /\ own = {} => Joined(n, v, x).tally = TallyVote(old.tally, v)
    BY <2>0, JoinedFacts, SMTT(90)
  <2> HIDE DEF w, own, old, W
  <2> QED BY <1>2, <2>1
<1>5. /\ TallyVote(Seen(W), v) = Seen(W \union {v})
      /\ IsFiniteSet(W \union {v})
  BY <1>1, <1>2, <1>3, CountedOnce
<1>6. CASE own = {}
  <2>1. r = 0 => old.voted
    <3> SUFFICES ASSUME r = 0, ~old.voted
                 PROVE  FALSE
      OBVIOUS
    <3>1. ~Accepted(n, v).voted
      BY <1>1, <1>2, <1>3, AcceptedFacts
    <3>2. x # None
      BY <3>1, DrawsFacts
    <3> QED BY <1>6, <3>2 DEF OwnVotes
  <2>2. W \union ({v} \union own) = W \union {v}
    BY <1>6
  <2>3. rs.voted <=> old.voted
    BY <1>2, <1>3, <1>4, <2>1
  <2> QED BY <1>2, <1>4, <1>5, <1>6, <2>1, <2>2, <2>3 DEF OwnOK, AtMostOne
<1>7. CASE own # {}
  <2>1. /\ own = {w} /\ w \in Vote /\ ~old.voted /\ r = 0
        /\ rs.tally = TallyVote(Seen(W \union {v}), w)
    BY <1>2, <1>4, <1>5, <1>7
  <2>2. x \in Value
    <3>1. x # None
      BY <1>7 DEF OwnVotes
    <3> QED BY <3>1, DrawsFacts
  <2>3. /\ w.signer = n /\ w.round = 0 /\ w.election_hash = e
        /\ w.vote_type = "InitialVote"
    BY <1>1, <2>2, RandomVoteFacts
  <2> HIDE DEF w
  <2>4. w \notin W /\ w # v
    BY <1>1, <1>3, <2>1, <2>3, FreshVote
  <2>5. /\ TallyVote(Seen(W \union {v}), w) = Seen((W \union {v}) \union {w})
        /\ IsFiniteSet((W \union {v}) \union {w})
    BY <1>5, <2>1, <2>4, CountedOnce
  <2>6. (W \union {v}) \union {w} = W \union ({v} \union own)
    BY <2>1
  <2>7. rs.voted
    BY <1>4, <2>1
  <2> QED BY <1>4, <2>1, <2>3, <2>5, <2>6, <2>7 DEF OwnOK, AtMostOne
<1> QED BY <1>6, <1>7

\* A vote that is counted without a vote of the next round.
LEMMA StayShape ==
    ASSUME ViewInv, NEW n \in Node, NEW v \in msgs, Stay(n, v),
           v.round < MaxRound, HeardOK(n, v.election_hash, v.round, {v})
    PROVE  \E own \in SUBSET Vote : Shape(n, v.election_hash, v.round, {v}, own, {})
<1> DEFINE e == v.election_hash
           r == v.round
           old == elections[n][e]
<1>1. /\ TypeOK /\ ViewsAreVotes /\ TallyMatchesVotes
      /\ v \in Vote /\ e \in Election /\ r \in Round
  <2>1. v \in Vote
    BY DEF ViewInv, VotesInv, TypeOK
  <2> QED BY <2>1, VoteFacts DEF ViewInv, VotesInv, RoundsInv
<1>2. PICK x \in Draws(n, v) :
         LET rs == Joined(n, v, x)
             el == Insert(elections[n][e], v.round, rs)
         IN  /\ ~Advances(n, v, rs)
             /\ TypeOK' /\ rs \in RoundState /\ el \in ElectionState
             /\ elections'[n][e] = el /\ decided'[n][e] = decided[n][e]
             /\ \A m \in Node, f \in Election : m # n \/ f # e =>
                   elections'[m][f] = elections[m][f] /\ decided'[m][f] = decided[m][f]
             /\ msgs' = msgs \union OwnVotes(n, v, x)
  BY <1>1, StayFacts
<1> DEFINE rs  == Joined(n, v, x)
           own == OwnVotes(n, v, x)
           V   == Validated(n, e, r) \union ({v} \union own)
<1>3. /\ rs.validated_votes = V /\ rs.tally = Seen(V) /\ IsFiniteSet(V)
      /\ rs.voted <=> old.state[r].voted \/ \E w \in own : w.round = r
      /\ \A w \in own : w.round = r
      /\ r = 0 => rs.voted
      /\ AtMostOne(own) /\ own \in SUBSET Vote
      /\ OwnOK(n, e, r, own)
  BY HeardRound, ZenonT(90)
<1>4. /\ elections'[n][e].state[r] = rs
      /\ \A q \in Round : q # r => elections'[n][e].state[q] = old.state[q]
      /\ elections'[n][e].is_decided = old.is_decided
  <2>1. elections'[n][e] = Insert(old, r, rs) /\ rs \in RoundState
    BY <1>2
  <2> HIDE DEF rs
  <2> QED BY <1>1, <2>1, InsertFacts, PartsType
<1>5. /\ ~Advances(n, v, rs) /\ decided'[n][e] = decided[n][e]
      /\ Frame(n, e, own, {})
  BY <1>2 DEF Frame
<1> HIDE DEF rs, own
<1>6. Enters(n, e, {v} \union own)
  <2> SUFFICES ASSUME NEW q \in Round
               PROVE  /\ Validated(n, e, q)' =
                            Validated(n, e, q) \union {u \in {v} \union own : u.round = q}
                      /\ elections'[n][e].state[q].tally = Seen(Validated(n, e, q)')
    BY DEF Enters
  <2>1. CASE q = r
    <3>1. {u \in {v} \union own : u.round = q} = {v} \union own
      BY <1>3, <2>1
    <3> QED BY <1>3, <1>4, <2>1, <3>1 DEF Validated
  <2>2. CASE q # r
    <3>1. {u \in {v} \union own : u.round = q} = {}
      BY <1>3, <2>2
    <3>2. Validated(n, e, q)' = Validated(n, e, q)
      BY <1>4, <2>2 DEF Validated
    <3>3. elections'[n][e].state[q].tally = Seen(Validated(n, e, q))
      BY <1>1, <1>4, <2>2 DEF TallyMatchesVotes
    <3> QED BY <3>1, <3>2, <3>3
  <2> QED BY <2>1, <2>2
<1>7. Marks(n, e, own)
  BY <1>3, <1>4 DEF Marks
<1>8. NotDue(n, e, r)
  <2>1. Validated(n, e, r)' = rs.validated_votes
    BY <1>4 DEF Validated
  <2>2. Cardinality(rs.validated_votes) \in Nat
    BY <1>3, FS_CardinalityType
  <2>3. QUORUM \in Nat
    BY FAssumption DEF QUORUM
  <2> QED BY <1>5, <2>1, <2>2, <2>3 DEF NotDue, Advances
<1>9. Decides(n, e, {})
  BY <1>4, <1>5 DEF Decides
<1>10. AtMostOne({v}) /\ AtMostOne({}) /\ CastOK(n, e, r, {})
  BY <1>1 DEF AtMostOne, CastOK
<1>11. {v} \union own \union {} = {v} \union own /\ own \union {} = own
  OBVIOUS
<1>12. r = 0 => elections'[n][e].state[0].voted
  BY <1>3, <1>4
<1>13. Shape(n, e, r, {v}, own, {})
  BY <1>1, <1>3, <1>5, <1>6, <1>7, <1>8, <1>9, <1>10, <1>11, <1>12 DEF Shape
<1> QED BY <1>3, <1>13

\* A vote that is counted and makes the node cast a vote of the next round.
LEMMA AdvanceShape ==
    ASSUME ViewInv, NEW n \in Node, NEW v \in msgs, Advance(n, v),
           v.round < MaxRound, HeardOK(n, v.election_hash, v.round, {v})
    PROVE  \E own, cast \in SUBSET Vote :
               Shape(n, v.election_hash, v.round, {v}, own, cast)
<1> DEFINE e == v.election_hash
           r == v.round
           old == elections[n][e]
<1>1. /\ TypeOK /\ ViewsAreVotes /\ TallyMatchesVotes /\ VotedHasVote
      /\ v \in Vote /\ e \in Election /\ r \in Round /\ r \in Nat
  <2>1. v \in Vote
    BY DEF ViewInv, VotesInv, TypeOK
  <2> QED BY <2>1, VoteFacts DEF ViewInv, VotesInv, RoundsInv
<1>2. PICK x \in Draws(n, v) :
         LET rs == Joined(n, v, x)
         IN  \E d \in Decisions(n, rs.tally) :
               LET vote   == NextVote(n, e, r + 1, d, rs)
                   nextRs == CastVote(elections[n][e].state[r + 1], vote)
                   final  == d.vote_type = "Decide"
                   el     == elections'[n][e]
               IN  /\ Advances(n, v, rs)
                   /\ TypeOK' /\ rs \in RoundState /\ vote \in Vote
                   /\ r + 1 \in Round
                   /\ el.state[r] = rs
                   /\ el.state[r + 1] = nextRs
                   /\ \A q \in Round \ {r, r + 1} :
                         el.state[q] = elections[n][e].state[q]
                   /\ el.is_decided = (elections[n][e].is_decided \/ final)
                   /\ decided'[n][e] = IF final THEN d.value ELSE decided[n][e]
                   /\ \A m \in Node, f \in Election : m # n \/ f # e =>
                         /\ elections'[m][f] = elections[m][f]
                         /\ decided'[m][f] = decided[m][f]
                   /\ msgs' = msgs \union (OwnVotes(n, v, x) \union {vote})
  BY <1>1, AdvanceFacts
<1> DEFINE rs  == Joined(n, v, x)
           own == OwnVotes(n, v, x)
           V   == Validated(n, e, r) \union ({v} \union own)
<1>3. PICK d \in Decisions(n, rs.tally) :
         LET vote == NextVote(n, e, r + 1, d, rs)
         IN  /\ Advances(n, v, rs)
             /\ TypeOK' /\ rs \in RoundState /\ vote \in Vote
             /\ r + 1 \in Round
             /\ elections'[n][e].state[r] = rs
             /\ elections'[n][e].state[r + 1] = CastVote(old.state[r + 1], vote)
             /\ \A q \in Round \ {r, r + 1} :
                   elections'[n][e].state[q] = old.state[q]
             /\ elections'[n][e].is_decided = (old.is_decided \/ d.vote_type = "Decide")
             /\ decided'[n][e] =
                   IF d.vote_type = "Decide" THEN d.value ELSE decided[n][e]
             /\ \A m \in Node, f \in Election : m # n \/ f # e =>
                   /\ elections'[m][f] = elections[m][f]
                   /\ decided'[m][f] = decided[m][f]
             /\ msgs' = msgs \union (own \union {vote})
  BY <1>2
<1> DEFINE vote == NextVote(n, e, r + 1, d, rs)
           next == old.state[r + 1]
           N    == Validated(n, e, r + 1)
<1>4. /\ rs.validated_votes = V /\ rs.tally = Seen(V)
      /\ rs.voted <=> old.state[r].voted \/ \E w \in own : w.round = r
      /\ \A w \in own : w.round = r
      /\ r = 0 => rs.voted
      /\ AtMostOne(own) /\ own \in SUBSET Vote
      /\ OwnOK(n, e, r, own)
  BY HeardRound, ZenonT(90)
<1>5. /\ d \in Decision
      /\ n \in Honest => d = MakeDecision(rs.tally)
  BY DecisionsFacts
<1>6. /\ vote.signer = n /\ vote.round = r + 1 /\ vote.election_hash = e
      /\ vote.vote_type = d.vote_type /\ vote.value = d.value
      /\ vote.proof = {u.signer : u \in rs.validated_votes}
  BY <1>1, <1>3, <1>5, NextVoteFacts
<1>7. /\ Cardinality(rs.validated_votes) >= QUORUM /\ ~next.voted /\ ~old.is_decided
  BY <1>3 DEF Advances
<1>8. /\ vote \in Vote /\ r + 1 \in Round
      /\ elections'[n][e].state[r] = rs
      /\ elections'[n][e].state[r + 1] = CastVote(next, vote)
      /\ \A q \in Round \ {r, r + 1} : elections'[n][e].state[q] = old.state[q]
      /\ elections'[n][e].is_decided = (old.is_decided \/ d.vote_type = "Decide")
      /\ decided'[n][e] = IF d.vote_type = "Decide" THEN d.value ELSE decided[n][e]
  BY <1>3
<1>9. Frame(n, e, own, {vote})
  BY <1>3 DEF Frame
<1> HIDE DEF vote, rs, own
<1>10. /\ next \in RoundState /\ next.tally = Seen(N) /\ next.validated_votes = N
       /\ IsFiniteSet(N)
  BY <1>1, <1>8, RoundFacts
<1>11. vote \notin N
  BY <1>1, <1>6, <1>7, <1>8, FreshVote
<1>12. /\ CastVote(next, vote).validated_votes = N \union {vote}
       /\ CastVote(next, vote).tally = Seen(N \union {vote})
       /\ CastVote(next, vote).voted
  <2> HIDE DEF next, N
  <2>1. /\ CastVote(next, vote).validated_votes = next.validated_votes \union {vote}
        /\ CastVote(next, vote).tally = TallyVote(next.tally, vote)
        /\ CastVote(next, vote).voted = TRUE
    BY <1>8, <1>10, CountFacts
  <2>2. TallyVote(Seen(N), vote) = Seen(N \union {vote})
    BY <1>8, <1>10, <1>11, CountedOnce
  <2> QED BY <1>10, <2>1, <2>2
<1> DEFINE new == {v} \union own \union {vote}
<1>13. Enters(n, e, new)
  <2> SUFFICES ASSUME NEW q \in Round
               PROVE  /\ Validated(n, e, q)' =
                            Validated(n, e, q) \union {u \in new : u.round = q}
                      /\ elections'[n][e].state[q].tally = Seen(Validated(n, e, q)')
    BY DEF Enters
  <2>1. CASE q = r
    <3>1. {u \in new : u.round = q} = {v} \union own
      BY <1>1, <1>4, <1>6, <2>1
    <3>2. Validated(n, e, q)' = V
      BY <1>4, <1>8, <2>1 DEF Validated
    <3> QED BY <1>4, <1>8, <2>1, <3>1, <3>2
  <2>2. CASE q = r + 1
    <3>1. {u \in new : u.round = q} = {vote}
      BY <1>1, <1>4, <1>6, <2>2
    <3>2. Validated(n, e, q)' = N \union {vote}
      BY <1>8, <1>12, <2>2 DEF Validated
    <3> QED BY <1>8, <1>12, <2>2, <3>1, <3>2
  <2>3. CASE q \notin {r, r + 1}
    <3>1. {u \in new : u.round = q} = {}
      BY <1>4, <1>6, <2>3
    <3>2. Validated(n, e, q)' = Validated(n, e, q)
      BY <1>8, <2>3 DEF Validated
    <3>3. elections'[n][e].state[q].tally = Seen(Validated(n, e, q))
      BY <1>1, <1>8, <2>3 DEF TallyMatchesVotes
    <3> QED BY <3>1, <3>2, <3>3
  <2> QED BY <2>1, <2>2, <2>3
<1>14. Marks(n, e, own \union {vote})
  <2> SUFFICES ASSUME NEW q \in Round
               PROVE  elections'[n][e].state[q].voted <=>
                         old.state[q].voted \/ \E u \in own \union {vote} : u.round = q
    BY DEF Marks
  <2>1. CASE q = r
    BY <1>1, <1>4, <1>6, <1>8, <2>1, SMTT(30)
  <2>2. CASE q = r + 1
    BY <1>6, <1>8, <1>12, <2>2
  <2>3. CASE q \notin {r, r + 1}
    BY <1>4, <1>6, <1>8, <2>3
  <2> QED BY <2>1, <2>2, <2>3
<1>15. CastOK(n, e, r, {vote})
  <2>1. Validated(n, e, r)' = rs.validated_votes
    BY <1>8 DEF Validated
  <2>2. n \in Honest => VoteChoice(vote) = MakeDecision(Seen(rs.validated_votes))
    BY <1>4, <1>5, <1>6 DEF VoteChoice, Choice, Decision
  <2> QED BY <1>6, <1>7, <1>8, <2>1, <2>2 DEF CastOK
<1>16. Decides(n, e, {vote})
  BY <1>6, <1>8 DEF Decides
<1>17. /\ AtMostOne({v}) /\ AtMostOne({vote}) /\ {vote} \in SUBSET Vote
  BY <1>1, <1>8 DEF AtMostOne
<1>18. r = 0 => elections'[n][e].state[0].voted
  BY <1>4, <1>8
<1>19. Shape(n, e, r, {v}, own, {vote})
  BY <1>1, <1>4, <1>9, <1>13, <1>14, <1>15, <1>16, <1>17, <1>18 DEF Shape
<1> QED BY <1>4, <1>17, <1>19

\* A step of a node, the echo of its own votes left aside, is a stutter or has
\* the shape.
LEMMA WorkShape ==
    ASSUME ViewInv,
           \/ \E n \in Node, e \in Election : HandleTransaction(n, e)
           \/ \E n \in Node, v \in msgs : v.signer # n /\ HandleVote(n, v)
    PROVE  \/ UNCHANGED vars
           \/ \E n \in Node, e \in Election, r \in Round :
                 \E heard, own, cast \in SUBSET Vote : Shape(n, e, r, heard, own, cast)
<1>1. TypeOK
  BY DEF ViewInv, VotesInv
<1>2. ASSUME NEW n \in Node, NEW e \in Election, HandleTransaction(n, e)
      PROVE  \E r \in Round : \E heard, own, cast \in SUBSET Vote :
                 Shape(n, e, r, heard, own, cast)
  BY <1>2, TransactionShape, BoundAssumption DEF Round
<1>3. ASSUME NEW n \in Node, NEW v \in msgs, v.signer # n, HandleVote(n, v),
             ~UNCHANGED vars
      PROVE  \E e \in Election, r \in Round : \E heard, own, cast \in SUBSET Vote :
                 Shape(n, e, r, heard, own, cast)
  <2>1. v \in Vote /\ {v} \in SUBSET Vote
    BY <1>1 DEF TypeOK
  <2>2. v.election_hash \in Election /\ v.round \in Round
    BY <2>1, VoteFacts
  <2>3. /\ v.round < MaxRound
        /\ Digest(v) \notin Hashes(elections[n][v.election_hash].state[v.round])
        /\ "Valid" \in ValidateVote(n, v)
        /\ Stay(n, v) \/ Advance(n, v)
    BY <1>3, VoteStep
  <2>4. HeardOK(n, v.election_hash, v.round, {v})
    BY <1>1, <1>3, <2>3, ValidFacts
  <2>5. CASE Stay(n, v)
    BY <2>1, <2>2, <2>3, <2>4, <2>5, StayShape
  <2>6. CASE Advance(n, v)
    BY <2>1, <2>2, <2>3, <2>4, <2>6, AdvanceShape
  <2> QED BY <2>3, <2>5, <2>6
<1> QED BY <1>2, <1>3

\* The echo of a node's own vote changes nothing: the node holds it.
LEMMA EchoIgnored ==
    ASSUME TypeOK, OwnVotesKept, NEW v \in msgs, HandleVote(v.signer, v)
    PROVE  UNCHANGED vars
<1>1. v \in Validated(v.signer, v.election_hash, v.round)
  BY DEF OwnVotesKept
<1>2. Digest(v) \in Hashes(elections[v.signer][v.election_hash].state[v.round])
  BY <1>1 DEF Hashes, Validated
<1>3. v.signer \in Node /\ Digest(v) = v.signer
  BY VoteFacts DEF TypeOK
<1> QED BY <1>2, <1>3, VoteStep

\* Every step of the core is a stutter or has the shape.
LEMMA StepShape ==
    ASSUME Inv, [Next]_vars
    PROVE  \/ UNCHANGED vars
           \/ \E n \in Node, e \in Election, r \in Round :
                 \E heard, own, cast \in SUBSET Vote : Shape(n, e, r, heard, own, cast)
<1>1. ViewInv /\ TypeOK /\ OwnVotesKept
  BY DEF Inv, ViewInv, VotesInv
<1>2. CASE UNCHANGED vars
  BY <1>2
<1>3. ASSUME NEW n \in Node, NEW e \in Election, HandleTransaction(n, e)
      PROVE  \E m \in Node, f \in Election : HandleTransaction(m, f)
  BY <1>3
<1>4. ASSUME NEW n \in Node, NEW v \in msgs, HandleVote(n, v), ~UNCHANGED vars
      PROVE  v.signer # n
  BY <1>1, <1>4, EchoIgnored
<1> QED BY <1>1, <1>2, <1>3, <1>4, WorkShape DEF Next
=============================================================================
