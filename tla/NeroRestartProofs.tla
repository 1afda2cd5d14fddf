-------------------------- MODULE NeroRestartProofs --------------------------
(***************************************************************************)
(* Proofs about NeroRestart.  A restart empties what a node holds, and so  *)
(* breaks nothing that NeroInvariant says of what each node holds by       *)
(* itself (ViewInv): each view stays a world in the sense of               *)
(* NeroSafetyProofs.  Two views no longer make one world together, since a *)
(* restarted node may have a vote in one and another vote in the other.    *)
(* What they have in common are the votes of the nodes that are not        *)
(* restarted, and if at most F nodes are, every two quorums share one.     *)
(*                                                                         *)
(* A decision outlives the view it was made in, so it is held fast as a    *)
(* certificate: what the votes of the steady nodes in msgs say of it.      *)
(***************************************************************************)
EXTENDS NeroRestart, NeroSafetyProofs

\* The nodes that are not restarted.
Steady == Node \ Restarting

\* A vote of s in round r of election e.
CastBy(s, e, r) ==
    {v \in msgs : v.signer = s /\ v.election_hash = e /\ v.round = r}

\* The steady members of some quorum committed to x in round r.
CommitQuorum(e, r, x) ==
    \E P \in SUBSET Node :
        /\ Cardinality(P) >= QUORUM
        /\ \A s \in P \cap Steady : \E v \in CastBy(s, e, r) :
              v.vote_type = "Commit" /\ v.value = x

\* The steady members of some quorum voted in round r, for nothing but x unless
\* by an initial vote.
OpenQuorum(e, r, x) ==
    \E P \in SUBSET Node :
        /\ Cardinality(P) >= QUORUM
        /\ \A s \in P \cap Steady : \E v \in CastBy(s, e, r) :
              v.vote_type # "InitialVote" => v.value = x

\* What the votes broadcast say of a decision for x.
Certified(e, x) ==
    \E c \in Round :
        /\ CommitQuorum(e, c, x)
        /\ \A k \in Round : k < c => OpenQuorum(e, k, x)

\* A node that is not restarted holds its votes.
SteadyKept ==
    \A v \in msgs : v.signer \in Steady =>
        v \in Validated(v.signer, v.election_hash, v.round)

EarlierType == earlier \in [Node -> [Election -> SUBSET Value]]

EarlierCertified ==
    \A n \in Honest, e \in Election : \A x \in earlier[n][e] : Certified(e, x)

\* The inductive invariant of the cores with restarts.
RestartInv == ViewInv /\ SteadyKept /\ EarlierType /\ EarlierCertified
-----------------------------------------------------------------------------
\* A world with a vote of some round has a quorum in every round before.
LEMMA QuorumsBelow ==
    ASSUME NEW G, World(G), NEW r \in Round, G[r] # {}
    PROVE  \A k \in Round : k < r => \E T \in SUBSET G[k] : Cardinality(T) >= QUORUM
<1>1. ASSUME NEW k \in Round, k + 1 \in Round, G[k + 1] # {}
      PROVE  \E T \in SUBSET G[k] : Cardinality(T) >= QUORUM
  BY <1>1 DEF World, MadeOf
<1>2. ASSUME NEW k \in Round, NEW T \in SUBSET G[k], Cardinality(T) >= QUORUM
      PROVE  G[k] # {}
  <2> SUFFICES ASSUME G[k] = {}
               PROVE  FALSE
    OBVIOUS
  <2>1. Cardinality(T) = 0
    BY FS_EmptySet
  <2> QED BY <1>2, <2>1, FAssumption DEF QUORUM
<1> DEFINE E == {d \in Nat : d <= r /\ G[r - d] = {}}
<1>3. E = {}
  <2> SUFFICES ASSUME E # {}
               PROVE  FALSE
    OBVIOUS
  <2>1. PICK d \in E : \A j \in E : d <= j
    BY LeastElement
  <2>2. r \in Nat /\ r <= MaxRound /\ d \in Nat /\ d <= r /\ G[r - d] = {}
    BY <2>1, BoundAssumption DEF Round
  <2>3. d # 0
    BY <2>2
  <2>4. /\ d - 1 \in Nat /\ d - 1 <= r /\ (r - d) + 1 = r - (d - 1)
        /\ r - d \in Round /\ (r - d) + 1 \in Round
    BY <2>2, <2>3, BoundAssumption DEF Round
  <2>5. d - 1 \notin E
    <3> SUFFICES ASSUME d - 1 \in E
                 PROVE  FALSE
      OBVIOUS
    <3>1. d <= d - 1
      BY <2>1
    <3> QED BY <2>2, <3>1
  <2>6. G[(r - d) + 1] # {}
    BY <2>4, <2>5
  <2> QED BY <1>1, <1>2, <2>2, <2>4, <2>6
<1>4. ASSUME NEW k \in Round, k < r
      PROVE  \E T \in SUBSET G[k] : Cardinality(T) >= QUORUM
  <2>1. /\ r - (k + 1) \in Nat /\ r - (k + 1) <= r /\ r - (r - (k + 1)) = k + 1
        /\ k + 1 \in Round
    BY <1>4, BoundAssumption DEF Round
  <2>2. r - (k + 1) \notin E
    BY <1>3
  <2>3. G[k + 1] # {}
    BY <2>1, <2>2
  <2> QED BY <1>1, <2>1, <2>3
<1> QED BY <1>4

\* A Decide goes back to a quorum of commits for its value, and in the rounds
\* before nothing but initial votes spoke for another.
LEMMA DecideBacked ==
    ASSUME NEW G, World(G), NEW r \in Round, NEW v \in G[r], v.vote_type = "Decide"
    PROVE  \E c \in Round :
              /\ \E S \in SUBSET G[c] :
                    /\ Cardinality(S) >= QUORUM
                    /\ \A u \in S : u.vote_type = "Commit" /\ u.value = v.value
              /\ \A k \in Round : k < c =>
                    \E T \in SUBSET G[k] :
                       /\ Cardinality(T) >= QUORUM
                       /\ \A u \in T : u.vote_type # "InitialVote" => u.value = v.value
<1> DEFINE D == {q \in Round : \E u \in G[q] : u.vote_type = "Decide"}
<1>1. D \in SUBSET Nat /\ r \in D
  BY DEF Round
<1>2. PICK l \in D : \A q \in D : l <= q
  BY <1>1, LeastElement
<1>3. PICK w \in G[l] : w.vote_type = "Decide"
  BY <1>2
<1>4. l \in Round /\ l \in Nat /\ l <= r
  BY <1>1, <1>2
<1>5. l # 0
  BY <1>3 DEF World
<1> DEFINE c == l - 1
<1>6. c \in Round /\ c \in Nat /\ c + 1 = l /\ c + 1 \in Round
  BY <1>4, <1>5, BoundAssumption DEF Round
<1>7. c \notin D
  <2> SUFFICES ASSUME c \in D
               PROVE  FALSE
    OBVIOUS
  <2>1. l <= c
    BY <1>2
  <2> QED BY <1>4, <2>1
<1>8. w.value = v.value
  <2>1. \A q \in Round : l <= q => \A u \in G[q] : u.value = w.value
    BY <1>3, <1>4, ValueFixed
  <2> QED BY <1>4, <2>1
<1> HIDE DEF c
<1>9. PICK T \in SUBSET G[c] : MadeOf(w, T)
  BY <1>3, <1>6 DEF World
<1>10. PICK t : TallyOf(t, T) /\ VoteChoice(w) = MakeDecision(t)
  BY <1>9 DEF MadeOf
<1>11. MakeDecision(t).vote_type = "Decide" /\ MakeDecision(t).value = v.value
  BY <1>3, <1>8, <1>10 DEF VoteChoice, Choice
<1>12. IsFiniteSet(T) /\ Ballots(T)
  BY <1>9 DEF MadeOf
<1> DEFINE S == Votes(T, "Commit", v.value)
<1>13. Cardinality(S) >= QUORUM
  <2>1. \A u \in T : u.vote_type # "Decide"
    BY <1>6, <1>7
  <2> QED BY <1>10, <1>11, <1>12, <2>1, RuleNeeds
<1>14. S \in SUBSET G[c] /\ \A u \in S : u.vote_type = "Commit" /\ u.value = v.value
  BY DEF Votes
<1>15. ASSUME NEW k \in Round, k < c
       PROVE  \E U \in SUBSET G[k] :
                 /\ Cardinality(U) >= QUORUM
                 /\ \A u \in U : u.vote_type # "InitialVote" => u.value = v.value
  <2>1. k < l /\ k <= r
    BY <1>4, <1>6, <1>15 DEF Round
  <2>2. PICK U \in SUBSET G[k] : Cardinality(U) >= QUORUM
    BY <1>3, <1>4, <2>1, QuorumsBelow
  <2>3. \A u \in U : u.vote_type # "InitialVote" => u.value = v.value
    BY <2>1, ValueFixed
  <2> QED BY <2>2, <2>3
<1> HIDE DEF S
<1> QED BY <1>6, <1>13, <1>14, <1>15

\* What a node decided, and did not lose to a restart, has a certificate.
LEMMA DecisionCertified ==
    ASSUME ViewInv, NEW n \in Honest, NEW e \in Election, decided[n][e] # None
    PROVE  Certified(e, decided[n][e])
<1> DEFINE G == View(n, e)
<1>1. n \in Node
  BY DEF Honest
<1>2. World(G)
  BY ViewWorld
<1>3. \A r \in Round : \A v \in G[r] :
          v \in msgs /\ v.round = r /\ v.election_hash = e
  BY <1>1 DEF View, ViewInv, VotesInv, ViewsAreVotes
<1>4. PICK r \in Round : \E v \in Validated(n, e, r) :
         v.vote_type = "Decide" /\ v.value = decided[n][e]
  BY <1>1, DecideHeld
<1>5. PICK v \in G[r] : v.vote_type = "Decide" /\ v.value = decided[n][e]
  BY <1>4 DEF View
<1> DEFINE x == v.value
<1> HIDE DEF G
<1>6. PICK c \in Round :
         /\ \E S \in SUBSET G[c] :
               /\ Cardinality(S) >= QUORUM
               /\ \A u \in S : u.vote_type = "Commit" /\ u.value = x
         /\ \A k \in Round : k < c =>
               \E T \in SUBSET G[k] :
                  /\ Cardinality(T) >= QUORUM
                  /\ \A u \in T : u.vote_type # "InitialVote" => u.value = x
  BY <1>2, <1>5, DecideBacked
<1>7. ASSUME NEW k \in Round, NEW T \in SUBSET G[k]
      PROVE  LET P == {u.signer : u \in T}
             IN  /\ P \in SUBSET Node
                 /\ Cardinality(P) = Cardinality(T)
                 /\ \A s \in P : \E u \in T : u \in CastBy(s, e, k)
  <2>1. IsFiniteSet(T) /\ \A u \in T : u.signer \in Node
    BY <1>2, WorldSize
  <2>2. \A u, w \in T : u.signer = w.signer => u = w
    BY <1>2 DEF World
  <2>3. Cardinality({u.signer : u \in T}) = Cardinality(T)
    BY <2>1, <2>2, AsManySigners
  <2>4. \A u \in T : u \in CastBy(u.signer, e, k)
    BY <1>3 DEF CastBy
  <2> QED BY <2>1, <2>3, <2>4
<1>8. CommitQuorum(e, c, x)
  <2>1. PICK S \in SUBSET G[c] :
           /\ Cardinality(S) >= QUORUM
           /\ \A u \in S : u.vote_type = "Commit" /\ u.value = x
    BY <1>6
  <2> DEFINE P == {u.signer : u \in S}
  <2>2. /\ P \in SUBSET Node /\ Cardinality(P) = Cardinality(S)
        /\ \A s \in P : \E u \in S : u \in CastBy(s, e, c)
    BY <1>7
  <2>3. \A s \in P \cap Steady : \E u \in CastBy(s, e, c) :
            u.vote_type = "Commit" /\ u.value = x
    BY <2>1, <2>2
  <2> HIDE DEF P
  <2> QED BY <2>1, <2>2, <2>3 DEF CommitQuorum
<1>9. ASSUME NEW k \in Round, k < c
      PROVE  OpenQuorum(e, k, x)
  <2>1. PICK T \in SUBSET G[k] :
           /\ Cardinality(T) >= QUORUM
           /\ \A u \in T : u.vote_type # "InitialVote" => u.value = x
    BY <1>6, <1>9
  <2> DEFINE P == {u.signer : u \in T}
  <2>2. /\ P \in SUBSET Node /\ Cardinality(P) = Cardinality(T)
        /\ \A s \in P : \E u \in T : u \in CastBy(s, e, k)
    BY <1>7
  <2>3. \A s \in P \cap Steady : \E u \in CastBy(s, e, k) :
            u.vote_type # "InitialVote" => u.value = x
    BY <2>1, <2>2
  <2> HIDE DEF P
  <2> QED BY <2>1, <2>2, <2>3 DEF OpenQuorum
<1> HIDE DEF x
<1>10. Certified(e, x)
  BY <1>8, <1>9 DEF Certified
<1>11. x = decided[n][e]
  BY <1>5 DEF x
<1> QED BY <1>10, <1>11

\* A certificate is never taken back.
LEMMA StaysCertified ==
    ASSUME NEW e, NEW x, msgs \subseteq msgs', Certified(e, x)
    PROVE  Certified(e, x)'
<1>1. \A s, r : CastBy(s, e, r) \subseteq CastBy(s, e, r)'
  BY DEF CastBy
<1>2. \A r : CommitQuorum(e, r, x) => CommitQuorum(e, r, x)'
  BY <1>1 DEF CommitQuorum
<1>3. \A r : OpenQuorum(e, r, x) => OpenQuorum(e, r, x)'
  BY <1>1 DEF OpenQuorum
<1> QED BY <1>2, <1>3 DEF Certified
-----------------------------------------------------------------------------
LEMMA RestartInvInit == RestartInit => RestartInv
<1> SUFFICES ASSUME RestartInit
             PROVE  RestartInv
  OBVIOUS
<1>1. Init /\ earlier = [n \in Node |-> [e \in Election |-> {}]]
  BY DEF RestartInit
<1>2. ViewInv
  BY <1>1, InitInv DEF Inv
<1>3. SteadyKept
  BY <1>1 DEF Init, SteadyKept
<1>4. EarlierType /\ EarlierCertified
  BY <1>1 DEF EarlierType, EarlierCertified, Honest
<1> QED BY <1>2, <1>3, <1>4 DEF RestartInv

\* A step of a core at work keeps the votes of the steady nodes, and every view
\* sound.
LEMMA WorkKeeps == RestartInv /\ Work => RestartInv'
<1> SUFFICES ASSUME RestartInv, Work
             PROVE  RestartInv'
  OBVIOUS
<1>1. ViewInv /\ SteadyKept /\ EarlierType /\ EarlierCertified /\ earlier' = earlier
  BY DEF RestartInv, Work
<1>2. \/ \E n \in Node, e \in Election : HandleTransaction(n, e)
      \/ \E n \in Node, v \in msgs : v.signer # n /\ HandleVote(n, v)
  BY DEF Work
<1>3. CASE UNCHANGED vars
  <2>1. ViewInv'
    BY <1>1, <1>3, StutterKeepsView
  <2>2. SteadyKept' /\ msgs \subseteq msgs'
    BY <1>1, <1>3 DEF SteadyKept, Validated, vars
  <2>3. EarlierCertified'
    BY <1>1, <2>2, StaysCertified DEF EarlierCertified
  <2> QED BY <1>1, <2>1, <2>2, <2>3 DEF RestartInv, EarlierType
<1>4. ASSUME NEW n, NEW e, NEW r, NEW heard, NEW own, NEW cast,
             Shape(n, e, r, heard, own, cast)
      PROVE  RestartInv'
  <2>1. ViewInv'
    BY <1>1, <1>4, KeepsView
  <2>2. msgs' = msgs \union (own \union cast)
    BY <1>4, ShapeFacts
  <2>3. SteadyKept'
    <3> SUFFICES ASSUME NEW v \in msgs', v.signer \in Steady
                 PROVE  v \in Validated(v.signer, v.election_hash, v.round)'
      BY DEF SteadyKept
    <3>1. CASE v \in msgs
      <4>1. v \in Validated(v.signer, v.election_hash, v.round)
        BY <1>1, <3>1 DEF SteadyKept
      <4>2. v.signer \in Node /\ v.election_hash \in Election /\ v.round \in Round
        BY <1>1, <3>1, VoteFacts DEF ViewInv, VotesInv, TypeOK
      <4> QED BY <1>4, <4>1, <4>2, ShapeFacts
    <3>2. CASE v \in own \union cast
      BY <1>4, <3>2, ShapeFacts
    <3> QED BY <2>2, <3>1, <3>2
  <2>4. EarlierCertified'
    BY <1>1, <2>2, StaysCertified DEF EarlierCertified
  <2> QED BY <1>1, <2>1, <2>3, <2>4 DEF RestartInv, EarlierType
<1> QED BY <1>1, <1>2, <1>3, <1>4, WorkShape

\* What a restart does to the views: it empties those of one node.
LEMMA RestartFacts ==
    ASSUME TypeOK, NEW n \in Node, Restart(n)
    PROVE  /\ TypeOK' /\ msgs' = msgs
           /\ \A m \in Node, e \in Election : m # n =>
                 elections'[m][e] = elections[m][e] /\ decided'[m][e] = decided[m][e]
           /\ \A e \in Election :
                 elections'[n][e] = NewElection /\ decided'[n][e] = None
<1> DEFINE blank == [e \in Election |-> NewElection]
           none == [e \in Election |-> None]
<1>1. /\ elections' = [elections EXCEPT ![n] = blank]
      /\ decided' = [decided EXCEPT ![n] = none]
      /\ msgs' = msgs
  BY DEF Restart
<1>2. NewElection \in ElectionState
  <2>1. NewRoundState \in RoundState
    BY TallyVoteType DEF NewRoundState, RoundState
  <2> QED BY <2>1 DEF NewElection, ElectionState
<1>3. /\ blank \in [Election -> ElectionState]
      /\ none \in [Election -> Value \union {None}]
      /\ \A e \in Election : blank[e] = NewElection /\ none[e] = None
  BY <1>2
<1> HIDE DEF blank, none
<1>4. TypeOK'
  BY <1>1, <1>3 DEF TypeOK
<1>5. /\ elections'[n] = blank /\ decided'[n] = none
      /\ \A m \in Node : m # n => elections'[m] = elections[m] /\ decided'[m] = decided[m]
  BY <1>1 DEF TypeOK
<1> QED BY <1>1, <1>3, <1>4, <1>5

\* A node that holds nothing holds nothing unsound.
LEMMA RestartKeepsView ==
    ASSUME ViewInv, NEW n \in Node, Restart(n)
    PROVE  ViewInv'
<1>1. /\ TypeOK' /\ msgs' = msgs
      /\ \A m \in Node, e \in Election : m # n =>
            elections'[m][e] = elections[m][e] /\ decided'[m][e] = decided[m][e]
      /\ \A e \in Election :
            elections'[n][e] = NewElection /\ decided'[n][e] = None
  BY RestartFacts DEF ViewInv, VotesInv
<1>2. \A e \in Election, r \in Round :
          /\ Validated(n, e, r)' = {} /\ OwnVotesOf(n, e, r)' = {}
          /\ ~elections'[n][e].state[r].voted
          /\ elections'[n][e].state[r].tally = Seen({})
          /\ ~elections'[n][e].is_decided
  BY <1>1, SeenNothing DEF Validated, OwnVotesOf, NewElection, NewRoundState
<1>3. \A m \in Node, e \in Election, r \in Round : m # n =>
          /\ Validated(m, e, r)' = Validated(m, e, r)
          /\ OwnVotesOf(m, e, r)' = OwnVotesOf(m, e, r)
  BY <1>1 DEF Validated, OwnVotesOf
<1>4. ASSUME NEW m \in Node, m # n, NEW v \in msgs, v.round > 0
      PROVE  ProofVotes(m, v)' = ProofVotes(m, v)
  <2>1. v \in Vote
    BY DEF ViewInv, VotesInv, TypeOK
  <2>2. v.election_hash \in Election /\ v.round - 1 \in Round
    BY <1>4, <2>1, VoteFacts, BoundAssumption DEF Round
  <2> QED BY <1>3, <1>4, <2>2 DEF ProofVotes
<1>5. IsFiniteSet({}) /\ Cardinality({}) = 0 /\ 0 < QUORUM
  BY FS_EmptySet, FAssumption DEF QUORUM
<1>6. VotesInv'
  <2>1. ViewsAreVotes'
    <3> SUFFICES ASSUME NEW m \in Node, NEW e \in Election, NEW r \in Round
                 PROVE  /\ IsFiniteSet(Validated(m, e, r)')
                        /\ \A w \in Validated(m, e, r)' :
                              w \in msgs /\ w.round = r /\ w.election_hash = e
      BY <1>1 DEF ViewsAreVotes
    <3>1. CASE m = n
      BY <1>2, <1>5, <3>1
    <3>2. CASE m # n
      BY <1>3, <3>2 DEF ViewInv, VotesInv, ViewsAreVotes
    <3> QED BY <3>1, <3>2
  <2>2. HeldOnce'
    BY <1>2, <1>3 DEF ViewInv, VotesInv, HeldOnce
  <2>3. VotedHasVote'
    BY <1>1, <1>2, <1>3 DEF ViewInv, VotesInv, VotedHasVote
  <2>4. StartsInitial'
    BY <1>1 DEF ViewInv, VotesInv, StartsInitial
  <2> QED BY <1>1, <2>1, <2>2, <2>3, <2>4 DEF VotesInv
<1>7. RoundsInv'
  <2>1. VotesFirst'
    BY <1>1, <1>2, <1>3 DEF ViewInv, RoundsInv, VotesFirst
  <2>2. VotesInOrder'
    BY <1>1, <1>2 DEF ViewInv, RoundsInv, VotesInOrder
  <2>3. NoMissedAdvance'
    <3> SUFFICES ASSUME NEW m \in Node, NEW e \in Election, NEW r \in Round \ {MaxRound}
                 PROVE  \/ elections'[m][e].is_decided
                        \/ Cardinality(Validated(m, e, r)') < QUORUM
                        \/ elections'[m][e].state[r + 1].voted
      BY DEF NoMissedAdvance
    <3>1. CASE m = n
      BY <1>2, <1>5, <3>1
    <3>2. CASE m # n
      BY <1>1, <1>3, <3>2 DEF ViewInv, RoundsInv, NoMissedAdvance
    <3> QED BY <3>1, <3>2
  <2>4. TallyMatchesVotes'
    <3> SUFFICES ASSUME NEW m \in Node, NEW e \in Election, NEW r \in Round
                 PROVE  elections'[m][e].state[r].tally = Seen(Validated(m, e, r)')
      BY DEF TallyMatchesVotes
    <3>1. CASE m = n
      BY <1>2, <3>1
    <3>2. CASE m # n
      BY <1>1, <1>3, <3>2 DEF ViewInv, RoundsInv, TallyMatchesVotes
    <3> QED BY <3>1, <3>2
  <2>5. ProofsAreQuorums'
    BY <1>1 DEF ViewInv, RoundsInv, ProofsAreQuorums
  <2>6. DecideIsFinal'
    BY <1>1, <1>2, <1>3 DEF ViewInv, RoundsInv, DecideIsFinal
  <2>7. DecidedByVote'
    BY <1>1, <1>3 DEF ViewInv, RoundsInv, DecidedByVote
  <2> QED BY <2>1, <2>2, <2>3, <2>4, <2>5, <2>6, <2>7 DEF RoundsInv
<1>8. RuleInv'
  <2>1. ASSUME NEW m \in Honest, NEW e \in Election, NEW r \in Round \ {0},
               NEW v \in Validated(m, e, r)'
        PROVE  /\ m \in Node /\ v \in Validated(m, e, r)
               /\ OwnVotesOf(m, e, r)' = OwnVotesOf(m, e, r)
               /\ ProofVotes(m, v)' = ProofVotes(m, v)
    <3>1. m \in Node /\ m # n
      BY <1>2 DEF Honest
    <3>2. v \in Validated(m, e, r)
      BY <1>3, <3>1
    <3>3. v \in msgs /\ v.round = r /\ r > 0
      BY <3>1, <3>2 DEF ViewInv, VotesInv, ViewsAreVotes, Round
    <3> QED BY <1>3, <1>4, <3>1, <3>2, <3>3
  <2>2. HonestJustified'
    <3> SUFFICES ASSUME NEW m \in Honest, NEW e \in Election, NEW r \in Round \ {0},
                        NEW v \in OwnVotesOf(m, e, r)'
                 PROVE  /\ v.proof \subseteq {Digest(w) : w \in ProofVotes(m, v)'}
                        /\ VoteChoice(v) = MakeDecision(Seen(ProofVotes(m, v)'))
                        /\ \E w \in ProofVotes(m, v)' : w.vote_type # "Decide"
      BY DEF HonestJustified
    <3>1. v \in Validated(m, e, r)'
      BY DEF OwnVotesOf
    <3>2. v \in OwnVotesOf(m, e, r) /\ ProofVotes(m, v)' = ProofVotes(m, v)
      BY <2>1, <3>1
    <3> QED BY <3>2 DEF ViewInv, RuleInv, HonestJustified
  <2>3. ValidatedJustified'
    <3> SUFFICES ASSUME NEW m \in Honest, NEW e \in Election, NEW r \in Round \ {0},
                        NEW v \in Validated(m, e, r)', v.signer # m
                 PROVE  /\ v.proof \subseteq {Digest(w) : w \in ProofVotes(m, v)'}
                        /\ VoteChoice(v) = MakeDecision(FromVotes(ProofVotes(m, v)'))
      BY DEF ValidatedJustified
    <3>1. v \in Validated(m, e, r) /\ ProofVotes(m, v)' = ProofVotes(m, v)
      BY <2>1
    <3> QED BY <3>1 DEF ViewInv, RuleInv, ValidatedJustified
  <2> QED BY <2>2, <2>3 DEF RuleInv
<1> QED BY <1>6, <1>7, <1>8 DEF ViewInv

\* A restart keeps the votes of the others, and turns what the node decided
\* into certificates.
LEMMA RestartKeeps ==
    ASSUME RestartInv, NEW n \in Restarting, Restart(n)
    PROVE  RestartInv'
<1>1. /\ ViewInv /\ SteadyKept /\ EarlierType /\ EarlierCertified /\ TypeOK
      /\ n \in Node
  BY RestartAssumption DEF RestartInv, ViewInv, VotesInv
<1>2. ViewInv'
  BY <1>1, RestartKeepsView
<1>3. /\ msgs' = msgs
      /\ \A m \in Node, e \in Election : m # n => elections'[m][e] = elections[m][e]
  BY <1>1, RestartFacts
<1>4. SteadyKept'
  <2> SUFFICES ASSUME NEW v \in msgs, v.signer \in Steady
               PROVE  v \in Validated(v.signer, v.election_hash, v.round)'
    BY <1>3 DEF SteadyKept
  <2>1. v.signer \in Node /\ v.signer # n /\ v.election_hash \in Election
    BY <1>1, VoteFacts DEF TypeOK, Steady
  <2>2. v \in Validated(v.signer, v.election_hash, v.round)
    BY <1>1 DEF SteadyKept
  <2> QED BY <1>3, <2>1, <2>2 DEF Validated
<1>5. /\ earlier' \in [Node -> [Election -> SUBSET Value]]
      /\ \A m \in Node : m # n => earlier'[m] = earlier[m]
      /\ \A e \in Election :
            earlier'[n][e] = earlier[n][e] \union ({decided[n][e]} \ {None})
  <2> DEFINE past == [e \in Election |->
                         earlier[n][e] \union ({decided[n][e]} \ {None})]
  <2>1. earlier' = [earlier EXCEPT ![n] = past]
    BY <1>1 DEF Restart, EarlierType
  <2>2. past \in [Election -> SUBSET Value]
    BY <1>1 DEF EarlierType, TypeOK
  <2>3. \A e \in Election : past[e] = earlier[n][e] \union ({decided[n][e]} \ {None})
    OBVIOUS
  <2> HIDE DEF past
  <2> QED BY <1>1, <2>1, <2>2, <2>3 DEF EarlierType
<1>6. ASSUME NEW m \in Honest, NEW e \in Election, NEW x \in earlier'[m][e]
      PROVE  Certified(e, x)'
  <2>1. m \in Node
    BY DEF Honest
  <2>2. Certified(e, x)
    <3>1. CASE x \in earlier[m][e]
      BY <1>1, <3>1 DEF EarlierCertified
    <3>2. CASE x \notin earlier[m][e]
      <4>1. m = n
        BY <1>5, <2>1, <3>2
      <4>2. x = decided[n][e] /\ x # None
        BY <1>5, <3>2, <4>1
      <4> QED BY <1>1, <4>1, <4>2, DecisionCertified
    <3> QED BY <3>1, <3>2
  <2> QED BY <1>3, <2>2, StaysCertified
<1> QED BY <1>2, <1>4, <1>5, <1>6 DEF RestartInv, EarlierType, EarlierCertified

LEMMA RestartInvNext == RestartInv /\ [RestartNext]_restartVars => RestartInv'
<1> SUFFICES ASSUME RestartInv, [RestartNext]_restartVars
             PROVE  RestartInv'
  OBVIOUS
<1>1. CASE UNCHANGED restartVars
  <2>1. UNCHANGED vars /\ earlier' = earlier /\ ViewInv
    BY <1>1 DEF restartVars, vars, RestartInv
  <2>2. ViewInv'
    BY <2>1, StutterKeepsView
  <2>3. SteadyKept' /\ msgs \subseteq msgs'
    BY <2>1 DEF RestartInv, SteadyKept, Validated, vars
  <2>4. EarlierCertified'
    BY <2>1, <2>3, StaysCertified DEF RestartInv, EarlierCertified
  <2> QED BY <2>1, <2>2, <2>3, <2>4 DEF RestartInv, EarlierType
<1>2. CASE Work
  BY <1>2, WorkKeeps
<1>3. ASSUME NEW n \in Restarting, Restart(n)
      PROVE  RestartInv'
  BY <1>3, RestartKeeps
<1> QED BY <1>1, <1>2, <1>3 DEF RestartNext

\* The invariant of the cores with restarts.
THEOREM RestartInvariant == RestartSpec => []RestartInv
BY RestartInvInit, RestartInvNext, PTL DEF RestartSpec
-----------------------------------------------------------------------------
\* Two quorums share a node that is not restarted, if at most F nodes are.
LEMMA SteadyShared ==
    ASSUME Cardinality(Restarting) <= F,
           NEW P \in SUBSET Node, Cardinality(P) >= QUORUM,
           NEW Q \in SUBSET Node, Cardinality(Q) >= QUORUM
    PROVE  \E s \in Steady : s \in P /\ s \in Q
<1>1. /\ IsFiniteSet(P) /\ IsFiniteSet(Q) /\ IsFiniteSet(Restarting)
      /\ IsFiniteSet(Node) /\ IsFiniteSet(P \union Q) /\ IsFiniteSet(P \cap Q)
  BY CommitteeAssumption, RestartAssumption, FS_Subset, FS_Union, FS_Intersection
<1>2. Cardinality(P \union Q) = Cardinality(P) + Cardinality(Q) - Cardinality(P \cap Q)
  BY <1>1, FS_Union
<1>3. Cardinality(P \union Q) <= 3 * F + 1
  <2>1. P \union Q \subseteq Node
    OBVIOUS
  <2> QED BY <1>1, <2>1, FS_Subset, CommitteeAssumption
<1>4. /\ Cardinality(P) \in Nat /\ Cardinality(Q) \in Nat
      /\ Cardinality(P \cap Q) \in Nat /\ Cardinality(P \union Q) \in Nat
      /\ Cardinality(Restarting) \in Nat
  BY <1>1, FS_CardinalityType
<1>5. Cardinality(P \cap Q) > F
  BY <1>2, <1>3, <1>4, FAssumption DEF QUORUM
<1>6. ~(P \cap Q \subseteq Restarting)
  <2> SUFFICES ASSUME P \cap Q \subseteq Restarting
               PROVE  FALSE
    OBVIOUS
  <2>1. Cardinality(P \cap Q) <= Cardinality(Restarting)
    BY <1>1, FS_Subset
  <2> QED BY <1>4, <1>5, <2>1, FAssumption
<1> QED BY <1>6 DEF Steady

\* A node that is not restarted casts one vote in a round.
LEMMA SteadyOnce ==
    ASSUME ViewInv, SteadyKept, NEW s \in Steady, NEW e \in Election, NEW r \in Round,
           NEW v \in CastBy(s, e, r), NEW w \in CastBy(s, e, r)
    PROVE  v = w
<1>1. v \in Validated(s, e, r) /\ w \in Validated(s, e, r) /\ s \in Node
  BY DEF CastBy, SteadyKept, Steady
<1> QED BY <1>1 DEF ViewInv, VotesInv, HeldOnce, CastBy

\* The earlier of two certificates binds the later one.
LEMMA CertificateBinds ==
    ASSUME ViewInv, SteadyKept, Cardinality(Restarting) <= F,
           NEW e \in Election, NEW x, NEW y, NEW b \in Round, NEW c \in Round, b <= c,
           CommitQuorum(e, b, x), CommitQuorum(e, c, y),
           \A k \in Round : k < c => OpenQuorum(e, k, y)
    PROVE  x = y
<1>1. PICK P \in SUBSET Node :
         /\ Cardinality(P) >= QUORUM
         /\ \A s \in P \cap Steady : \E v \in CastBy(s, e, b) :
               v.vote_type = "Commit" /\ v.value = x
  BY DEF CommitQuorum
<1>2. PICK Q \in SUBSET Node :
         /\ Cardinality(Q) >= QUORUM
         /\ \A s \in Q \cap Steady : \E v \in CastBy(s, e, b) :
               v.vote_type # "InitialVote" => v.value = y
  <2>1. CASE b = c
    BY <2>1 DEF CommitQuorum
  <2>2. CASE b < c
    BY <2>2 DEF OpenQuorum
  <2> QED BY <2>1, <2>2 DEF Round
<1>3. PICK s \in Steady : s \in P /\ s \in Q
  BY <1>1, <1>2, SteadyShared
<1>4. PICK v \in CastBy(s, e, b) : v.vote_type = "Commit" /\ v.value = x
  BY <1>1, <1>3
<1>5. PICK w \in CastBy(s, e, b) : w.vote_type # "InitialVote" => w.value = y
  BY <1>2, <1>3
<1>6. v = w
  BY SteadyOnce
<1> QED BY <1>4, <1>5, <1>6

\* So no two certificates differ.
LEMMA CertificatesAgree ==
    ASSUME RestartInv, Cardinality(Restarting) <= F, NEW e \in Election,
           NEW x, Certified(e, x), NEW y, Certified(e, y)
    PROVE  x = y
<1>1. ViewInv /\ SteadyKept
  BY DEF RestartInv
<1>2. PICK b \in Round :
         CommitQuorum(e, b, x) /\ \A k \in Round : k < b => OpenQuorum(e, k, x)
  BY DEF Certified
<1>3. PICK c \in Round :
         CommitQuorum(e, c, y) /\ \A k \in Round : k < c => OpenQuorum(e, k, y)
  BY DEF Certified
<1>4. CASE b <= c
  BY <1>1, <1>2, <1>3, <1>4, CertificateBinds
<1>5. CASE c <= b
  BY <1>1, <1>2, <1>3, <1>5, CertificateBinds
<1> QED BY <1>4, <1>5 DEF Round

LEMMA AgreementOverTimeFollows ==
    ASSUME RestartInv, Cardinality(Restarting) <= F
    PROVE  AgreementOverTime
<1>1. ASSUME NEW n \in Honest, NEW e \in Election, NEW x \in EverDecided(n, e)
      PROVE  Certified(e, x)
  <2>1. CASE x \in earlier[n][e]
    BY <2>1 DEF RestartInv, EarlierCertified
  <2>2. CASE x = decided[n][e] /\ x # None
    BY <2>2, DecisionCertified DEF RestartInv
  <2> QED BY <2>1, <2>2 DEF EverDecided
<1> QED BY <1>1, CertificatesAgree DEF AgreementOverTime

\* No two decisions of an election ever differ, those made before a restart
\* included, if no more than F nodes are ever restarted.
THEOREM AgreementThroughRestarts ==
    ASSUME Cardinality(Restarting) <= F
    PROVE  RestartSpec => []AgreementOverTime
<1>1. RestartInv => AgreementOverTime
  BY AgreementOverTimeFollows
<1> QED BY <1>1, RestartInvariant, PTL

\* However many are restarted, no node counts two votes of one signer in a
\* round.
THEOREM OneVoteCountedHolds == RestartSpec => []OneVoteCounted
<1>1. RestartInv => OneVoteCounted
  BY DEF RestartInv, ViewInv, VotesInv, HeldOnce, OneVoteCounted
<1> QED BY <1>1, RestartInvariant, PTL

\* Nor does a node that follows the rule ever count commits for both values in
\* one round: the branch "This should not happen!!!" is dead through restarts.
THEOREM NoClashThroughRestarts == RestartSpec => []NoCommitClash
<1>1. RestartInv => NoCommitClash
  BY NoClashFollows DEF RestartInv
<1> QED BY <1>1, RestartInvariant, PTL
=============================================================================
