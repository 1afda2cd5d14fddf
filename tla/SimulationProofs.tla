-------------------------- MODULE SimulationProofs --------------------------
(***************************************************************************)
(* The guarantees of the simulator's rule, for every number 3B + 1 of      *)
(* nodes, of which B are byzantine, and any pattern of delays.  A step     *)
(* only adds votes or fills in late ones, so what a node once saw of a     *)
(* round it sees for ever, and no node shows different votes to different  *)
(* nodes.  The first part proves that quorums never oppose and that ones   *)
(* are drawn, the second that silent byzantine nodes cannot divide the     *)
(* honest, the third the types.                                            *)
(***************************************************************************)
EXTENDS Simulation, FiniteSetTheorems, SequenceTheorems, TLAPS

USE SimulationAssumption

B == NUMBER_OF_BYZANTINE_NODES

Ballot == [Nodes -> {Delayed, 0, 1}]

\* Enough nodes for an honest majority drew a 1.
Drew1    == {j \in Honest : drawn[j] = 1}
Grounded == Cardinality(Drew1) > B

\* Every history is one of ballots, and nobody tells two nodes different votes.
HistoryInv ==
    /\ votes \in [Nodes -> Seq(Ballot)]
    /\ drawn \in [Honest -> {0, 1}]
    /\ \A j \in Nodes : votes[j] # <<>>
    /\ \A j \in Nodes : \A k \in DOMAIN votes[j] : \A a, b \in Nodes :
          votes[j][k][a] # Delayed /\ votes[j][k][b] # Delayed
              => votes[j][k][a] = votes[j][k][b]

\* A round noted by a node has its quorum in what the node sees.
QuorumInv ==
    /\ one_quorum \in [Honest -> SUBSET Nat] /\ zero_quorum \in [Honest -> SUBSET Nat]
    /\ \A i \in Honest : \A r \in one_quorum[i] : Cardinality(Seen(i, r, 1)) >= QUORUM
    /\ \A i \in Honest : \A r \in zero_quorum[i] : Cardinality(Seen(i, r, 0)) >= QUORUM

\* Ones of the first round were drawn, and without enough of them no honest
\* node votes 1 later, or decides it.
GroundInv ==
    /\ \A j \in Honest, a \in Nodes : votes[j][1][a] = 1 => drawn[j] = 1
    /\ \/ Grounded
       \/ \A j \in Honest : /\ decided[j] # 1
                            /\ \A k \in DOMAIN votes[j] : \A a \in Nodes :
                                  k > 1 => votes[j][k][a] # 1
    /\ decided \in [Honest -> {0, 1, Undecided}]

SimInv == HistoryInv /\ QuorumInv /\ GroundInv
-----------------------------------------------------------------------------
\* How many nodes there are of each kind.
LEMMA Counts ==
    ASSUME NUMBER_OF_NODES % 3 = 1
    PROVE  /\ B \in Nat /\ NUMBER_OF_NODES = 3 * B + 1 /\ QUORUM = 2 * B + 1
           /\ Honest \subseteq Nodes /\ Byzantine \subseteq Nodes
           /\ Honest \subseteq Nat /\ Nodes = Honest \union Byzantine
           /\ IsFiniteSet(Nodes) /\ Cardinality(Nodes) = 3 * B + 1
           /\ IsFiniteSet(Byzantine) /\ Cardinality(Byzantine) = B
<1>1. B \in Nat /\ NUMBER_OF_NODES = 3 * B + 1
  BY SMT DEF B, NUMBER_OF_BYZANTINE_NODES
<1>2. QUORUM = 2 * B + 1 /\ NUMBER_OF_HONEST_NODES = 2 * B + 1
  BY <1>1 DEF QUORUM, B, NUMBER_OF_HONEST_NODES
<1>3. Nodes = 0 .. 3 * B /\ Honest = 0 .. 2 * B /\ Byzantine = 2 * B + 1 .. 3 * B
  BY <1>1, <1>2 DEF Nodes, Honest, Byzantine
<1>4. IsFiniteSet(Nodes) /\ Cardinality(Nodes) = 3 * B + 1
  BY <1>1, <1>3, FS_Interval
<1>5. IsFiniteSet(Byzantine) /\ Cardinality(Byzantine) = B
  BY <1>1, <1>3, FS_Interval
<1> QED BY <1>1, <1>2, <1>3, <1>4, <1>5

\* What a node sees is a set of nodes.
LEMMA SeenFinite ==
    ASSUME NUMBER_OF_NODES % 3 = 1, NEW i, NEW r, NEW v
    PROVE  /\ Seen(i, r, v) \subseteq Nodes /\ IsFiniteSet(Seen(i, r, v))
           /\ Cardinality(Seen(i, r, v)) \in Nat
  BY Counts, FS_Subset, FS_CardinalityType DEF Seen

\* Votes are added, or come late; none is changed.
Extends ==
    \A j \in Nodes : \A k \in DOMAIN votes[j] :
        /\ k \in DOMAIN votes'[j]
        /\ \A a \in Nodes : votes[j][k][a] # Delayed => votes'[j][k][a] = votes[j][k][a]

\* What was seen stays seen.
LEMMA StaysSeen ==
    ASSUME NUMBER_OF_NODES % 3 = 1, HistoryInv, HistoryInv', Extends,
           NEW i \in Honest, NEW r \in Nat, NEW v \in {0, 1}
    PROVE  /\ Seen(i, r, v) \subseteq Seen(i, r, v)'
           /\ Cardinality(Seen(i, r, v)) <= Cardinality(Seen(i, r, v)')
<1>1. ASSUME NEW j \in Nodes, r <= Round(j), votes[j][r + 1][i] = v
      PROVE  r <= Round(j)' /\ votes'[j][r + 1][i] = v
  <2>1. votes[j] \in Seq(Ballot) /\ votes'[j] \in Seq(Ballot)
    BY DEF HistoryInv
  <2>2. r + 1 \in DOMAIN votes[j]
    BY <1>1, <2>1 DEF Round
  <2>3. r + 1 \in DOMAIN votes'[j]
    BY <2>2 DEF Extends
  <2>4. r <= Round(j)'
    BY <2>1, <2>3 DEF Round
  <2>5. i \in Nodes /\ v # Delayed
    BY Counts DEF Delayed
  <2> QED BY <1>1, <2>2, <2>4, <2>5 DEF Extends
<1>2. Seen(i, r, v) \subseteq Seen(i, r, v)'
  BY <1>1 DEF Seen
<1>3. IsFiniteSet(Seen(i, r, v)') /\ Seen(i, r, v)' \subseteq Nodes
  BY Counts, FS_Subset DEF Seen
<1> QED BY <1>2, <1>3, FS_Subset

\* The nodes P cast one more vote each, the same for everybody.
AddsVotes(P, val) ==
    votes' = [j \in Nodes |-> IF j \in P THEN Append(votes[j], Same(val[j])) ELSE votes[j]]

LEMMA AddedVotes ==
    ASSUME HistoryInv, UNCHANGED drawn, NEW P \in SUBSET Nodes,
           NEW val \in [P -> {Delayed, 0, 1}], AddsVotes(P, val)
    PROVE  /\ HistoryInv' /\ Extends
           /\ \A j \in Nodes : \A k \in DOMAIN votes'[j] :
                 \/ k \in DOMAIN votes[j] /\ votes'[j][k] = votes[j][k]
                 \/ j \in P /\ k > 1 /\ votes'[j][k] = Same(val[j])
<1> DEFINE Old(j, k) == k \in DOMAIN votes[j] /\ votes'[j][k] = votes[j][k]
           New(j, k) == j \in P /\ k > 1 /\ votes'[j][k] = Same(val[j])
<1>1. ASSUME NEW j \in Nodes
      PROVE  /\ votes'[j] \in Seq(Ballot) /\ votes'[j] # <<>>
             /\ \A k \in DOMAIN votes[j] : k \in DOMAIN votes'[j] /\ votes'[j][k] = votes[j][k]
             /\ \A k \in DOMAIN votes'[j] : Old(j, k) \/ New(j, k)
  <2>1. votes[j] \in Seq(Ballot) /\ votes[j] # <<>>
    BY DEF HistoryInv
  <2>2. CASE j \notin P
    BY <2>1, <2>2 DEF AddsVotes
  <2>3. CASE j \in P
    <3> DEFINE b == Same(val[j])
    <3>1. b \in Ballot
      BY <2>3 DEF Same, Ballot
    <3>2. votes'[j] = Append(votes[j], b)
      BY <2>3 DEF AddsVotes
    <3> HIDE DEF b
    <3>3. /\ votes'[j] \in Seq(Ballot) /\ votes'[j] # <<>>
          /\ Len(votes'[j]) = Len(votes[j]) + 1
          /\ \A k \in 1 .. Len(votes[j]) : votes'[j][k] = votes[j][k]
          /\ votes'[j][Len(votes[j]) + 1] = b
      BY <2>1, <3>1, <3>2, AppendProperties
    <3>4. /\ Len(votes[j]) \in Nat /\ Len(votes[j]) > 0
          /\ DOMAIN votes[j] = 1 .. Len(votes[j]) /\ DOMAIN votes'[j] = 1 .. Len(votes'[j])
      BY <2>1, <3>3, LenProperties, EmptySeq
    <3> QED BY <2>3, <3>3, <3>4 DEF b
  <2> QED BY <2>2, <2>3
<1>2. votes' \in [Nodes -> Seq(Ballot)]
  BY <1>1 DEF AddsVotes
<1>3. ASSUME NEW j \in Nodes, NEW k \in DOMAIN votes'[j], NEW a \in Nodes, NEW b \in Nodes,
             votes'[j][k][a] # Delayed, votes'[j][k][b] # Delayed
      PROVE  votes'[j][k][a] = votes'[j][k][b]
  <2>1. CASE Old(j, k)
    BY <1>3, <2>1 DEF HistoryInv
  <2>2. CASE New(j, k)
    BY <2>2 DEF Same
  <2> QED BY <1>1, <2>1, <2>2
<1>4. HistoryInv'
  BY <1>1, <1>2, <1>3 DEF HistoryInv
<1>5. Extends
  BY <1>1 DEF Extends
<1> QED BY <1>1, <1>4, <1>5

\* A cast is one more vote.
LEMMA CastAdds ==
    ASSUME HistoryInv, NEW i \in Nodes, NEW v \in {0, 1}, Cast(i, v)
    PROVE  AddsVotes({i}, [j \in {i} |-> v])
BY DEF HistoryInv, Cast, AddsVotes

\* What was late in a round and comes is 0, or 1 where somebody had a 1.
LEMMA ArrivedVotes ==
    ASSUME NUMBER_OF_NODES % 3 = 1, HistoryInv, UNCHANGED drawn,
           NEW i \in Honest, ReceiveDelayed(i)
    PROVE  /\ HistoryInv' /\ Extends
           /\ \A j \in Nodes : DOMAIN votes'[j] = DOMAIN votes[j]
           /\ \A j \in Nodes : \A k \in DOMAIN votes[j] : \A a \in Nodes :
                 votes'[j][k][a] = 1 => \E b \in Nodes : votes[j][k][b] = 1
<1> DEFINE r == Round(i)
           Fills(j, k) == votes'[j][k] = votes[j][k] \/ votes'[j][k] = Arrived(votes[j][k])
<1>1. ASSUME NEW j \in Nodes
      PROVE  /\ votes'[j] \in Seq(Ballot) /\ DOMAIN votes'[j] = DOMAIN votes[j]
             /\ \A k \in DOMAIN votes[j] : Fills(j, k)
  <2>1. votes[j] \in Seq(Ballot)
    BY DEF HistoryInv
  <2>2. CASE ~ (j \in Honest /\ r <= Round(j))
    BY <2>1, <2>2 DEF ReceiveDelayed
  <2>3. CASE j \in Honest /\ r <= Round(j)
    <3>1. votes'[j] = [votes[j] EXCEPT ![r + 1] = Arrived(votes[j][r + 1])]
      BY <2>3 DEF ReceiveDelayed
    <3>2. \A v \in Ballot : Arrived(v) \in Ballot
      BY DEF Arrived, Ballot
    <3>3. r + 1 \in DOMAIN votes[j]
      <4>1. votes[i] \in Seq(Ballot) /\ votes[i] # <<>>
        BY Counts DEF HistoryInv
      <4>2. Len(votes[i]) \in Nat /\ Len(votes[i]) > 0
        BY <4>1, EmptySeq, LenProperties
      <4>3. Len(votes[j]) \in Nat /\ DOMAIN votes[j] = 1 .. Len(votes[j])
        BY <2>1, LenProperties
      <4> QED BY <2>3, <4>2, <4>3 DEF Round
    <3>4. votes[j][r + 1] \in Ballot
      BY <2>1, <3>3, ElementOfSeq
    <3>5. Arrived(votes[j][r + 1]) \in Ballot
      BY <3>2, <3>4
    <3> QED BY <2>1, <3>1, <3>3, <3>5, ExceptSeq
  <2> QED BY <2>2, <2>3
<1>2. votes' \in [Nodes -> Seq(Ballot)] /\ \A j \in Nodes : votes'[j] # <<>>
  <2>1. \A j \in Nodes : votes'[j] # <<>>
    BY <1>1 DEF HistoryInv
  <2> QED BY <1>1, <2>1 DEF ReceiveDelayed
<1>3. ASSUME NEW j \in Nodes, NEW k \in DOMAIN votes[j], NEW a \in Nodes
      PROVE  /\ votes[j][k][a] # Delayed => votes'[j][k][a] = votes[j][k][a]
             /\ votes'[j][k][a] = 1 => \E b \in Nodes : votes[j][k][b] = 1
             /\ votes[j][k][a] = Delayed /\ votes'[j][k][a] # Delayed =>
                   votes'[j][k][a] = IF \E b \in Nodes : votes[j][k][b] = 1 THEN 1 ELSE 0
  <2>1. CASE votes'[j][k] = votes[j][k]
    BY <2>1
  <2>2. CASE votes'[j][k] = Arrived(votes[j][k])
    <3>1. Arrived(votes[j][k])[a] =
             IF votes[j][k][a] # Delayed THEN votes[j][k][a]
             ELSE IF \E b \in Nodes : votes[j][k][b] = 1 THEN 1 ELSE 0
      BY DEF Arrived
    <3> QED BY <2>2, <3>1
  <2> QED BY <1>1, <2>1, <2>2
<1>4. ASSUME NEW j \in Nodes, NEW k \in DOMAIN votes[j], NEW a \in Nodes, NEW b \in Nodes,
             votes'[j][k][a] # Delayed, votes'[j][k][b] # Delayed
      PROVE  votes'[j][k][a] = votes'[j][k][b]
  <2>1. votes[j][k] \in Ballot
    BY ElementOfSeq DEF HistoryInv
  <2>2. \A c \in Nodes : votes[j][k][c] \in {Delayed, 0, 1}
    BY <2>1 DEF Ballot
  <2>3. \A c, d \in Nodes : votes[j][k][c] # Delayed /\ votes[j][k][d] # Delayed
                               => votes[j][k][c] = votes[j][k][d]
    BY DEF HistoryInv
  <2> QED BY <1>3, <1>4, <2>2, <2>3
<1>5. HistoryInv'
  BY <1>1, <1>2, <1>4 DEF HistoryInv
<1>6. Extends
  BY <1>1, <1>3 DEF Extends
<1> QED BY <1>1, <1>3, <1>5, <1>6
-----------------------------------------------------------------------------
\* Without enough ones drawn nobody sees a quorum of ones: a one that is seen
\* is drawn or byzantine.
LEMMA NoOnes ==
    ASSUME NUMBER_OF_NODES % 3 = 1, HistoryInv, GroundInv, ~Grounded,
           NEW i \in Honest
    PROVE  Ones(i) < QUORUM
<1> DEFINE r == Round(i)
           S == Seen(i, r, 1)
<1>1. S \subseteq Drew1 \union Byzantine
  <2> SUFFICES ASSUME NEW j \in S, j \in Honest PROVE drawn[j] = 1
    BY Counts, SeenFinite DEF Drew1
  <2>1. i \in Nodes /\ j \in Nodes /\ r <= Round(j) /\ votes[j][r + 1][i] = 1
    BY Counts DEF Seen
  <2>2. Len(votes[i]) \in Nat /\ Len(votes[i]) > 0 /\ Len(votes[j]) \in Nat
        /\ DOMAIN votes[j] = 1 .. Len(votes[j])
    BY <2>1, EmptySeq, LenProperties DEF HistoryInv
  <2>3. r + 1 \in DOMAIN votes[j] /\ ~ (r + 1 > 1)
    BY <2>1, <2>2 DEF Round, GroundInv
  <2>4. r \in Nat
    BY <2>2 DEF Round
  <2>5. r + 1 = 1
    <3> HIDE DEF r
    <3> QED BY <2>3, <2>4
  <2> QED BY <2>1, <2>5 DEF GroundInv
<1>2. IsFiniteSet(Drew1) /\ Cardinality(Drew1) \in Nat /\ Cardinality(Drew1) <= B
  <2>1. IsFiniteSet(Drew1) /\ Cardinality(Drew1) \in Nat
    BY Counts, FS_Subset, FS_CardinalityType DEF Drew1
  <2> QED BY <2>1, Counts DEF Grounded
<1>3. IsFiniteSet(Drew1 \union Byzantine) /\ Cardinality(Drew1 \union Byzantine) <= 2 * B
  <2>1. /\ IsFiniteSet(Drew1 \union Byzantine)
        /\ Cardinality(Drew1 \union Byzantine)
             = Cardinality(Drew1) + Cardinality(Byzantine) - Cardinality(Drew1 \intersect Byzantine)
    BY <1>2, Counts, FS_Union
  <2>2. Cardinality(Drew1 \intersect Byzantine) \in Nat
    BY <1>2, FS_Subset, FS_CardinalityType
  <2> QED BY <1>2, <2>1, <2>2, Counts
<1>4. Cardinality(S) <= Cardinality(Drew1 \union Byzantine)
  BY <1>1, <1>3, FS_Subset
<1>5. Cardinality(S) \in Nat /\ Cardinality(Drew1 \union Byzantine) \in Nat
  BY <1>3, SeenFinite, FS_CardinalityType
<1> QED BY <1>3, <1>4, <1>5, Counts DEF Ones

\* A quorum that was seen stays one.
LEMMA QuorumKept ==
    ASSUME NUMBER_OF_NODES % 3 = 1, HistoryInv, HistoryInv', Extends,
           NEW i \in Honest, NEW r \in Nat, NEW v \in {0, 1},
           Cardinality(Seen(i, r, v)) >= QUORUM
    PROVE  Cardinality(Seen(i, r, v)') >= QUORUM
<1>1. Cardinality(Seen(i, r, v)) <= Cardinality(Seen(i, r, v)')
  BY StaysSeen
<1>2. Cardinality(Seen(i, r, v)) \in Nat /\ QUORUM \in Nat
  BY SeenFinite, Counts
<1>3. Cardinality(Seen(i, r, v)') \in Nat
  BY Counts, FS_Subset, FS_CardinalityType DEF Seen
<1> QED BY <1>1, <1>2, <1>3

\* The rounds noted so far keep their quorums.
LEMMA NotedQuorums ==
    ASSUME NUMBER_OF_NODES % 3 = 1, SimInv, HistoryInv', Extends, NEW i \in Honest
    PROVE  /\ \A r \in one_quorum[i] : Cardinality(Seen(i, r, 1)') >= QUORUM
           /\ \A r \in zero_quorum[i] : Cardinality(Seen(i, r, 0)') >= QUORUM
BY QuorumKept DEF SimInv, QuorumInv

\* Where votes are added that are not ones, or enough were drawn, ones stay
\* grounded; nobody decides 1 otherwise.
LEMMA StaysGrounded ==
    ASSUME NUMBER_OF_NODES % 3 = 1, SimInv, HistoryInv', UNCHANGED drawn,
           decided' \in [Honest -> {0, 1, Undecided}],
           \A j \in Honest, a \in Nodes : votes'[j][1][a] = 1 =>
               \E b \in Nodes : votes[j][1][b] = 1,
           ~Grounded => \A j \in Honest :
               /\ decided'[j] # 1
               /\ \A k \in DOMAIN votes'[j] : \A a \in Nodes :
                     k > 1 /\ votes'[j][k][a] = 1 =>
                         k \in DOMAIN votes[j] /\ \E b \in Nodes : votes[j][k][b] = 1
    PROVE  GroundInv'
<1>1. Grounded' = Grounded
  BY DEF Grounded, Drew1
<1>2. \A j \in Honest, a \in Nodes : votes'[j][1][a] = 1 => drawn'[j] = 1
  BY DEF SimInv, GroundInv
<1>3. CASE Grounded
  BY <1>1, <1>2, <1>3 DEF GroundInv
<1>4. CASE ~Grounded
  BY <1>1, <1>2, <1>4 DEF SimInv, GroundInv
<1> QED BY <1>3, <1>4

\* A node casts a vote, a one only if enough ones were drawn.
LEMMA CastKeeps ==
    ASSUME NUMBER_OF_NODES % 3 = 1, SimInv, UNCHANGED drawn,
           NEW i \in Honest, NEW v \in {0, 1}, Cast(i, v), v = 1 => Grounded,
           decided' \in [Honest -> {0, 1, Undecided}],
           ~Grounded => \A j \in Honest : decided'[j] # 1
    PROVE  HistoryInv' /\ Extends /\ GroundInv'
<1> DEFINE val == [j \in {i} |-> v]
<1>1. i \in Nodes
  BY Counts
<1>2. AddsVotes({i}, val)
  BY <1>1, CastAdds DEF SimInv
<1>3. {i} \in SUBSET Nodes /\ val \in [{i} -> {Delayed, 0, 1}]
  BY <1>1
<1>4. /\ HistoryInv' /\ Extends
      /\ \A j \in Nodes : \A k \in DOMAIN votes'[j] :
            \/ k \in DOMAIN votes[j] /\ votes'[j][k] = votes[j][k]
            \/ j \in {i} /\ k > 1 /\ votes'[j][k] = Same(val[j])
  <2> HIDE DEF val
  <2> QED BY <1>2, <1>3, AddedVotes DEF SimInv
<1>5. \A j \in Honest, a \in Nodes : votes'[j][1][a] = 1 =>
         \E b \in Nodes : votes[j][1][b] = 1
  <2> SUFFICES ASSUME NEW j \in Honest, NEW a \in Nodes, votes'[j][1][a] = 1
               PROVE  \E b \in Nodes : votes[j][1][b] = 1
    OBVIOUS
  <2>1. votes'[j] \in Seq(Ballot) /\ votes'[j] # <<>> /\ j \in Nodes
    BY <1>4, Counts DEF HistoryInv
  <2>2. 1 \in DOMAIN votes'[j] /\ ~ (1 > 1)
    BY <2>1, EmptySeq, LenProperties
  <2> QED BY <1>4, <2>1, <2>2
<1>6. ASSUME ~Grounded, NEW j \in Honest, NEW k \in DOMAIN votes'[j], NEW a \in Nodes,
             k > 1, votes'[j][k][a] = 1
      PROVE  k \in DOMAIN votes[j] /\ \E b \in Nodes : votes[j][k][b] = 1
  <2>1. j \in Nodes
    BY Counts
  <2>2. ~ (j \in {i} /\ votes'[j][k] = Same(val[j]))
    BY <1>6 DEF Same
  <2> QED BY <1>4, <1>6, <2>1, <2>2
<1>7. GroundInv'
  BY <1>4, <1>5, <1>6, StaysGrounded
<1> QED BY <1>4, <1>7

\* The rounds noted stay noted, whatever is added to what was seen.
LEMMA SameQuorums ==
    ASSUME NUMBER_OF_NODES % 3 = 1, SimInv, HistoryInv', Extends,
           UNCHANGED <<one_quorum, zero_quorum>>
    PROVE  QuorumInv'
BY NotedQuorums DEF SimInv, QuorumInv

\* Each branch of a node's pass keeps the invariant.
LEMMA OnesStep ==
    ASSUME NUMBER_OF_NODES % 3 = 1, SimInv, UNCHANGED drawn,
           NEW i \in Honest, AdvanceOnOnes(i)
    PROVE  SimInv'
<1>1. Grounded
  <2>1. Ones(i) \in Nat /\ Ones(i) >= QUORUM /\ QUORUM \in Nat
    BY SeenFinite, Counts DEF Ones, AdvanceOnOnes
  <2> QED BY <2>1, NoOnes DEF SimInv
<1>2. decided' \in [Honest -> {0, 1, Undecided}]
  BY DEF AdvanceOnOnes, Decides, SimInv, GroundInv
<1>3. HistoryInv' /\ Extends /\ GroundInv'
  BY <1>1, <1>2, CastKeeps DEF AdvanceOnOnes
<1>4. QuorumInv'
  <2>1. Round(i) \in Nat /\ i \in Nodes
    <3>1. i \in Nodes
      BY Counts
    <3>2. votes[i] \in Seq(Ballot) /\ votes[i] # <<>>
      BY <3>1 DEF SimInv, HistoryInv
    <3> QED BY <3>1, <3>2, EmptySeq, LenProperties DEF Round
  <2>2. Cardinality(Seen(i, Round(i), 1)) >= QUORUM
    BY DEF AdvanceOnOnes, Ones
  <2>3. \A r \in Nat : Cardinality(Seen(i, r, 1)) >= QUORUM
                     => Cardinality(Seen(i, r, 1)') >= QUORUM
    BY <1>3, QuorumKept DEF SimInv
  <2>4. /\ one_quorum' = [one_quorum EXCEPT ![i] = one_quorum[i] \union {Round(i)}]
        /\ zero_quorum' = zero_quorum
    BY DEF AdvanceOnOnes
  <2>5. one_quorum' \in [Honest -> SUBSET Nat]
    BY <2>1, <2>4 DEF SimInv, QuorumInv
  <2>6. ASSUME NEW j \in Honest, NEW r \in one_quorum'[j]
        PROVE  Cardinality(Seen(j, r, 1)') >= QUORUM
    <3>1. r \in one_quorum[j] \/ (j = i /\ r = Round(i))
      BY <2>4 DEF SimInv, QuorumInv
    <3>2. CASE r \in one_quorum[j]
      BY <1>3, <3>2, NotedQuorums
    <3>3. CASE j = i /\ r = Round(i)
      BY <2>1, <2>2, <2>3, <3>3
    <3> QED BY <3>1, <3>2, <3>3
  <2>7. ASSUME NEW j \in Honest, NEW r \in zero_quorum'[j]
        PROVE  Cardinality(Seen(j, r, 0)') >= QUORUM
    BY <1>3, <2>4, <2>7, NotedQuorums
  <2> QED BY <2>4, <2>5, <2>6, <2>7 DEF SimInv, QuorumInv
<1> QED BY <1>3, <1>4 DEF SimInv

LEMMA ZerosStep ==
    ASSUME NUMBER_OF_NODES % 3 = 1, SimInv, UNCHANGED drawn,
           NEW i \in Honest, AdvanceOnZeros(i)
    PROVE  SimInv'
<1>1. ~Grounded => \A j \in Honest : decided'[j] # 1
  BY DEF AdvanceOnZeros, Decides, SimInv, GroundInv
<1>2. decided' \in [Honest -> {0, 1, Undecided}]
  BY DEF AdvanceOnZeros, Decides, SimInv, GroundInv
<1>3. HistoryInv' /\ Extends /\ GroundInv'
  BY <1>1, <1>2, CastKeeps DEF AdvanceOnZeros
<1>4. QuorumInv'
  <2>1. Round(i) \in Nat /\ i \in Nodes
    <3>1. i \in Nodes
      BY Counts
    <3>2. votes[i] \in Seq(Ballot) /\ votes[i] # <<>>
      BY <3>1 DEF SimInv, HistoryInv
    <3> QED BY <3>1, <3>2, EmptySeq, LenProperties DEF Round
  <2>2. Cardinality(Seen(i, Round(i), 0)) >= QUORUM
    BY DEF AdvanceOnZeros, Zeros
  <2>3. \A r \in Nat : Cardinality(Seen(i, r, 0)) >= QUORUM
                     => Cardinality(Seen(i, r, 0)') >= QUORUM
    BY <1>3, QuorumKept DEF SimInv
  <2>4. /\ zero_quorum' = [zero_quorum EXCEPT ![i] = zero_quorum[i] \union {Round(i)}]
        /\ one_quorum' = one_quorum
    BY DEF AdvanceOnZeros
  <2>5. zero_quorum' \in [Honest -> SUBSET Nat]
    BY <2>1, <2>4 DEF SimInv, QuorumInv
  <2>6. ASSUME NEW j \in Honest, NEW r \in zero_quorum'[j]
        PROVE  Cardinality(Seen(j, r, 0)') >= QUORUM
    <3>1. r \in zero_quorum[j] \/ (j = i /\ r = Round(i))
      BY <2>4 DEF SimInv, QuorumInv
    <3>2. CASE r \in zero_quorum[j]
      BY <1>3, <3>2, NotedQuorums
    <3>3. CASE j = i /\ r = Round(i)
      BY <2>1, <2>2, <2>3, <3>3
    <3> QED BY <3>1, <3>2, <3>3
  <2>7. ASSUME NEW j \in Honest, NEW r \in one_quorum'[j]
        PROVE  Cardinality(Seen(j, r, 1)') >= QUORUM
    BY <1>3, <2>4, <2>7, NotedQuorums
  <2> QED BY <2>4, <2>5, <2>6, <2>7 DEF SimInv, QuorumInv
<1> QED BY <1>3, <1>4 DEF SimInv

LEMMA NeitherStep ==
    ASSUME NUMBER_OF_NODES % 3 = 1, SimInv, UNCHANGED drawn,
           NEW i \in Honest, AdvanceOnNeither(i)
    PROVE  SimInv'
<1>1. decided' \in [Honest -> {0, 1, Undecided}] /\ decided' = decided
  BY DEF AdvanceOnNeither, SimInv, GroundInv
<1>2. ~Grounded => \A j \in Honest : decided'[j] # 1
  BY <1>1 DEF SimInv, GroundInv
<1>3. HistoryInv' /\ Extends /\ GroundInv'
  BY <1>1, <1>2, CastKeeps DEF AdvanceOnNeither
<1> QED BY <1>3, SameQuorums DEF SimInv, AdvanceOnNeither

\* A one that is decided is grounded, so its node may vote it on.
LEMMA DecidedStep ==
    ASSUME NUMBER_OF_NODES % 3 = 1, SimInv, UNCHANGED drawn,
           NEW i \in Honest, AdvanceDecided(i)
    PROVE  SimInv'
<1>1. decided' \in [Honest -> {0, 1, Undecided}] /\ decided' = decided
  BY DEF AdvanceDecided, SimInv, GroundInv
<1>2. ~Grounded => \A j \in Honest : decided'[j] # 1
  BY <1>1 DEF SimInv, GroundInv
<1>3. decided[i] \in {0, 1} /\ (decided[i] = 1 => Grounded)
  BY <1>1, <1>2 DEF AdvanceDecided
<1>4. HistoryInv' /\ Extends /\ GroundInv'
  BY <1>1, <1>2, <1>3, CastKeeps DEF AdvanceDecided
<1> QED BY <1>4, SameQuorums DEF SimInv, AdvanceDecided

LEMMA DelayedStep ==
    ASSUME NUMBER_OF_NODES % 3 = 1, SimInv, UNCHANGED drawn,
           NEW i \in Honest, ReceiveDelayed(i)
    PROVE  SimInv'
<1>1. /\ HistoryInv' /\ Extends
      /\ \A j \in Nodes : DOMAIN votes'[j] = DOMAIN votes[j]
      /\ \A j \in Nodes : \A k \in DOMAIN votes[j] : \A a \in Nodes :
            votes'[j][k][a] = 1 => \E b \in Nodes : votes[j][k][b] = 1
  BY ArrivedVotes DEF SimInv
<1>2. decided' \in [Honest -> {0, 1, Undecided}] /\ decided' = decided
  BY DEF ReceiveDelayed, SimInv, GroundInv
<1>3. \A j \in Honest : j \in Nodes /\ 1 \in DOMAIN votes[j]
  <2> SUFFICES ASSUME NEW j \in Honest PROVE j \in Nodes /\ 1 \in DOMAIN votes[j]
    OBVIOUS
  <2>1. j \in Nodes
    BY Counts
  <2>2. votes[j] \in Seq(Ballot) /\ votes[j] # <<>>
    BY <2>1 DEF SimInv, HistoryInv
  <2> QED BY <2>1, <2>2, EmptySeq, LenProperties
<1>4. ~Grounded => \A j \in Honest : decided'[j] # 1
  BY <1>2 DEF SimInv, GroundInv
<1>5. GroundInv'
  BY <1>1, <1>2, <1>3, <1>4, StaysGrounded
<1> QED BY <1>1, <1>5, SameQuorums DEF SimInv, ReceiveDelayed

LEMMA ByzantineStep ==
    ASSUME NUMBER_OF_NODES % 3 = 1, SimInv, NewByzantineVotes
    PROVE  SimInv'
<1>1. PICK b \in [Byzantine -> ByzantineChoices] :
         votes' = [j \in Nodes |-> IF j \in Byzantine THEN Append(votes[j], Same(b[j]))
                                                      ELSE votes[j]]
  BY DEF NewByzantineVotes
<1>2. /\ b \in [Byzantine -> {Delayed, 0, 1}] /\ Byzantine \in SUBSET Nodes
      /\ UNCHANGED drawn
  BY Counts DEF NewByzantineVotes
<1>3. /\ HistoryInv' /\ Extends
      /\ \A j \in Nodes : \A k \in DOMAIN votes'[j] :
            \/ k \in DOMAIN votes[j] /\ votes'[j][k] = votes[j][k]
            \/ j \in Byzantine /\ k > 1 /\ votes'[j][k] = Same(b[j])
  <2>1. AddsVotes(Byzantine, b)
    BY <1>1 DEF AddsVotes
  <2> QED BY <1>2, <2>1, AddedVotes DEF SimInv
<1>4. \A j \in Honest : votes'[j] = votes[j]
  BY <1>1, Counts DEF Byzantine
<1>5. decided' \in [Honest -> {0, 1, Undecided}] /\ decided' = decided
  BY DEF NewByzantineVotes, SimInv, GroundInv
<1>6. ~Grounded => \A j \in Honest : decided'[j] # 1
  BY <1>5 DEF SimInv, GroundInv
<1>7. GroundInv'
  BY <1>2, <1>3, <1>4, <1>5, <1>6, Counts, StaysGrounded
<1> QED BY <1>3, <1>7, SameQuorums DEF SimInv, NewByzantineVotes
-----------------------------------------------------------------------------
LEMMA SimInit == NUMBER_OF_NODES % 3 = 1 /\ Init => SimInv
<1> SUFFICES ASSUME NUMBER_OF_NODES % 3 = 1, Init
             PROVE  SimInv
  OBVIOUS
<1>1. PICK late \in SUBSET Delayable, b \in [Byzantine -> ByzantineChoices] :
         votes = [j \in Nodes |-> IF j \in Honest THEN InitialVotes(late)[j]
                                                  ELSE << Same(b[j]) >>]
  BY DEF Init
<1> DEFINE first(j) == IF j \in Honest
                       THEN [i \in Nodes |-> IF <<j, i>> \in late THEN Delayed ELSE drawn[j]]
                       ELSE Same(b[j])
<1>2. \A j \in Nodes : votes[j] = << first(j) >>
  BY <1>1 DEF InitialVotes
<1>3. drawn \in [Honest -> {0, 1}]
  BY DEF Init
<1>4. \A j \in Nodes : first(j) \in Ballot
  <2>1. \A j \in Nodes : j \in Honest \/ b[j] \in {Delayed, 0, 1}
    BY DEF Byzantine
  <2> QED BY <1>3, <2>1 DEF Ballot, Same
<1>5. \A j \in Nodes : \A a, c \in Nodes :
         first(j)[a] # Delayed /\ first(j)[c] # Delayed => first(j)[a] = first(j)[c]
  BY DEF Same
<1>6. HistoryInv
  <2>1. votes \in [Nodes -> Seq(Ballot)]
    <3>1. \A j \in Nodes : votes[j] \in Seq(Ballot)
      <4> HIDE DEF first
      <4>1. \A x \in Ballot : << x >> \in Seq(Ballot)
        OBVIOUS
      <4> QED BY <1>2, <1>4, <4>1
    <3> QED BY <1>1, <3>1
  <2>2. \A j \in Nodes : votes[j] # <<>> /\ DOMAIN votes[j] = {1} /\ votes[j][1] = first(j)
    <3> HIDE DEF first
    <3> QED BY <1>2
  <2>3. \A j \in Nodes : \A k \in DOMAIN votes[j] : \A a, c \in Nodes :
           votes[j][k][a] # Delayed /\ votes[j][k][c] # Delayed
               => votes[j][k][a] = votes[j][k][c]
    <3> HIDE DEF first
    <3> QED BY <1>5, <2>2
  <2> QED BY <1>3, <2>1, <2>2, <2>3 DEF HistoryInv
<1>7. QuorumInv
  BY DEF Init, QuorumInv
<1>8. GroundInv
  <2>1. \A j \in Honest : j \in Nodes /\ DOMAIN votes[j] = {1} /\ votes[j][1] = first(j)
    <3> HIDE DEF first
    <3> QED BY <1>2, Counts
  <2>2. \A j \in Honest, a \in Nodes : first(j)[a] = 1 => drawn[j] = 1
    BY DEF Delayed
  <2>3. \A j \in Honest : decided[j] # 1 /\ decided[j] = Undecided
    BY DEF Init, Undecided
  <2>4. decided \in [Honest -> {0, 1, Undecided}]
    BY DEF Init
  <2>5. \A j \in Honest, a \in Nodes : votes[j][1][a] = 1 => drawn[j] = 1
    <3> HIDE DEF first
    <3> QED BY <2>1, <2>2
  <2>6. \A j \in Honest : \A k \in DOMAIN votes[j] : ~ (k > 1)
    <3>1. ~ (1 > 1)
      OBVIOUS
    <3> QED BY <2>1, <3>1
  <2> QED BY <2>3, <2>4, <2>5, <2>6 DEF GroundInv
<1> QED BY <1>6, <1>7, <1>8 DEF SimInv

LEMMA SimStep == NUMBER_OF_NODES % 3 = 1 /\ SimInv /\ [Next]_vars => SimInv'
<1> SUFFICES ASSUME NUMBER_OF_NODES % 3 = 1, SimInv, [Next]_vars
             PROVE  SimInv'
  OBVIOUS
<1>1. ASSUME NEW i \in Honest, Visit(i)
      PROVE  SimInv'
  <2>1. UNCHANGED drawn
    BY <1>1 DEF Visit
  <2>2. \/ AdvanceOnOnes(i) \/ AdvanceOnZeros(i) \/ AdvanceOnNeither(i)
        \/ AdvanceDecided(i) \/ ReceiveDelayed(i)
    BY <1>1 DEF Visit
  <2> QED BY <2>1, <2>2, OnesStep, ZerosStep, NeitherStep, DecidedStep, DelayedStep
<1>2. CASE NewByzantineVotes
  BY <1>2, ByzantineStep
<1>3. CASE UNCHANGED <<drawn, votes, zero_quorum, one_quorum, decided>>
  BY <1>3 DEF SimInv, HistoryInv, QuorumInv, GroundInv, Grounded, Drew1, Seen, Round
<1>4. CASE Conclude
  BY <1>3, <1>4 DEF Conclude
<1>5. CASE UNCHANGED vars
  BY <1>3, <1>5 DEF vars
<1> QED BY <1>1, <1>2, <1>4, <1>5 DEF Next

\* With 3B + 1 nodes, whatever is late and whatever the byzantine nodes send,
\* no round shows a quorum of ones to one node and of zeros to another, even at
\* different times (lines 92-126).
THEOREM QuorumsNeverOpposed ==
    ASSUME NUMBER_OF_NODES % 3 = 1
    PROVE  Spec => []NoOpposedQuorums
<1>1. SimInv => NoOpposedQuorums
  <2> SUFFICES ASSUME SimInv, NEW i \in Honest, NEW j \in Honest,
                      NEW r \in one_quorum[i] \intersect zero_quorum[j]
               PROVE  FALSE
    BY DEF NoOpposedQuorums
  <2> DEFINE S == Seen(i, r, 1)
             T == Seen(j, r, 0)
  <2>1. r \in Nat
    BY DEF SimInv, QuorumInv
  <2>2. S \intersect T = {}
    <3> SUFFICES ASSUME NEW k \in Nodes, r <= Round(k), votes[k][r + 1][i] = 1,
                        votes[k][r + 1][j] = 0
                 PROVE  FALSE
      BY DEF Seen
    <3>1. votes[k] \in Seq(Ballot)
      BY DEF SimInv, HistoryInv
    <3>2. r + 1 \in DOMAIN votes[k]
      BY <2>1, <3>1, LenProperties DEF Round
    <3>3. i \in Nodes /\ j \in Nodes
      BY Counts
    <3> QED BY <3>2, <3>3 DEF SimInv, HistoryInv, Delayed
  <2>3. /\ Cardinality(S) >= QUORUM /\ Cardinality(T) >= QUORUM
        /\ Cardinality(S) \in Nat /\ Cardinality(T) \in Nat
        /\ IsFiniteSet(S) /\ IsFiniteSet(T) /\ S \subseteq Nodes /\ T \subseteq Nodes
    BY SeenFinite DEF SimInv, QuorumInv
  <2> HIDE DEF S, T
  <2>4. /\ Cardinality(S \union T) = Cardinality(S) + Cardinality(T)
        /\ Cardinality(S \union T) <= 3 * B + 1
    <3>1. Cardinality(S \union T)
             = Cardinality(S) + Cardinality(T) - Cardinality(S \intersect T)
      BY <2>3, FS_Union
    <3>2. Cardinality(S \intersect T) = 0
      BY <2>2, FS_EmptySet
    <3>3. Cardinality(S \union T) <= Cardinality(Nodes)
      BY <2>3, Counts, FS_Subset
    <3> QED BY <2>3, <3>1, <3>2, <3>3, Counts
  <2> QED BY <2>3, <2>4, Counts
<1> QED BY <1>1, SimInit, SimStep, PTL DEF Spec

\* With 3B + 1 nodes, an honest node votes 1 after the first round only if more
\* than B honest nodes drew a 1 (lines 92-133).
THEOREM OnesDrawn ==
    ASSUME NUMBER_OF_NODES % 3 = 1
    PROVE  Spec => []OnesAreGrounded
<1>1. SimInv => OnesAreGrounded
  <2> SUFFICES ASSUME SimInv, NEW i \in Honest, NEW r \in 1 .. MaxRound + 1,
                      r <= Round(i), votes[i][r + 1] = Same(1)
               PROVE  Grounded
    BY DEF OnesAreGrounded, Grounded, Drew1, B
  <2>1. i \in Nodes /\ votes[i] \in Seq(Ballot)
    BY Counts DEF SimInv, HistoryInv
  <2>2. r + 1 \in DOMAIN votes[i] /\ r + 1 > 1
    BY <2>1, LenProperties DEF Round
  <2>3. votes[i][r + 1][i] = 1
    BY <2>1 DEF Same
  <2> QED BY <2>1, <2>2, <2>3 DEF SimInv, GroundInv
<1> QED BY <1>1, SimInit, SimStep, PTL DEF Spec
-----------------------------------------------------------------------------
(***************************************************************************)
(* Agreement where the byzantine nodes are silent.  A quorum is then all   *)
(* of the honest nodes, and a node goes on only when it has heard them     *)
(* all, so a vote they all cast is the only one ever cast again.           *)
(***************************************************************************)
\* Every honest node's vote of round r is v, be it late for some.
All(r, v) == \A j \in Honest : r <= Round(j) /\ \E a \in Nodes : votes[j][r + 1][a] = v

\* Node i has the vote of every honest node for round r.
Heard(i, r) == \A j \in Honest : r <= Round(j) /\ votes[j][r + 1][i] # Delayed

\* Nobody leaves a round before it has heard all the honest nodes.
HeardInv == \A i \in Honest, r \in Nat : r < Round(i) => Heard(i, r)

\* Once they all vote alike they do so for ever.
FollowInv ==
    \A r \in Nat, v \in {0, 1} : All(r, v) =>
        \A i \in Honest, k \in Nat :
            r < k /\ k <= Round(i) => \A a \in Nodes : votes[i][k + 1][a] = v

\* What a node decided, they all voted before it went on.
DecidedInv ==
    \A i \in Honest : decided[i] # Undecided =>
        \E r \in Nat : r < Round(i) /\ All(r, decided[i])

SilentInv == HeardInv /\ FollowInv /\ DecidedInv

\* A round is a number, and numbers the votes of a node.
LEMMA Rounds ==
    ASSUME HistoryInv, NEW j \in Nodes
    PROVE  /\ Round(j) \in Nat /\ Len(votes[j]) = Round(j) + 1
           /\ DOMAIN votes[j] = 1 .. Round(j) + 1
           /\ \A r \in Nat : r <= Round(j) => r + 1 \in DOMAIN votes[j]
<1>1. votes[j] \in Seq(Ballot) /\ votes[j] # <<>>
  BY DEF HistoryInv
<1>2. Len(votes[j]) \in Nat /\ Len(votes[j]) > 0 /\ DOMAIN votes[j] = 1 .. Len(votes[j])
  BY <1>1, EmptySeq, LenProperties
<1> QED BY <1>2 DEF Round

LEMMA HonestCount ==
    ASSUME NUMBER_OF_NODES % 3 = 1
    PROVE  IsFiniteSet(Honest) /\ Cardinality(Honest) = QUORUM /\ QUORUM \in Nat
           /\ QUORUM > 0 /\ Honest # {} /\ Nodes # {}
<1>1. B \in Nat /\ NUMBER_OF_NODES = 3 * B + 1 /\ QUORUM = 2 * B + 1
  BY Counts
<1>2. Honest = 0 .. 2 * B
  BY <1>1 DEF Honest, NUMBER_OF_HONEST_NODES, B
<1>3. IsFiniteSet(Honest) /\ Cardinality(Honest) = 2 * B + 1
  BY <1>1, <1>2, FS_Interval
<1>4. 0 \in Honest /\ 0 \in Nodes
  BY <1>1, <1>2 DEF Nodes
<1> QED BY <1>1, <1>3, <1>4

\* A silent node is never seen to vote.
LEMMA SilentSeen ==
    ASSUME NUMBER_OF_NODES % 3 = 1, HistoryInv, Silence,
           NEW i \in Honest, NEW r \in Nat, NEW v \in {0, 1}
    PROVE  Seen(i, r, v) \subseteq Honest
<1> SUFFICES ASSUME NEW j \in Byzantine, r <= Round(j), votes[j][r + 1][i] = v
             PROVE  FALSE
  BY DEF Seen, Byzantine
<1>1. j \in Nodes /\ i \in Nodes
  BY Counts
<1>2. votes[j][r + 1] = Same(Delayed)
  BY <1>1, Rounds DEF Silence
<1> QED BY <1>1, <1>2 DEF Same, Delayed

LEMMA QuorumIsAll ==
    ASSUME NUMBER_OF_NODES % 3 = 1, HistoryInv, Silence,
           NEW i \in Honest, NEW r \in Nat, NEW v \in {0, 1},
           Cardinality(Seen(i, r, v)) >= QUORUM
    PROVE  All(r, v)
<1>1. Seen(i, r, v) \subseteq Honest
  BY SilentSeen
<1>2. /\ Cardinality(Seen(i, r, v)) <= Cardinality(Honest)
      /\ Cardinality(Seen(i, r, v)) = Cardinality(Honest) => Seen(i, r, v) = Honest
  BY <1>1, HonestCount, FS_Subset
<1>3. Seen(i, r, v) = Honest
  BY <1>2, HonestCount, SeenFinite
<1> QED BY <1>3, Counts DEF Seen, All

\* Who may go on has heard all the honest nodes.
LEMMA GoesOnHeard ==
    ASSUME NUMBER_OF_NODES % 3 = 1, HistoryInv, Silence, NEW i \in Honest,
           Zeros(i) + Ones(i) >= QUORUM
    PROVE  Heard(i, Round(i))
<1> DEFINE r == Round(i)
           S == Seen(i, r, 0)
           T == Seen(i, r, 1)
<1>1. r \in Nat /\ i \in Nodes
  BY Counts, Rounds
<1>2. /\ S \subseteq Honest /\ T \subseteq Honest /\ S \intersect T = {}
      /\ S = {j \in Nodes : r <= Round(j) /\ votes[j][r + 1][i] = 0}
      /\ T = {j \in Nodes : r <= Round(j) /\ votes[j][r + 1][i] = 1}
  BY <1>1, SilentSeen DEF Seen
<1>3. Cardinality(S) + Cardinality(T) >= QUORUM
  BY DEF Zeros, Ones
<1>4. /\ IsFiniteSet(S) /\ IsFiniteSet(T)
      /\ Cardinality(S) \in Nat /\ Cardinality(T) \in Nat
  BY SeenFinite
<1> HIDE DEF r, S, T
<1>5. Cardinality(S \union T) = Cardinality(S) + Cardinality(T)
  <2>1. Cardinality(S \union T)
           = Cardinality(S) + Cardinality(T) - Cardinality(S \intersect T)
    BY <1>4, FS_Union
  <2>2. Cardinality(S \intersect T) = 0
    BY <1>2, FS_EmptySet
  <2> QED BY <1>4, <2>1, <2>2
<1>6. S \union T = Honest
  <2>1. /\ Cardinality(S \union T) <= Cardinality(Honest)
        /\ Cardinality(S \union T) = Cardinality(Honest) => S \union T = Honest
    BY <1>2, HonestCount, FS_Subset
  <2> QED BY <1>3, <1>4, <1>5, <2>1, HonestCount
<1>7. \A j \in Honest : r <= Round(j) /\ votes[j][r + 1][i] # Delayed
  BY <1>2, <1>6 DEF Delayed
<1> QED BY <1>7 DEF Heard, r

\* What they all voted is what is seen of them.
LEMMA AllSeen ==
    ASSUME NUMBER_OF_NODES % 3 = 1, HistoryInv, Silence,
           NEW i \in Honest, NEW r \in Nat, NEW v \in {0, 1}, NEW w \in {0, 1},
           Heard(i, r), All(r, v), w # v
    PROVE  Seen(i, r, v) = Honest /\ Seen(i, r, w) = {}
<1>1. ASSUME NEW j \in Honest
      PROVE  votes[j][r + 1][i] = v /\ r <= Round(j)
  <2>1. j \in Nodes /\ i \in Nodes
    BY Counts
  <2>2. PICK a \in Nodes : r <= Round(j) /\ votes[j][r + 1][a] = v
    BY DEF All
  <2>3. r + 1 \in DOMAIN votes[j]
    BY <2>1, <2>2, Rounds
  <2>4. votes[j][r + 1][i] # Delayed /\ v # Delayed
    BY DEF Heard, Delayed
  <2> QED BY <2>1, <2>2, <2>3, <2>4 DEF HistoryInv
<1>2. Seen(i, r, v) \subseteq Honest /\ Seen(i, r, w) \subseteq Honest
  BY SilentSeen
<1> QED BY <1>1, <1>2, Counts DEF Seen

\* They cannot all have voted two values.
LEMMA AllOnce ==
    ASSUME NUMBER_OF_NODES % 3 = 1, HistoryInv, NEW r \in Nat,
           NEW v \in {0, 1}, NEW w \in {0, 1}, All(r, v), All(r, w)
    PROVE  v = w
<1>1. PICK j \in Honest : j \in Nodes
  BY HonestCount, Counts
<1>2. PICK a \in Nodes : r <= Round(j) /\ votes[j][r + 1][a] = v
  BY DEF All
<1>3. PICK c \in Nodes : votes[j][r + 1][c] = w
  BY DEF All
<1>4. r + 1 \in DOMAIN votes[j]
  BY <1>1, <1>2, Rounds
<1>5. v # Delayed /\ w # Delayed
  BY DEF Delayed
<1> QED BY <1>1, <1>2, <1>3, <1>4, <1>5 DEF HistoryInv

\* What they all voted once they vote in every round that somebody has heard.
LEMMA AllAgain ==
    ASSUME NUMBER_OF_NODES % 3 = 1, HistoryInv, FollowInv,
           NEW i \in Honest, NEW r \in Nat, NEW s \in Nat, NEW v \in {0, 1},
           r <= s, All(r, v), \A j \in Honest : s <= Round(j)
    PROVE  All(s, v)
<1>1. CASE r = s
  BY <1>1
<1>2. CASE r < s
  <2>1. \A j \in Honest : \A a \in Nodes : votes[j][s + 1][a] = v
    BY <1>2 DEF FollowInv
  <2> QED BY <2>1, HonestCount DEF All
<1> QED BY <1>1, <1>2

\* A step keeps what silence gives where nobody leaves a round unheard, a vote
\* follows what they all voted, and a decision is what they all voted.
LEMMA SilenceKept ==
    ASSUME NUMBER_OF_NODES % 3 = 1, HistoryInv, HistoryInv', Extends, SilentInv,
           \A i \in Honest, r \in Nat : r < Round(i)' => Heard(i, r),
           \A i \in Honest : Round(i)' > Round(i) =>
               /\ Round(i)' = Round(i) + 1
               /\ \A r \in Nat, v \in {0, 1} : r <= Round(i) /\ All(r, v) =>
                     \A a \in Nodes : votes'[i][Round(i) + 2][a] = v,
           \A i \in Honest : decided'[i] # Undecided =>
               /\ decided'[i] \in {0, 1}
               /\ \E r \in Nat : r < Round(i)' /\ All(r, decided'[i])
    PROVE  SilentInv'
<1>1. ASSUME NEW j \in Honest, NEW r \in Nat, NEW a \in Nodes,
             r <= Round(j), votes[j][r + 1][a] # Delayed
      PROVE  r <= Round(j)' /\ votes'[j][r + 1][a] = votes[j][r + 1][a]
  <2>1. j \in Nodes
    BY Counts
  <2>2. r + 1 \in DOMAIN votes[j]
    BY <1>1, <2>1, Rounds
  <2>3. r + 1 \in DOMAIN votes'[j] /\ votes'[j][r + 1][a] = votes[j][r + 1][a]
    BY <1>1, <2>1, <2>2 DEF Extends
  <2>4. votes'[j] \in Seq(Ballot)
    BY <2>1 DEF HistoryInv
  <2> QED BY <2>3, <2>4, LenProperties DEF Round
<1>2. ASSUME NEW r \in Nat, NEW v \in {0, 1}, All(r, v)
      PROVE  All(r, v)'
  <2> SUFFICES ASSUME NEW j \in Honest
               PROVE  r <= Round(j)' /\ \E a \in Nodes : votes'[j][r + 1][a] = v
    BY DEF All
  <2>1. PICK a \in Nodes : r <= Round(j) /\ votes[j][r + 1][a] = v
    BY <1>2 DEF All
  <2>2. v # Delayed
    BY DEF Delayed
  <2> QED BY <1>1, <2>1, <2>2
<1>3. HeardInv'
  <2> SUFFICES ASSUME NEW i \in Honest, NEW r \in Nat, r < Round(i)', NEW j \in Honest
               PROVE  r <= Round(j)' /\ votes'[j][r + 1][i] # Delayed
    BY DEF HeardInv, Heard
  <2>1. i \in Nodes
    BY Counts
  <2>2. r <= Round(j) /\ votes[j][r + 1][i] # Delayed
    BY DEF Heard
  <2> QED BY <1>1, <2>1, <2>2
<1>4. ASSUME NEW r \in Nat, NEW v \in {0, 1}, All(r, v)',
             NEW i \in Honest, r < Round(i)'
      PROVE  All(r, v)
  <2> SUFFICES ASSUME NEW j \in Honest
               PROVE  r <= Round(j) /\ votes[j][r + 1][i] = v
    BY Counts DEF All
  <2>1. r <= Round(j) /\ votes[j][r + 1][i] # Delayed
    BY <1>4 DEF Heard
  <2>2. i \in Nodes /\ j \in Nodes
    BY Counts
  <2>3. r <= Round(j)' /\ votes'[j][r + 1][i] = votes[j][r + 1][i]
    BY <1>1, <2>1, <2>2
  <2>4. PICK a \in Nodes : votes'[j][r + 1][a] = v
    BY <1>4 DEF All
  <2>5. r + 1 \in DOMAIN votes'[j] /\ v # Delayed
    <3>1. r + 1 \in DOMAIN votes[j]
      BY <2>1, <2>2, Rounds
    <3> QED BY <2>2, <3>1 DEF Extends, Delayed
  <2>6. votes'[j][r + 1][i] = votes'[j][r + 1][a]
    BY <2>1, <2>2, <2>3, <2>4, <2>5 DEF HistoryInv
  <2> QED BY <2>1, <2>3, <2>4, <2>6
<1>5. FollowInv'
  <2> SUFFICES ASSUME NEW r \in Nat, NEW v \in {0, 1}, All(r, v)',
                      NEW i \in Honest, NEW k \in Nat, r < k, k <= Round(i)', NEW a \in Nodes
               PROVE  votes'[i][k + 1][a] = v
    BY DEF FollowInv
  <2>1. i \in Nodes /\ Round(i) \in Nat
    BY Counts, Rounds
  <2>2. Round(i)' \in Nat
    <3>1. votes'[i] \in Seq(Ballot) /\ votes'[i] # <<>>
      BY <2>1 DEF HistoryInv
    <3> QED BY <3>1, EmptySeq, LenProperties DEF Round
  <2>3. All(r, v)
    BY <1>4, <2>2
  <2>4. CASE k <= Round(i)
    <3>1. votes[i][k + 1][a] = v /\ v # Delayed
      BY <2>3, <2>4 DEF SilentInv, FollowInv, Delayed
    <3> QED BY <1>1, <2>4, <3>1
  <2>5. CASE k > Round(i)
    <3>1. k = Round(i) + 1 /\ r <= Round(i) /\ Round(i)' > Round(i)
      BY <2>1, <2>2, <2>5
    <3>2. \A c \in Nodes : votes'[i][Round(i) + 2][c] = v
      BY <2>3, <3>1
    <3>3. k + 1 = Round(i) + 2
      BY <2>1, <3>1
    <3> QED BY <3>2, <3>3
  <2> QED BY <2>1, <2>4, <2>5
<1>6. DecidedInv'
  BY <1>2 DEF DecidedInv
<1> QED BY <1>3, <1>5, <1>6 DEF SilentInv

\* The vote of a node that goes on is what they all voted, where they did.
LEMMA AdvanceFollows ==
    ASSUME NUMBER_OF_NODES % 3 = 1, SimInv, Silence, SilentInv, NEW i \in Honest,
           Heard(i, Round(i)), NEW v \in {0, 1},
           \/ AdvanceOnOnes(i) /\ v = 1
           \/ AdvanceOnZeros(i) /\ v = 0
           \/ AdvanceOnNeither(i) /\ v = 0
           \/ AdvanceDecided(i) /\ v = decided[i],
           NEW r \in Nat, NEW w \in {0, 1}, r <= Round(i), All(r, w)
    PROVE  v = w
<1> DEFINE R == Round(i)
<1>1. HistoryInv /\ FollowInv /\ R \in Nat
  BY Counts, Rounds DEF SimInv, SilentInv
<1>2. \A j \in Honest : R <= Round(j)
  BY DEF Heard
<1>3. \A s \in Nat, u \in {0, 1} : s <= R /\ All(s, u) => All(R, u)
  BY <1>1, <1>2, AllAgain
<1>4. All(R, w)
  BY <1>3
<1>5. /\ w = 0 => Ones(i) < QUORUM /\ Zeros(i) >= QUORUM
      /\ w = 1 => Ones(i) >= QUORUM
  <2>1. \A u \in {0, 1} : u # w => Seen(i, R, w) = Honest /\ Seen(i, R, u) = {}
    BY <1>1, <1>4, AllSeen
  <2>2. Cardinality({}) = 0 /\ Cardinality(Honest) = QUORUM /\ QUORUM \in Nat /\ QUORUM > 0
    BY FS_EmptySet, HonestCount
  <2> QED BY <2>1, <2>2 DEF Ones, Zeros
<1>6. Ones(i) \in Nat /\ Zeros(i) \in Nat /\ QUORUM \in Nat
  BY SeenFinite, HonestCount DEF Ones, Zeros
<1>7. CASE AdvanceDecided(i) /\ v = decided[i]
  <2>1. PICK s \in Nat : s < R /\ All(s, v)
    BY <1>7 DEF AdvanceDecided, SilentInv, DecidedInv
  <2>2. All(R, v)
    BY <1>1, <1>3, <2>1
  <2> QED BY <1>1, <1>4, <2>2, AllOnce
<1>8. CASE AdvanceOnOnes(i) /\ v = 1
  BY <1>5, <1>6, <1>8 DEF AdvanceOnOnes
<1>9. CASE AdvanceOnZeros(i) /\ v = 0
  BY <1>5, <1>6, <1>9 DEF AdvanceOnZeros
<1>10. CASE AdvanceOnNeither(i) /\ v = 0
  BY <1>5, <1>6, <1>10 DEF AdvanceOnNeither
<1> QED BY <1>7, <1>8, <1>9, <1>10

\* What a node that goes on decides they all voted in its round.
LEMMA AdvanceDecides ==
    ASSUME NUMBER_OF_NODES % 3 = 1, SimInv, Silence, NEW i \in Honest,
           \/ AdvanceOnOnes(i) \/ AdvanceOnZeros(i)
           \/ AdvanceOnNeither(i) \/ AdvanceDecided(i)
    PROVE  /\ decided' \in [Honest -> {0, 1, Undecided}]
           /\ \A j \in Honest : decided'[j] # decided[j] =>
                 j = i /\ decided'[j] \in {0, 1} /\ All(Round(i), decided'[j])
<1>1. HistoryInv /\ Round(i) \in Nat /\ decided \in [Honest -> {0, 1, Undecided}]
  BY Counts, Rounds DEF SimInv, GroundInv
<1>2. CASE AdvanceOnOnes(i)
  <2>1. All(Round(i), 1)
    BY <1>1, <1>2, QuorumIsAll DEF AdvanceOnOnes, Ones
  <2> QED BY <1>1, <1>2, <2>1 DEF AdvanceOnOnes, Decides
<1>3. CASE AdvanceOnZeros(i)
  <2>1. All(Round(i), 0)
    BY <1>1, <1>3, QuorumIsAll DEF AdvanceOnZeros, Zeros
  <2> QED BY <1>1, <1>3, <2>1 DEF AdvanceOnZeros, Decides
<1>4. CASE AdvanceOnNeither(i) \/ AdvanceDecided(i)
  BY <1>1, <1>4 DEF AdvanceOnNeither, AdvanceDecided
<1> QED BY <1>2, <1>3, <1>4

LEMMA SilentAdvance ==
    ASSUME NUMBER_OF_NODES % 3 = 1, SimInv, SimInv', Silence, SilentInv,
           UNCHANGED drawn, NEW i \in Honest, Zeros(i) + Ones(i) >= QUORUM,
           \/ AdvanceOnOnes(i) \/ AdvanceOnZeros(i)
           \/ AdvanceOnNeither(i) \/ AdvanceDecided(i)
    PROVE  SilentInv'
<1>1. HistoryInv /\ HistoryInv' /\ i \in Nodes /\ Round(i) \in Nat
  BY Counts, Rounds DEF SimInv
<1>2. Heard(i, Round(i))
  BY <1>1, GoesOnHeard
<1>3. PICK v \in {0, 1} :
         /\ \/ AdvanceOnOnes(i) /\ v = 1
            \/ AdvanceOnZeros(i) /\ v = 0
            \/ AdvanceOnNeither(i) /\ v = 0
            \/ AdvanceDecided(i) /\ v = decided[i]
         /\ Cast(i, v)
  <2>1. decided[i] \in {0, 1, Undecided}
    BY DEF SimInv, GroundInv
  <2> QED BY <2>1 DEF AdvanceOnOnes, AdvanceOnZeros, AdvanceOnNeither, AdvanceDecided
<1>4. Extends
  <2>1. AddsVotes({i}, [j \in {i} |-> v])
    BY <1>1, <1>3, CastAdds
  <2>2. {i} \in SUBSET Nodes /\ [j \in {i} |-> v] \in [{i} -> {Delayed, 0, 1}]
    BY <1>1
  <2> QED BY <1>1, <2>1, <2>2, AddedVotes
<1>5. /\ \A j \in Nodes : j # i => votes'[j] = votes[j]
      /\ votes'[i] = Append(votes[i], Same(v))
  BY <1>1, <1>3 DEF Cast, HistoryInv
<1>6. Round(i)' = Round(i) + 1 /\ votes'[i][Round(i) + 2] = Same(v)
  <2>1. votes[i] \in Seq(Ballot)
    BY <1>1 DEF HistoryInv
  <2>2. Same(v) \in Ballot
    BY DEF Same, Ballot
  <2>3. /\ Len(votes'[i]) = Len(votes[i]) + 1
        /\ votes'[i][Len(votes[i]) + 1] = Same(v)
    BY <1>5, <2>1, <2>2, AppendProperties
  <2>4. Len(votes[i]) = Round(i) + 1
    BY <1>1, Rounds
  <2> QED BY <1>1, <2>3, <2>4 DEF Round
<1>7. \A j \in Honest : j # i => Round(j)' = Round(j) /\ Round(j) \in Nat
  BY <1>1, <1>5, Counts, Rounds DEF Round
<1>8. ASSUME NEW j \in Honest, NEW r \in Nat, r < Round(j)'
      PROVE  Heard(j, r)
  <2>1. CASE r < Round(j)
    BY <2>1 DEF SilentInv, HeardInv
  <2>2. CASE j = i /\ r = Round(i)
    BY <1>2, <2>2
  <2> QED BY <1>1, <1>6, <1>7, <1>8, <2>1, <2>2
<1>9. \A r \in Nat, w \in {0, 1} : r <= Round(i) /\ All(r, w) => v = w
  BY <1>2, <1>3, AdvanceFollows
<1>10. ASSUME NEW j \in Honest, Round(j)' > Round(j)
       PROVE  /\ Round(j)' = Round(j) + 1
              /\ \A r \in Nat, w \in {0, 1} : r <= Round(j) /\ All(r, w) =>
                    \A a \in Nodes : votes'[j][Round(j) + 2][a] = w
  <2>1. j = i
    BY <1>7, <1>10
  <2> QED BY <1>6, <1>9, <2>1 DEF Same
<1>11. ASSUME NEW j \in Honest, decided'[j] # Undecided
       PROVE  /\ decided'[j] \in {0, 1}
              /\ \E r \in Nat : r < Round(j)' /\ All(r, decided'[j])
  <2>1. decided'[j] \in {0, 1}
    BY <1>11, AdvanceDecides
  <2>2. CASE decided'[j] = decided[j]
    <3>1. PICK r \in Nat : r < Round(j) /\ All(r, decided[j])
      BY <1>11, <2>2 DEF SilentInv, DecidedInv
    <3>2. r < Round(j)'
      BY <1>1, <1>6, <1>7, <3>1
    <3> QED BY <2>1, <2>2, <3>1, <3>2
  <2>3. CASE decided'[j] # decided[j]
    <3>1. j = i /\ All(Round(i), decided'[j])
      BY <2>3, AdvanceDecides
    <3>2. Round(i) < Round(i)'
      BY <1>1, <1>6
    <3> QED BY <1>1, <2>1, <3>1, <3>2
  <2> QED BY <2>2, <2>3
<1> QED BY <1>1, <1>4, <1>8, <1>10, <1>11, SilenceKept

\* Late votes that arrive take nobody on.
LEMMA SilentArrival ==
    ASSUME NUMBER_OF_NODES % 3 = 1, SimInv, SimInv', SilentInv, UNCHANGED drawn,
           NEW i \in Honest, ReceiveDelayed(i)
    PROVE  SilentInv'
<1>1. /\ HistoryInv /\ HistoryInv' /\ Extends
      /\ \A j \in Nodes : DOMAIN votes'[j] = DOMAIN votes[j]
  BY ArrivedVotes DEF SimInv
<1>2. \A j \in Honest : Round(j)' = Round(j) /\ Round(j) \in Nat
  <2> SUFFICES ASSUME NEW j \in Honest PROVE Round(j)' = Round(j) /\ Round(j) \in Nat
    OBVIOUS
  <2>1. j \in Nodes
    BY Counts
  <2>2. votes[j] \in Seq(Ballot) /\ votes'[j] \in Seq(Ballot)
    BY <1>1, <2>1 DEF HistoryInv
  <2>3. Len(votes'[j]) = Len(votes[j])
    BY <1>1, <2>1, <2>2, LenProperties
  <2> QED BY <1>1, <2>1, <2>3, Rounds DEF Round
<1>3. \A j \in Honest, r \in Nat : r < Round(j)' => Heard(j, r)
  BY <1>2 DEF SilentInv, HeardInv
<1>4. \A j \in Honest : ~ (Round(j)' > Round(j))
  BY <1>2
<1>5. \A j \in Honest : decided'[j] # Undecided =>
         decided'[j] \in {0, 1} /\ \E r \in Nat : r < Round(j)' /\ All(r, decided'[j])
  <2>1. decided' = decided /\ decided \in [Honest -> {0, 1, Undecided}]
    BY DEF ReceiveDelayed, SimInv, GroundInv
  <2> QED BY <1>2, <2>1 DEF SilentInv, DecidedInv
<1> QED BY <1>1, <1>3, <1>4, <1>5, SilenceKept

\* Byzantine votes touch no honest node.
LEMMA SilentByzantine ==
    ASSUME NUMBER_OF_NODES % 3 = 1, SilentInv, NewByzantineVotes
    PROVE  SilentInv'
<1>1. \A j \in Honest : votes'[j] = votes[j] /\ Round(j)' = Round(j)
  BY Counts DEF NewByzantineVotes, Byzantine, Round
<1>2. decided' = decided
  BY DEF NewByzantineVotes
<1>3. \A r, v : All(r, v)' = All(r, v)
  BY <1>1 DEF All
<1>4. \A i \in Honest, r \in Nat : Heard(i, r)' = Heard(i, r)
  BY <1>1 DEF Heard
<1>5. HeardInv'
  BY <1>1, <1>4 DEF SilentInv, HeardInv
<1>6. FollowInv'
  BY <1>1, <1>3 DEF SilentInv, FollowInv
<1>7. DecidedInv'
  BY <1>1, <1>2, <1>3 DEF SilentInv, DecidedInv
<1> QED BY <1>5, <1>6, <1>7 DEF SilentInv

\* Who is silent now was silent before.
LEMMA SilenceBefore ==
    ASSUME NUMBER_OF_NODES % 3 = 1, SimInv, [Next]_vars, Silence'
    PROVE  Silence
<1> SUFFICES ASSUME NEW j \in Byzantine, NEW r \in DOMAIN votes[j]
             PROVE  r \in DOMAIN votes'[j] /\ votes'[j][r] = votes[j][r]
  BY DEF Silence
<1>1. j \in Nodes /\ j \notin Honest
  BY Counts DEF Byzantine
<1>2. votes[j] \in Seq(Ballot)
  BY <1>1 DEF SimInv, HistoryInv
<1>3. CASE votes'[j] = votes[j]
  BY <1>3
<1>4. CASE NewByzantineVotes
  <2>1. PICK b \in [Byzantine -> ByzantineChoices] : votes'[j] = Append(votes[j], Same(b[j]))
    BY <1>1, <1>4 DEF NewByzantineVotes
  <2>2. Same(b[j]) \in Ballot
    BY DEF Same, Ballot
  <2>3. /\ Len(votes'[j]) = Len(votes[j]) + 1
        /\ votes'[j] \in Seq(Ballot)
        /\ \A k \in 1 .. Len(votes[j]) : votes'[j][k] = votes[j][k]
    <3> HIDE DEF Ballot
    <3> QED BY <1>2, <2>1, <2>2, AppendProperties
  <2> QED BY <1>2, <2>3, LenProperties
<1>5. ASSUME NEW i \in Honest, Visit(i)
      PROVE  votes'[j] = votes[j]
  <2>1. i # j
    BY <1>1
  <2>2. CASE ReceiveDelayed(i)
    BY <1>1, <2>2 DEF ReceiveDelayed
  <2>3. CASE \E v \in {0, 1, decided[i]} : Cast(i, v)
    BY <1>1, <2>1, <2>3 DEF Cast, SimInv, HistoryInv
  <2> QED BY <1>5, <2>2, <2>3
        DEF Visit, AdvanceOnOnes, AdvanceOnZeros, AdvanceOnNeither, AdvanceDecided
<1>6. CASE Conclude \/ UNCHANGED vars
  BY <1>3, <1>6 DEF Conclude, vars
<1> QED BY <1>3, <1>4, <1>5, <1>6 DEF Next

LEMMA SilentInit == NUMBER_OF_NODES % 3 = 1 /\ Init => SilentInv
<1> SUFFICES ASSUME NUMBER_OF_NODES % 3 = 1, Init
             PROVE  SilentInv
  OBVIOUS
<1>1. HistoryInv
  BY SimInit DEF SimInv
<1>2. \A j \in Honest : Round(j) = 0
  BY Counts DEF Init, InitialVotes, Round
<1>3. decided = [i \in Honest |-> Undecided]
  BY DEF Init
<1> QED BY <1>2, <1>3 DEF SilentInv, HeardInv, FollowInv, DecidedInv

LEMMA SilentStep ==
    ASSUME NUMBER_OF_NODES % 3 = 1, SimInv, SimInv', Silence => SilentInv,
           [Next]_vars, Silence'
    PROVE  SilentInv'
<1>1. Silence /\ SilentInv
  BY SilenceBefore
<1>2. ASSUME NEW i \in Honest, Visit(i)
      PROVE  SilentInv'
  <2>1. UNCHANGED drawn
    BY <1>2 DEF Visit
  <2>2. CASE Zeros(i) + Ones(i) >= QUORUM
    <3>1. AdvanceOnOnes(i) \/ AdvanceOnZeros(i) \/ AdvanceOnNeither(i) \/ AdvanceDecided(i)
      BY <1>2, <2>2 DEF Visit
    <3> QED BY <1>1, <2>1, <2>2, <3>1, SilentAdvance
  <2>3. CASE ReceiveDelayed(i)
    BY <1>1, <2>1, <2>3, SilentArrival
  <2> QED BY <1>2, <2>2, <2>3 DEF Visit
<1>3. CASE NewByzantineVotes
  BY <1>1, <1>3, SilentByzantine
<1>4. CASE UNCHANGED <<drawn, votes, zero_quorum, one_quorum, decided>>
  BY <1>1, <1>4 DEF SilentInv, HeardInv, FollowInv, DecidedInv, All, Heard, Round
<1>5. CASE Conclude \/ UNCHANGED vars
  BY <1>4, <1>5 DEF Conclude, vars
<1> QED BY <1>2, <1>3, <1>5 DEF Next

\* The assertion of line 165 for every number 3B + 1 of nodes, of which the B
\* byzantine are silent: the honest nodes decide alike.
THEOREM SilentAgreement ==
    ASSUME NUMBER_OF_NODES % 3 = 1
    PROVE  Spec => []AgreedInSilence
<1> DEFINE Inv == SimInv /\ (Silence => SilentInv)
<1>1. Init => Inv
  BY SimInit, SilentInit
<1>2. Inv /\ [Next]_vars => Inv'
  BY SimStep, SilentStep
<1>3. Inv => AgreedInSilence
  <2> SUFFICES ASSUME SimInv, SilentInv, AllDecided, NEW i \in Honest, NEW j \in Honest
               PROVE  decided[i] = decided[j]
    BY DEF AgreedInSilence
  <2>1. HistoryInv /\ FollowInv /\ decided \in [Honest -> {0, 1, Undecided}]
    BY DEF SimInv, SilentInv, GroundInv
  <2>2. decided[i] \in {0, 1} /\ decided[j] \in {0, 1}
    BY <2>1 DEF AllDecided
  <2>3. PICK r \in Nat : r < Round(i) /\ All(r, decided[i])
    BY DEF AllDecided, SilentInv, DecidedInv
  <2>4. PICK s \in Nat : s < Round(j) /\ All(s, decided[j])
    BY DEF AllDecided, SilentInv, DecidedInv
  <2>5. CASE r <= s
    <3>1. All(s, decided[i])
      BY <2>1, <2>2, <2>3, <2>4, <2>5, AllAgain DEF All
    <3> QED BY <2>1, <2>2, <2>4, <3>1, AllOnce
  <2>6. CASE s <= r
    <3>1. All(r, decided[j])
      BY <2>1, <2>2, <2>3, <2>4, <2>6, AllAgain DEF All
    <3> QED BY <2>1, <2>2, <2>3, <3>1, AllOnce
  <2> QED BY <2>5, <2>6
<1> QED BY <1>1, <1>2, <1>3, PTL DEF Spec
-----------------------------------------------------------------------------
(***************************************************************************)
(* The types.  The rounds noted are those of the byzantine nodes, which go *)
(* round the loop together: a node that was visited this time is at most   *)
(* one round ahead of them, and one that was not is not ahead at all.      *)
(***************************************************************************)
Pace(R) ==
    /\ \A j \in Byzantine : Round(j) = R
    /\ \A i \in Honest : Round(i) <= IF i < turn THEN R + 1 ELSE R
    /\ zero_quorum \in [Honest -> SUBSET (0 .. R)]
    /\ one_quorum \in [Honest -> SUBSET (0 .. R)]

PaceInv == turn \in 0 .. NUMBER_OF_HONEST_NODES + 1 /\ \E R \in 0 .. MaxRound : Pace(R)

\* A visit takes its node at most one round on, and no other.
LEMMA VisitRounds ==
    ASSUME NUMBER_OF_NODES % 3 = 1, SimInv, SimInv', NEW i \in Honest, Visit(i)
    PROVE  /\ \A j \in Nodes : j # i => Round(j)' = Round(j)
           /\ Round(i)' = Round(i) \/ Round(i)' = Round(i) + 1
<1>1. HistoryInv /\ HistoryInv' /\ i \in Nodes /\ UNCHANGED drawn
  BY Counts DEF SimInv, Visit
<1>2. CASE ReceiveDelayed(i)
  <2> SUFFICES ASSUME NEW j \in Nodes PROVE Round(j)' = Round(j)
    BY <1>1
  <2>1. votes[j] \in Seq(Ballot) /\ votes'[j] \in Seq(Ballot)
    BY <1>1 DEF HistoryInv
  <2>2. DOMAIN votes'[j] = DOMAIN votes[j]
    BY <1>1, <1>2, ArrivedVotes
  <2> QED BY <2>1, <2>2, LenProperties DEF Round
<1>3. CASE \E v \in {0, 1} : Cast(i, v)
  <2>1. PICK v \in {0, 1} : Cast(i, v)
    BY <1>3
  <2>2. /\ \A j \in Nodes : j # i => votes'[j] = votes[j]
        /\ votes'[i] = Append(votes[i], Same(v))
    BY <1>1, <2>1 DEF Cast, HistoryInv
  <2>3. Len(votes'[i]) = Len(votes[i]) + 1
    <3>1. votes[i] \in Seq(Ballot) /\ Same(v) \in Ballot
      BY <1>1 DEF HistoryInv, Same, Ballot
    <3> QED BY <2>2, <3>1, AppendProperties
  <2>4. Len(votes[i]) = Round(i) + 1 /\ Round(i) \in Nat
    BY <1>1, Rounds
  <2> QED BY <2>2, <2>3, <2>4 DEF Round
<1>4. decided[i] # Undecided => decided[i] \in {0, 1}
  BY DEF SimInv, GroundInv
<1> QED BY <1>2, <1>3, <1>4
      DEF Visit, AdvanceOnOnes, AdvanceOnZeros, AdvanceOnNeither, AdvanceDecided

\* A visit notes the round of its node, if any.
LEMMA VisitNotes ==
    ASSUME NEW i \in Honest, Visit(i), NEW R \in Nat, Pace(R), Round(i) \in 0 .. R
    PROVE  /\ zero_quorum' \in [Honest -> SUBSET (0 .. R)]
           /\ one_quorum' \in [Honest -> SUBSET (0 .. R)]
<1>1. \A f \in [Honest -> SUBSET (0 .. R)] :
         [f EXCEPT ![i] = @ \union {Round(i)}] \in [Honest -> SUBSET (0 .. R)]
  OBVIOUS
<1> QED BY <1>1 DEF Pace, Visit, AdvanceOnOnes, AdvanceOnZeros, AdvanceOnNeither,
                    AdvanceDecided, ReceiveDelayed

LEMMA PaceInit == NUMBER_OF_NODES % 3 = 1 /\ Init => PaceInv
<1> SUFFICES ASSUME NUMBER_OF_NODES % 3 = 1, Init
             PROVE  PaceInv
  OBVIOUS
<1>1. \A j \in Nodes : Round(j) = 0
  BY DEF Init, InitialVotes, Round
<1>2. Pace(0)
  BY <1>1, Counts DEF Init, Pace
<1>3. NUMBER_OF_HONEST_NODES \in Nat
  BY Counts DEF NUMBER_OF_HONEST_NODES, B
<1> QED BY <1>2, <1>3 DEF Init, PaceInv

LEMMA PaceStep ==
    ASSUME NUMBER_OF_NODES % 3 = 1, NUMBER_OF_NODES > 1, SimInv, SimInv', PaceInv,
           [Next]_vars
    PROVE  PaceInv'
<1> DEFINE H == NUMBER_OF_HONEST_NODES
<1>1. H \in Nat /\ Honest = 0 .. H - 1 /\ Byzantine # {}
  <2>1. B \in Nat /\ B > 0 /\ NUMBER_OF_NODES = 3 * B + 1
    BY Counts
  <2>2. H = 2 * B + 1
    BY <2>1 DEF NUMBER_OF_HONEST_NODES, B
  <2>3. 3 * B \in Byzantine
    BY <2>1, <2>2 DEF Byzantine, Nodes, Honest
  <2> QED BY <2>1, <2>2, <2>3 DEF Honest
<1>2. PICK R \in 0 .. MaxRound : Pace(R)
  BY DEF PaceInv
<1>3. turn \in 0 .. H + 1
  BY DEF PaceInv
<1>4. \A j \in Nodes : Round(j) \in Nat
  BY Rounds DEF SimInv
<1>5. ASSUME NEW i \in Honest, Visit(i)
      PROVE  PaceInv'
  <2>1. turn = i /\ turn' = i + 1
    BY <1>5 DEF Visit
  <2>2. i \in Nodes /\ i \in Nat /\ i < H
    BY <1>1, Counts
  <2>3. Round(i) \in 0 .. R
    BY <1>2, <1>4, <2>1, <2>2 DEF Pace
  <2>4. \A j \in Byzantine : Round(j)' = R
    BY <1>2, <1>5, Counts, VisitRounds DEF Pace, Byzantine
  <2>5. ASSUME NEW j \in Honest
        PROVE  Round(j)' <= IF j < turn' THEN R + 1 ELSE R
    <3>1. j \in Nodes /\ j \in Nat /\ Round(j) \in Nat
      BY <1>4, Counts
    <3>2. CASE j = i
      <4>1. Round(i)' = Round(i) \/ Round(i)' = Round(i) + 1
        BY <1>5, VisitRounds
      <4> QED BY <2>1, <2>2, <2>3, <3>2, <4>1
    <3>3. CASE j # i
      <4>1. Round(j)' = Round(j) /\ Round(j) <= IF j < turn THEN R + 1 ELSE R
        BY <1>2, <1>5, <3>1, <3>3, VisitRounds DEF Pace
      <4>2. j < turn' <=> j < turn
        BY <2>1, <2>2, <3>1, <3>3
      <4> QED BY <4>1, <4>2
    <3> QED BY <3>2, <3>3
  <2>6. /\ zero_quorum' \in [Honest -> SUBSET (0 .. R)]
        /\ one_quorum' \in [Honest -> SUBSET (0 .. R)]
    BY <1>2, <1>5, <2>3, VisitNotes
  <2>7. Pace(R)'
    BY <2>4, <2>5, <2>6 DEF Pace
  <2>8. turn' \in 0 .. H + 1
    BY <1>1, <2>1, <2>2
  <2> QED BY <1>2, <2>7, <2>8 DEF PaceInv
<1>6. CASE NewByzantineVotes
  <2>1. R + 1 \in 0 .. MaxRound
    BY <1>1, <1>2, <1>6 DEF NewByzantineVotes, Pace
  <2>2. /\ turn = H /\ turn' = 0
        /\ zero_quorum' = zero_quorum /\ one_quorum' = one_quorum
    BY <1>6 DEF NewByzantineVotes
  <2>3. \A i \in Honest : Round(i)' = Round(i) /\ Round(i) <= R + 1 /\ ~ (i < 0)
    BY <1>1, <1>2, <1>6, <2>2, Counts DEF NewByzantineVotes, Pace, Byzantine, Round
  <2>4. ASSUME NEW j \in Byzantine
        PROVE  Round(j)' = R + 1
    <3>1. PICK b \in [Byzantine -> ByzantineChoices] : votes'[j] = Append(votes[j], Same(b[j]))
      BY <1>6, Counts DEF NewByzantineVotes
    <3>2. votes[j] \in Seq(Ballot) /\ Same(b[j]) \in Ballot
      BY Counts DEF SimInv, HistoryInv, Same, Ballot
    <3>3. Len(votes'[j]) = Len(votes[j]) + 1
      BY <3>1, <3>2, AppendProperties
    <3>4. Len(votes[j]) = Round(j) + 1 /\ Round(j) = R
      BY <1>2, Counts, Rounds DEF SimInv, Pace
    <3> QED BY <3>3, <3>4 DEF Round
  <2>5. /\ zero_quorum' \in [Honest -> SUBSET (0 .. R + 1)]
        /\ one_quorum' \in [Honest -> SUBSET (0 .. R + 1)]
    <3>1. 0 .. R \subseteq 0 .. R + 1
      BY <2>1
    <3> QED BY <1>2, <2>2, <3>1 DEF Pace
  <2>6. Pace(R + 1)'
    BY <2>2, <2>3, <2>4, <2>5 DEF Pace
  <2> QED BY <1>1, <2>1, <2>2, <2>6 DEF PaceInv
<1>7. CASE Conclude
  <2>1. turn = H /\ turn' = H + 1 /\ UNCHANGED <<votes, zero_quorum, one_quorum>>
    BY <1>7 DEF Conclude
  <2>2. \A i \in Honest : i < turn /\ i < turn'
    BY <1>1, <2>1
  <2>3. Pace(R)'
    BY <1>2, <2>1, <2>2 DEF Pace, Round
  <2> QED BY <1>1, <1>2, <2>1, <2>3 DEF PaceInv
<1>8. CASE UNCHANGED vars
  BY <1>8 DEF vars, PaceInv, Pace, Round
<1> QED BY <1>5, <1>6, <1>7, <1>8 DEF Next

\* The state of the program has its types at every number 3B + 1 of nodes with
\* some byzantine: no round noted is beyond the last of the loop (lines 69-160).
THEOREM SimulationTyped ==
    ASSUME NUMBER_OF_NODES % 3 = 1, NUMBER_OF_NODES > 1
    PROVE  Spec => []TypeOK
<1> DEFINE Inv == SimInv /\ PaceInv
<1>1. Init => Inv
  BY SimInit, PaceInit
<1>2. Inv /\ [Next]_vars => Inv'
  BY SimStep, PaceStep
<1>3. Inv => TypeOK
  <2> SUFFICES ASSUME SimInv, PaceInv PROVE TypeOK
    OBVIOUS
  <2>1. PICK R \in 0 .. MaxRound : Pace(R)
    BY DEF PaceInv
  <2>2. 0 .. R \subseteq 0 .. MaxRound
    OBVIOUS
  <2>3. /\ zero_quorum \in [Honest -> SUBSET (0 .. MaxRound)]
        /\ one_quorum \in [Honest -> SUBSET (0 .. MaxRound)]
    BY <2>1, <2>2 DEF Pace
  <2> QED BY <2>3 DEF TypeOK, PaceInv, SimInv, HistoryInv, GroundInv, Ballot
<1> QED BY <1>1, <1>2, <1>3, PTL DEF Spec
=============================================================================
