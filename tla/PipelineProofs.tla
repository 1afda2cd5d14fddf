--------------------------- MODULE PipelineProofs ---------------------------
(***************************************************************************)
(* What holds on the way from a client to the cores and between them, for  *)
(* any committee, any batches and any room: the thresholds of the          *)
(* committee overlap as they must, no vote of a primary is doubled, none   *)
(* of round 0 is lost, and no vote is for a primary that does not listen.  *)
(***************************************************************************)
EXTENDS Pipeline, FiniteSetTheorems, SequenceTheorems, TLAPS

\* What the comments of lines 154-155 and 162-163 compute, for every total whose
\* sums fit a u32: with N = 3f + 1 + k a quorum takes N - f and availability
\* f + 1.
THEOREM ThresholdValues ==
    ASSUME MaxStake \in Nat, NEW f \in Nat, NEW k \in 0 .. 2,
           2 * (3 * f + 1 + k) <= MaxStake, 3 * f + 3 + k <= MaxStake
    PROVE  /\ Quorum(3 * f + 1 + k) = (3 * f + 1 + k) - f
           /\ Validity(3 * f + 1 + k) = f + 1
  <1> DEFINE N == 3 * f + 1 + k
  <1>1. N \in Nat /\ 2 * N \in Nat /\ N + 2 \in Nat
    OBVIOUS
  <1>2. Wrap(2 * N) = 2 * N
    BY <1>1, SMT DEF Wrap
  <1>3. Wrap(N + 2) = N + 2
    BY <1>1, SMT DEF Wrap
  <1>4. (2 * N) \div 3 = 2 * f + k
    BY <1>1, SMT
  <1>5. (N + 2) \div 3 = f + 1
    BY <1>1, SMT
  <1> QED
    BY <1>2, <1>3, <1>4, <1>5 DEF Quorum, Validity

\* For every total whose sums fit a u32, stakes a and b of a quorum each, out
\* of that total, share an available stake c (lines 153-166).
THEOREM QuorumOverlap ==
    ASSUME MaxStake \in Nat,
           NEW N \in Nat, 0 < N, 2 * N <= MaxStake, N + 2 <= MaxStake,
           NEW a \in Nat, NEW b \in Nat, NEW c \in Nat, a + b <= N + c,
           a >= Quorum(N), b >= Quorum(N)
    PROVE  c >= Validity(N)
  <1>1. Wrap(2 * N) = 2 * N /\ Wrap(N + 2) = N + 2
    BY SMT DEF Wrap
  <1>2. Quorum(N) = (2 * N) \div 3 + 1 /\ Validity(N) = (N + 2) \div 3
    BY <1>1 DEF Quorum, Validity
  <1>3. 3 * ((2 * N) \div 3) + 2 >= 2 * N /\ 3 * ((N + 2) \div 3) <= N + 2
    BY SMT
  <1>4. (2 * N) \div 3 \in Nat /\ (N + 2) \div 3 \in Nat
    BY SMT
  <1> QED
    BY <1>2, <1>3, <1>4, SMT
-----------------------------------------------------------------------------
(***************************************************************************)
(* How often an element is in a sequence.                                  *)
(***************************************************************************)
At(x, s) == {i \in DOMAIN s : s[i] = x}

LEMMA TimesType ==
    ASSUME NEW S, NEW s \in Seq(S), NEW x
    PROVE  IsFiniteSet(At(x, s)) /\ Times(x, s) = Cardinality(At(x, s)) /\ Times(x, s) \in Nat
<1>1. DOMAIN s = 1 .. Len(s) /\ Len(s) \in Nat
  BY LenProperties
<1>2. IsFiniteSet(1 .. Len(s)) /\ At(x, s) \subseteq 1 .. Len(s)
  BY <1>1, FS_Interval DEF At
<1>3. IsFiniteSet(At(x, s))
  BY <1>2, FS_Subset
<1> QED BY <1>3, FS_CardinalityType DEF Times, At

\* An element is in a sequence if it is there once or more.
LEMMA TimesElement ==
    ASSUME NEW S, NEW s \in Seq(S), NEW x
    PROVE  x \in ToSet(s) <=> Times(x, s) # 0
<1>1. x \in ToSet(s) <=> At(x, s) # {}
  BY DEF ToSet, At
<1> QED BY <1>1, TimesType, FS_EmptySet

LEMMA TimesEmpty == ASSUME NEW x PROVE Times(x, <<>>) = 0 /\ ToSet(<<>>) = {}
<1>1. {i \in DOMAIN <<>> : <<>>[i] = x} = {}
  OBVIOUS
<1> QED BY <1>1, FS_EmptySet DEF Times, ToSet

LEMMA TimesAppend ==
    ASSUME NEW S, NEW s \in Seq(S), NEW y \in S
    PROVE  /\ Append(s, y) \in Seq(S)
           /\ ToSet(Append(s, y)) = ToSet(s) \union {y}
           /\ \A x : Times(x, Append(s, y)) = Times(x, s) + (IF x = y THEN 1 ELSE 0)
<1> DEFINE t == Append(s, y)
<1>1. /\ t \in Seq(S)
      /\ Len(t) = Len(s) + 1 /\ Len(s) \in Nat
      /\ DOMAIN t = 1 .. Len(t) /\ DOMAIN s = 1 .. Len(s)
      /\ \A i \in 1 .. Len(s) : t[i] = s[i]
      /\ t[Len(s) + 1] = y
  BY AppendProperties, LenProperties
<1> HIDE DEF t
<1>2. ToSet(t) = ToSet(s) \union {y}
  BY <1>1 DEF ToSet
<1>3. ASSUME NEW x PROVE Times(x, t) = Times(x, s) + (IF x = y THEN 1 ELSE 0)
  <2>1. At(x, t) = IF x = y THEN At(x, s) \union {Len(s) + 1} ELSE At(x, s)
    BY <1>1 DEF At
  <2>2. Len(s) + 1 \notin At(x, s)
    BY <1>1 DEF At
  <2> QED BY <1>1, <2>1, <2>2, TimesType, FS_AddElement
<1> QED BY <1>1, <1>2, <1>3 DEF t

\* Indices that all move by the same distance are as many as before.
LEMMA ShiftedIndices ==
    ASSUME NEW T \in SUBSET Nat, IsFiniteSet(T), NEW k \in Nat
    PROVE  /\ IsFiniteSet({i + k : i \in T})
           /\ Cardinality({i + k : i \in T}) = Cardinality(T)
<1> DEFINE U == {i + k : i \in T}
           f == [i \in T |-> i + k]
<1>1. f \in Bijection(T, U)
  <2>1. f \in Injection(T, U)
    BY DEF Injection, IsInjective
  <2>2. f \in Surjection(T, U)
    BY DEF Surjection
  <2> QED BY <2>1, <2>2 DEF Bijection
<1>2. ExistsBijection(T, U)
  BY <1>1 DEF ExistsBijection
<1> HIDE DEF U
<1>3. IsFiniteSet(U) /\ Cardinality(U) = Cardinality(T)
  BY <1>2, FS_Bijection
<1> QED BY <1>3 DEF U

LEMMA TimesTail ==
    ASSUME NEW S, NEW s \in Seq(S), s # <<>>
    PROVE  /\ Head(s) \in S /\ Tail(s) \in Seq(S)
           /\ Head(s) \in ToSet(s) /\ ToSet(Tail(s)) \subseteq ToSet(s)
           /\ \A x : Times(x, s) = Times(x, Tail(s)) + (IF x = Head(s) THEN 1 ELSE 0)
<1> DEFINE t == Tail(s)
<1>1. /\ Head(s) \in S /\ t \in Seq(S)
      /\ Len(t) = Len(s) - 1 /\ Len(s) \in Nat \ {0} /\ Len(t) \in Nat
      /\ DOMAIN t = 1 .. Len(t) /\ DOMAIN s = 1 .. Len(s)
      /\ \A i \in 1 .. Len(t) : t[i] = s[i + 1]
      /\ Head(s) = s[1]
  BY HeadTailProperties, LenProperties, EmptySeq
<1> HIDE DEF t
<1>2. Head(s) \in ToSet(s) /\ ToSet(t) \subseteq ToSet(s)
  BY <1>1 DEF ToSet
<1>3. ASSUME NEW x PROVE Times(x, s) = Times(x, t) + (IF x = Head(s) THEN 1 ELSE 0)
  <2> DEFINE U == {i + 1 : i \in At(x, t)}
  <2>1. At(x, s) = IF x = Head(s) THEN U \union {1} ELSE U
    <3>1. ASSUME NEW i \in At(x, s), i # 1 PROVE i \in U
      <4>1. i - 1 \in At(x, t) /\ i = (i - 1) + 1
        BY <1>1, <3>1 DEF At
      <4> QED BY <4>1
    <3>2. U \subseteq At(x, s)
      BY <1>1 DEF At
    <3>3. 1 \in At(x, s) <=> x = Head(s)
      BY <1>1 DEF At
    <3> QED BY <3>1, <3>2, <3>3
  <2>2. 1 \notin U /\ At(x, t) \subseteq Nat
    BY <1>1 DEF At
  <2>3. IsFiniteSet(U) /\ Cardinality(U) = Cardinality(At(x, t))
    BY <1>1, <2>2, TimesType, ShiftedIndices, ZenonT(60)
  <2> HIDE DEF U
  <2> QED BY <1>1, <2>1, <2>2, <2>3, TimesType, FS_AddElement
<1> QED BY <1>1, <1>2, <1>3 DEF t

LEMMA TimesConcat ==
    ASSUME NEW S, NEW s \in Seq(S), NEW t \in Seq(S)
    PROVE  /\ s \o t \in Seq(S)
           /\ ToSet(s \o t) = ToSet(s) \union ToSet(t)
           /\ \A x : Times(x, s \o t) = Times(x, s) + Times(x, t)
<1> DEFINE u == s \o t
<1>1. /\ u \in Seq(S) /\ Len(u) = Len(s) + Len(t) /\ Len(s) \in Nat /\ Len(t) \in Nat
      /\ DOMAIN t = 1 .. Len(t) /\ DOMAIN s = 1 .. Len(s) /\ DOMAIN u = 1 .. Len(u)
      /\ \A i \in 1 .. Len(s) : u[i] = s[i]
      /\ \A i \in 1 .. Len(t) : u[i + Len(s)] = t[i]
  <2>1. \A i \in 1 .. Len(s) + Len(t) :
           u[i] = IF i <= Len(s) THEN s[i] ELSE t[i - Len(s)]
    BY ConcatProperties
  <2>2. /\ u \in Seq(S) /\ Len(u) = Len(s) + Len(t) /\ Len(s) \in Nat /\ Len(t) \in Nat
        /\ DOMAIN t = 1 .. Len(t) /\ DOMAIN s = 1 .. Len(s) /\ DOMAIN u = 1 .. Len(u)
    BY ConcatProperties, LenProperties
  <2> HIDE DEF u
  <2> QED BY <2>1, <2>2, SMTT(30)
<1> HIDE DEF u
<1>2. \A i \in 1 .. Len(u) :
         i \in 1 .. Len(s) \/ (i - Len(s) \in 1 .. Len(t) /\ i = (i - Len(s)) + Len(s))
  BY <1>1
<1>3. \A i \in 1 .. Len(t) : i + Len(s) \in 1 .. Len(u)
  BY <1>1
<1>4. ToSet(u) = ToSet(s) \union ToSet(t)
  <2>1. ASSUME NEW i \in 1 .. Len(u) PROVE u[i] \in ToSet(s) \union ToSet(t)
    <3>1. CASE i \in 1 .. Len(s)
      BY <1>1, <3>1 DEF ToSet
    <3>2. CASE i - Len(s) \in 1 .. Len(t) /\ i = (i - Len(s)) + Len(s)
      BY <1>1, <3>2 DEF ToSet
    <3> QED BY <1>2, <3>1, <3>2
  <2>2. ToSet(s) \subseteq ToSet(u)
    BY <1>1 DEF ToSet
  <2>3. ToSet(t) \subseteq ToSet(u)
    BY <1>1, <1>3 DEF ToSet
  <2>4. ToSet(u) = {u[i] : i \in 1 .. Len(u)}
    BY <1>1 DEF ToSet
  <2> QED BY <2>1, <2>2, <2>3, <2>4
<1>5. ASSUME NEW x PROVE Times(x, u) = Times(x, s) + Times(x, t)
  <2> DEFINE U == {i + Len(s) : i \in At(x, t)}
  <2>1. At(x, t) \subseteq Nat
    BY <1>1 DEF At
  <2>2. IsFiniteSet(U) /\ Cardinality(U) = Cardinality(At(x, t))
    BY <1>1, <2>1, TimesType, ShiftedIndices
  <2>3. At(x, u) = At(x, s) \union U
    <3>1. ASSUME NEW i \in At(x, u), i \notin At(x, s) PROVE i \in U
      <4>1. i - Len(s) \in At(x, t) /\ i = (i - Len(s)) + Len(s)
        BY <1>1, <1>2, <3>1 DEF At
      <4> QED BY <4>1
    <3>2. At(x, s) \subseteq At(x, u)
      BY <1>1 DEF At
    <3>3. U \subseteq At(x, u)
      BY <1>1, <1>3 DEF At
    <3> QED BY <3>1, <3>2, <3>3
  <2>4. At(x, s) \cap U = {}
    BY <1>1 DEF At
  <2> HIDE DEF U
  <2>5. /\ IsFiniteSet(At(x, s)) /\ Cardinality(At(x, s)) \in Nat
        /\ Cardinality(U) \in Nat /\ Cardinality(U) = Times(x, t)
        /\ Times(x, s) = Cardinality(At(x, s)) /\ Times(x, u) = Cardinality(At(x, u))
    BY <1>1, <2>2, TimesType
  <2>6. Cardinality(At(x, s) \union U)
          = Cardinality(At(x, s)) + Cardinality(U) - Cardinality(At(x, s) \cap U)
    BY <2>2, <2>5, FS_Union
  <2>7. Cardinality(At(x, s) \cap U) = 0
    BY <2>4, FS_EmptySet
  <2>8. Times(x, u) = Cardinality(At(x, s) \union U)
    BY <2>3, <2>5
  <2> QED BY <2>5, <2>6, <2>7, <2>8
<1> QED BY <1>1, <1>4, <1>5 DEF u
-----------------------------------------------------------------------------
(***************************************************************************)
(* The handlers.                                                           *)
(***************************************************************************)
SendTo == [vote : Vote, to : Node]

LEMMA Addresses ==
    /\ SetToSeq(Node) \in Seq(Node)
    /\ \A m \in Node : Times(m, SetToSeq(Node)) = 1
<1> DEFINE N == Cardinality(Node)
           to == SetToSeq(Node)
<1>1. IsFiniteSet(Node)
  BY CommitteeAssumption DEF Node
<1>2. N \in Nat /\ ExistsBijection(1 .. N, Node)
  BY <1>1, FS_CardinalityType
<1>3. PICK f \in [1 .. N -> Node] : IsInjective(f)
  BY <1>2 DEF ExistsBijection, Bijection, Injection
<1>4. to \in [1 .. N -> Node] /\ IsInjective(to)
  BY <1>3 DEF SetToSeq
<1> HIDE DEF to
<1>5. to \in Injection(1 .. N, Node)
  BY <1>4 DEF Injection
<1>6. to \in Surjection(1 .. N, Node)
  <2>1. Cardinality(1 .. N) = N
    BY <1>2, FS_Interval
  <2> HIDE DEF N
  <2> QED BY <1>1, <1>5, <2>1, FS_Injection DEF N
<1>7. to \in Seq(Node)
  BY <1>2, <1>4, SeqDef
<1>8. ASSUME NEW m \in Node PROVE Times(m, to) = 1
  <2>1. PICK i \in 1 .. N : to[i] = m
    BY <1>6 DEF Surjection
  <2>2. At(m, to) = {i}
    BY <1>4, <2>1 DEF At, IsInjective
  <2> QED BY <1>7, <2>2, TimesType, FS_Singleton
<1> QED BY <1>7, <1>8 DEF to

\* A broadcast sends the vote, and no other, to every primary once.
LEMMA BroadcastFacts ==
    ASSUME NEW n \in Node, NEW v \in Vote
    PROVE  /\ Broadcast(n, v) \in Seq(SendTo)
           /\ \A w : \A m \in Node :
                 Times([vote |-> w, to |-> m], Broadcast(n, v)) = IF w = v THEN 1 ELSE 0
<1> DEFINE to == SetToSeq(Node)
           b == [i \in DOMAIN to |-> [vote |-> v, to |-> to[i]]]
<1>1. Broadcast(n, v) = b
  BY DEF Broadcast, others_primaries, Node
<1>2. to \in Seq(Node) /\ \A m \in Node : Times(m, to) = 1
  BY Addresses
<1>3. DOMAIN to = 1 .. Len(to) /\ Len(to) \in Nat /\ \A i \in DOMAIN to : to[i] \in Node
  BY <1>2, LenProperties, ElementOfSeq
<1> HIDE DEF to
<1>4. b \in [1 .. Len(to) -> SendTo]
  BY <1>3 DEF SendTo
<1>5. b \in Seq(SendTo)
  BY <1>3, <1>4, SeqDef
<1>6. ASSUME NEW w, NEW m \in Node
      PROVE  Times([vote |-> w, to |-> m], b) = IF w = v THEN 1 ELSE 0
  <2>1. At([vote |-> w, to |-> m], b) = IF w = v THEN At(m, to) ELSE {}
    BY DEF At
  <2> QED BY <1>2, <1>5, <2>1, TimesType, FS_EmptySet
<1> QED BY <1>1, <1>5, <1>6

\* The votes of W, each cast by n and sent to every primary, by the sends s.
Sent(n, W, s) ==
    /\ W \subseteq Vote /\ \A v \in W : v.signer = n
    /\ s \in Seq(SendTo)
    /\ \A w : \A m \in Node :
          Times([vote |-> w, to |-> m], s) = IF w \in W THEN 1 ELSE 0

LEMMA SendsFacts ==
    ASSUME NEW n \in Node, NEW V \in SUBSET Vote, \A v \in V : v.signer = n,
           \A v, w \in V : v = w
    PROVE  Sent(n, V, Sends(n, V))
<1>1. CASE V = {}
  <2>1. Sends(n, V) = <<>> /\ <<>> \in Seq(SendTo)
    BY <1>1, EmptySeq DEF Sends
  <2> QED BY <1>1, <2>1, TimesEmpty DEF Sent
<1>2. CASE V # {}
  <2>1. PICK v \in V : V = {v}
    BY <1>2
  <2>2. Sends(n, V) = Broadcast(n, v)
    BY <2>1 DEF Sends
  <2>3. v \in Vote /\ Broadcast(n, v) \in Seq(SendTo)
        /\ \A w : \A m \in Node :
              Times([vote |-> w, to |-> m], Broadcast(n, v)) = IF w = v THEN 1 ELSE 0
    BY BroadcastFacts
  <2>4. \A w : w \in V <=> w = v
    BY <2>1
  <2> QED BY <2>2, <2>3, <2>4 DEF Sent
<1> QED BY <1>1, <1>2

LEMMA SentTogether ==
    ASSUME NEW n, NEW V, NEW W, NEW s, NEW t, Sent(n, V, s), Sent(n, W, t), V \cap W = {}
    PROVE  Sent(n, V \union W, s \o t)
<1>1. s \o t \in Seq(SendTo)
  BY TimesConcat DEF Sent
<1>2. ASSUME NEW w, NEW m \in Node
      PROVE  Times([vote |-> w, to |-> m], s \o t) = IF w \in V \union W THEN 1 ELSE 0
  <2>1. Times([vote |-> w, to |-> m], s \o t)
          = Times([vote |-> w, to |-> m], s) + Times([vote |-> w, to |-> m], t)
    BY TimesConcat DEF Sent
  <2> QED BY <2>1 DEF Sent
<1> QED BY <1>1, <1>2 DEF Sent

LEMMA InitialVoteFacts ==
    ASSUME NEW S \in SUBSET Vote, NEW n \in Node, NEW e \in Elections
    PROVE  /\ InitialVote(S, n, e) \subseteq Vote
           /\ \A v \in InitialVote(S, n, e) :
                 v.signer = n /\ v.election = e /\ v.round = 0 /\ v \notin S
           /\ \A v, w \in InitialVote(S, n, e) : v = w
<1> DEFINE c == [signer |-> n, election |-> e, round |-> 0, proof |-> {}]
<1>1. c \in Vote
  BY PipelineAssumption DEF Vote
<1>2. ~Voted(S, n, e, 0) => c \notin S
  BY DEF Voted, Of
<1>3. c.signer = n /\ c.election = e /\ c.round = 0
  OBVIOUS
<1>4. \/ InitialVote(S, n, e) = {}
      \/ ~Voted(S, n, e, 0) /\ InitialVote(S, n, e) = {c}
  BY DEF InitialVote, Cast
<1> HIDE DEF c
<1> QED BY <1>1, <1>2, <1>3, <1>4

LEMMA NextVoteFacts ==
    ASSUME NEW S \in SUBSET Vote, NEW n \in Node, NEW v \in Vote
    PROVE  /\ NextVote(S, n, v) \subseteq Vote
           /\ \A w \in NextVote(S, n, v) :
                 w.signer = n /\ w.election = v.election /\ w.round = v.round + 1 /\ w \notin S
           /\ \A w, x \in NextVote(S, n, v) : w = x
<1> DEFINE here == Signers(Of(S, v.election, v.round))
           e == v.election
           r == v.round + 1
           c == [signer |-> n, election |-> e, round |-> r, proof |-> here]
<1>1. here \in SUBSET Node /\ e \in Elections /\ v.round \in 0 .. LastRound
  BY DEF Signers, Of, Vote
<1> HIDE DEF here
<1>2. v.round < LastRound => c \in Vote
  BY <1>1, PipelineAssumption DEF Vote
<1>3. ~Voted(S, n, e, r) => c \notin S
  BY DEF Voted, Of
<1>4. \/ NextVote(S, n, v) = {}
      \/ v.round < LastRound /\ ~Voted(S, n, e, r) /\ NextVote(S, n, v) = {c}
  BY DEF NextVote, Cast, here
<1> QED BY <1>2, <1>3, <1>4

\* The core of n counts the votes R, and casts the new votes W.
Counted(n, R, W) ==
    /\ Sent(n, W, todo'[n]) /\ W \cap (validated_votes[n] \union R) = {}
    /\ todo' = [todo EXCEPT ![n] = todo'[n]]
    /\ validated_votes' = [validated_votes EXCEPT ![n] = validated_votes[n] \union R \union W]

\* What handle_transaction does: the votes W of n, if any, are new.
LEMMA TransactionHandled ==
    ASSUME TypeOK, NEW n \in Node, HandleTransaction(n)
    PROVE  \E W : Counted(n, {}, W)
<1> DEFINE e == Head(batch[n])
           W == InitialVote(validated_votes[n], n, e)
<1>1. e \in Elections
  BY TimesTail DEF HandleTransaction, TypeOK
<1>2. validated_votes[n] \in SUBSET Vote
  BY DEF TypeOK
<1>3. /\ validated_votes' = [validated_votes EXCEPT ![n] = @ \union W]
      /\ todo' = [todo EXCEPT ![n] = Sends(n, W)]
  BY DEF HandleTransaction
<1> HIDE DEF e
<1>4. Sent(n, W, Sends(n, W)) /\ W \cap validated_votes[n] = {}
  BY <1>1, <1>2, InitialVoteFacts, SendsFacts
<1> HIDE DEF W
<1>5. todo'[n] = Sends(n, W)
  BY <1>3 DEF TypeOK
<1>6. Counted(n, {}, W)
  BY <1>3, <1>4, <1>5 DEF Counted
<1> QED BY <1>6

\* What handle_vote does with a vote v: it is counted, and with it new votes W
\* of n, if any; or it is counted already, or may be put away, but not in round 0.
LEMMA VoteHandled ==
    ASSUME TypeOK, NEW n \in Node, HandleVote(n)
    PROVE  LET v == Head(rx_votes[n])
           IN  \/ /\ v \in validated_votes[n] \/ v.round # 0
                  /\ UNCHANGED <<validated_votes, todo>>
               \/ /\ v \notin validated_votes[n]
                  /\ \E W : Counted(n, {v}, W)
<1> DEFINE v     == Head(rx_votes[n])
           old   == validated_votes[n]
           first == IF v.round = 0 THEN InitialVote(old \union {v}, n, v.election) ELSE {}
           next  == NextVote(old \union {v} \union first, n, v)
           W     == first \union next
<1>1. v \in Vote /\ v.round \in Nat /\ v.election \in Elections
  <2>1. v \in Vote
    BY TimesTail DEF HandleVote, TypeOK
  <2> HIDE DEF v
  <2> QED BY <2>1, PipelineAssumption DEF Vote
<1>2. old \in SUBSET Vote
  BY DEF TypeOK
<1>3. IF v \notin old /\ Valid(old, v)
      THEN /\ validated_votes' = [validated_votes EXCEPT ![n] = @ \union {v} \union first \union next]
           /\ todo' = [todo EXCEPT ![n] = Sends(n, first) \o Sends(n, next)]
      ELSE UNCHANGED <<validated_votes, todo>>
  BY DEF HandleVote
<1>4. n \in DOMAIN todo /\ n \in DOMAIN validated_votes
  BY DEF TypeOK
<1> HIDE DEF v, old
<1>5. CASE ~(v \notin old /\ Valid(old, v))
  <2>1. v \in old \/ v.round # 0
    BY <1>1, <1>5 DEF Valid
  <2>2. UNCHANGED <<validated_votes, todo>>
    BY <1>3, <1>5
  <2> QED BY <2>1, <2>2 DEF v, old
<1>6. CASE v \notin old /\ Valid(old, v)
  <2>1. first \subseteq Vote
        /\ (\A w \in first : w.signer = n /\ w.round = v.round /\ w \notin old \union {v})
        /\ (\A w, x \in first : w = x)
    <3>1. CASE v.round = 0
      <4> DEFINE S == old \union {v}
                 e == v.election
                 V == InitialVote(S, n, e)
      <4>1. first = V
        BY <3>1
      <4>2. S \in SUBSET Vote /\ e \in Elections
        BY <1>1, <1>2
      <4> HIDE DEF first, S, e
      <4>3. /\ V \subseteq Vote
            /\ \A w \in V : w.signer = n /\ w.election = e /\ w.round = 0 /\ w \notin S
            /\ \A w, x \in V : w = x
        BY <4>2, InitialVoteFacts
      <4> QED BY <3>1, <4>1, <4>3 DEF S
    <3>2. CASE v.round # 0
      BY <3>2
    <3> QED BY <3>1, <3>2
  <2>2. next \subseteq Vote
        /\ (\A w \in next : w.signer = n /\ w.round = v.round + 1
                            /\ w \notin old \union {v} \union first)
        /\ (\A w, x \in next : w = x)
    <3> HIDE DEF first
    <3>1. old \union {v} \union first \in SUBSET Vote
      BY <1>1, <1>2, <2>1
    <3> QED BY <1>1, <3>1, NextVoteFacts, ZenonT(60)
  <2> HIDE DEF first, next
  <2>3. Sent(n, first, Sends(n, first)) /\ Sent(n, next, Sends(n, next))
    BY <2>1, <2>2, SendsFacts
  <2>4. first \cap next = {}
    BY <2>2
  <2>5. Sent(n, W, Sends(n, first) \o Sends(n, next))
    BY <2>3, <2>4, SentTogether
  <2>6. W \cap (old \union {v}) = {}
    BY <2>1, <2>2
  <2>7. /\ validated_votes' = [validated_votes EXCEPT ![n] = old \union {v} \union W]
        /\ todo' = [todo EXCEPT ![n] = Sends(n, first) \o Sends(n, next)]
    BY <1>3, <1>6 DEF old
  <2>8. todo'[n] = Sends(n, first) \o Sends(n, next)
    BY <1>4, <2>7
  <2> HIDE DEF W
  <2>9. Counted(n, {v}, W)
    BY <2>5, <2>6, <2>7, <2>8 DEF Counted, old
  <2> QED BY <1>6, <2>9 DEF v, old
<1> QED BY <1>5, <1>6
-----------------------------------------------------------------------------
\* A vote is for n only when its handler runs, so a client that saw everyone
\* listen started it.
Reached == \A c \in Client : client[c].reached \subseteq online
Joined  == \A c \in Client : client[c].step # "waiting" => online = Node
Quiet   ==
    /\ \A c \in Client : socket[c] = <<>>
    /\ \A n \in Node : /\ rx_transactions[n] = <<>> /\ rx_votes[n] = <<>>
                      /\ batch[n] = <<>> /\ todo[n] = <<>>
    /\ \A n, m \in Node : channel[n][m] = <<>> /\ wire[n][m] = <<>>

Awake == Reached /\ Joined /\ (online = Node \/ Quiet)

\* A vote that is anywhere was counted by its signer, and what n has to send
\* and its connections hold are votes of n.
Known ==
    /\ \A n \in Node : \A v \in validated_votes[n] \union ToSet(rx_votes[n]) : v \in Own(v.signer)
    /\ \A n \in Node : \A s \in ToSet(todo[n]) : s.vote \in Own(n)
    /\ \A n, m \in Node : ToSet(channel[n][m]) \union ToSet(wire[n][m]) \subseteq Own(n)

LEMMA BatchType == ASSUME NEW c \in Client PROVE c \in Node /\ Batch[c] \in Seq(Elections)
<1>1. c \in Node /\ Batch[c] \in Seq(ToSet(Batch[c]))
  BY PipelineAssumption
<1>2. ToSet(Batch[c]) \subseteq Elections
  BY DEF Elections
<1> QED BY <1>1, <1>2, SeqMonotonic

LEMMA CountedType ==
    ASSUME TypeOK, NEW n \in Node, NEW R \in SUBSET Vote, NEW W, Counted(n, R, W)
    PROVE  /\ todo' \in [Node -> Seq([vote : Vote, to : Node])]
           /\ validated_votes' \in [Node -> SUBSET Vote]
<1>1. todo'[n] \in Seq([vote : Vote, to : Node]) /\ W \subseteq Vote
  BY DEF Counted, Sent, SendTo
<1>2. todo' \in [Node -> Seq([vote : Vote, to : Node])]
  BY <1>1 DEF Counted, TypeOK
<1>3. validated_votes' \in [Node -> SUBSET Vote]
  BY <1>1 DEF Counted, TypeOK
<1> QED BY <1>2, <1>3

LEMMA TypeInit == Init => TypeOK
<1> SUFFICES ASSUME Init PROVE TypeOK
  OBVIOUS
<1>1. <<>> \in Seq(Seq(Elections)) /\ <<>> \in Seq(Elections) /\ <<>> \in Seq(Vote)
      /\ <<>> \in Seq([vote : Vote, to : Node])
  BY EmptySeq
<1> QED BY <1>1 DEF Init, TypeOK

LEMMA TypeStep == ASSUME TypeOK, [Next]_vars PROVE TypeOK'
<1> USE DEF outside, queue, core, link
<1> DEFINE Clients == [Client -> [step : {"waiting", "ready", "done"}, reached : SUBSET Node]]
<1>a. client \in Clients
  BY DEF TypeOK
<1>1. ASSUME NEW c \in Client, JoinAll(c) PROVE TypeOK'
  <2>1. client' \in Clients
    BY <1>1, <1>a DEF JoinAll
  <2> QED BY <1>1, <2>1 DEF JoinAll, TypeOK
<1>2. ASSUME NEW c \in Client, Submit(c) PROVE TypeOK'
  <2>1. Append(socket[c], Batch[c]) \in Seq(Seq(Elections))
    BY BatchType, TimesAppend DEF TypeOK
  <2>2. socket' \in [Client -> Seq(Seq(Elections))]
    BY <1>2, <2>1 DEF Submit, TypeOK
  <2>3. client' \in Clients
    BY <1>2, <1>a DEF Submit
  <2> QED BY <1>2, <2>2, <2>3 DEF Submit, TypeOK
<1>3. ASSUME NEW c \in Client, NEW n \in Node, Reach(c, n) PROVE TypeOK'
  BY <1>3, ZenonT(60) DEF Reach, TypeOK
<1>4. ASSUME NEW n \in Node, Start(n) PROVE TypeOK'
  BY <1>4 DEF Start, TypeOK
<1>5. ASSUME NEW n \in Node, TakeTransactions(n) PROVE TypeOK'
  <2>1. /\ Head(rx_transactions[n]) \in Seq(Elections)
        /\ Tail(rx_transactions[n]) \in Seq(Seq(Elections))
    BY <1>5, TimesTail DEF TakeTransactions, TypeOK
  <2> QED BY <1>5, <2>1 DEF TakeTransactions, TypeOK
<1>6. ASSUME NEW n \in Node, HandleTransaction(n) PROVE TypeOK'
  <2>1. Tail(batch[n]) \in Seq(Elections)
    BY <1>6, TimesTail DEF HandleTransaction, TypeOK
  <2>2. batch' \in [Node -> Seq(Elections)]
    BY <1>6, <2>1 DEF HandleTransaction, TypeOK
  <2>3. PICK W : Counted(n, {}, W)
    BY <1>6, TransactionHandled
  <2>4. /\ todo' \in [Node -> Seq([vote : Vote, to : Node])]
        /\ validated_votes' \in [Node -> SUBSET Vote]
    BY <2>3, CountedType
  <2> QED BY <1>6, <2>2, <2>4 DEF HandleTransaction, TypeOK
<1>7. ASSUME NEW n \in Node, HandleVote(n) PROVE TypeOK'
  <2>1. Tail(rx_votes[n]) \in Seq(Vote) /\ Head(rx_votes[n]) \in Vote
    BY <1>7, TimesTail DEF HandleVote, TypeOK
  <2>2. rx_votes' \in [Node -> Seq(Vote)]
    BY <1>7, <2>1 DEF HandleVote, TypeOK
  <2>3. /\ todo' \in [Node -> Seq([vote : Vote, to : Node])]
        /\ validated_votes' \in [Node -> SUBSET Vote]
    <3>1. CASE UNCHANGED <<validated_votes, todo>>
      BY <3>1 DEF TypeOK
    <3>2. CASE ~UNCHANGED <<validated_votes, todo>>
      <4>1. PICK W : Counted(n, {Head(rx_votes[n])}, W)
        BY <1>7, <3>2, VoteHandled
      <4> QED BY <2>1, <4>1, CountedType
    <3> QED BY <3>1, <3>2
  <2> QED BY <1>7, <2>2, <2>3 DEF HandleVote, TypeOK
<1>8. ASSUME NEW n \in Node, Send(n) PROVE TypeOK'
  <2> DEFINE s == Head(todo[n])
  <2>1. s \in [vote : Vote, to : Node] /\ Tail(todo[n]) \in Seq([vote : Vote, to : Node])
    BY <1>8, TimesTail DEF Send, TypeOK
  <2>2. channel' = [channel EXCEPT ![n][s.to] = Append(@, s.vote)]
        /\ todo' = [todo EXCEPT ![n] = Tail(@)]
    BY <1>8 DEF Send
  <2> HIDE DEF s
  <2>3. Append(channel[n][s.to], s.vote) \in Seq(Vote)
    BY <2>1, TimesAppend DEF TypeOK
  <2>4. channel' \in [Node -> [Node -> Seq(Vote)]]
    BY <2>1, <2>2, <2>3 DEF TypeOK
  <2>5. todo' \in [Node -> Seq([vote : Vote, to : Node])]
    BY <2>1, <2>2 DEF TypeOK
  <2> QED BY <1>8, <2>4, <2>5 DEF Send, TypeOK
<1>9. ASSUME NEW n \in Node, NEW m \in Node, Write(n, m) PROVE TypeOK'
  <2>1. Head(channel[n][m]) \in Vote /\ Tail(channel[n][m]) \in Seq(Vote)
    BY <1>9, TimesTail, SMTT(30) DEF Write, TypeOK
  <2>2. Append(wire[n][m], Head(channel[n][m])) \in Seq(Vote)
    BY <2>1, TimesAppend DEF TypeOK
  <2>3. /\ channel' \in [Node -> [Node -> Seq(Vote)]]
        /\ wire' \in [Node -> [Node -> Seq(Vote)]]
    BY <1>9, <2>1, <2>2 DEF Write, TypeOK
  <2> QED BY <1>9, <2>3 DEF Write, TypeOK
<1>10. ASSUME NEW n \in Node, NEW m \in Node, Dispatch(n, m) PROVE TypeOK'
  <2>1. Head(wire[n][m]) \in Vote /\ Tail(wire[n][m]) \in Seq(Vote)
    BY <1>10, TimesTail DEF Dispatch, TypeOK
  <2>2. Append(rx_votes[m], Head(wire[n][m])) \in Seq(Vote)
    BY <2>1, TimesAppend DEF TypeOK
  <2>3. /\ rx_votes' \in [Node -> Seq(Vote)]
        /\ wire' \in [Node -> [Node -> Seq(Vote)]]
    BY <1>10, <2>1, <2>2 DEF Dispatch, TypeOK
  <2> QED BY <1>10, <2>3, ZenonT(60) DEF Dispatch, TypeOK
<1>11. ASSUME NEW n \in Node, DispatchTransactions(n) PROVE TypeOK'
  <2>1. Head(socket[n]) \in Seq(Elections) /\ Tail(socket[n]) \in Seq(Seq(Elections))
    BY <1>11, TimesTail DEF DispatchTransactions, TypeOK
  <2>2. Append(rx_transactions[n], Head(socket[n])) \in Seq(Seq(Elections))
    BY <2>1, TimesAppend DEF TypeOK
  <2> QED BY <1>11, <2>1, <2>2 DEF DispatchTransactions, TypeOK
<1>12. ASSUME UNCHANGED vars PROVE TypeOK'
  BY <1>12 DEF vars, TypeOK
<1> QED BY <1>1, <1>2, <1>3, <1>4, <1>5, <1>6, <1>7, <1>8, <1>9, <1>10, <1>11, <1>12
        DEF Next, CoreStep

\* Everything a primary, a client or a connection holds has its type, whatever
\* the batches and the committee.
THEOREM PipelineTyped == Spec => []TypeOK
BY TypeInit, TypeStep, PTL DEF Spec

LEMMA AwakeInit == Init => Awake
BY DEF Init, Awake, Reached, Joined, Quiet

LEMMA AwakeStep == ASSUME TypeOK, Awake, [Next]_vars PROVE Awake'
<1> USE DEF outside, queue, core, link
<1>a. /\ online \subseteq Node
      /\ client \in [Client -> [step : {"waiting", "ready", "done"}, reached : SUBSET Node]]
  BY DEF TypeOK
<1>b. Reached /\ Joined /\ (online = Node \/ Quiet)
  BY DEF Awake
<1>c. ASSUME online = Node, online' = Node, client' = client PROVE Awake'
  BY <1>c, <1>b DEF Awake, Reached, Joined
<1>1. ASSUME NEW c \in Client, JoinAll(c) PROVE Awake'
  <2>1. online' = online /\ client[c].reached = Node
        /\ client' = [client EXCEPT ![c].step = "ready"]
    BY <1>1 DEF JoinAll
  <2>2. online = Node
    BY <1>a, <1>b, <2>1 DEF Reached
  <2>3. \A d \in Client : client'[d].reached \subseteq Node
    BY <1>a, <2>1
  <2> QED BY <2>1, <2>2, <2>3 DEF Awake, Reached, Joined
<1>2. ASSUME NEW c \in Client, Submit(c) PROVE Awake'
  <2>1. online' = online /\ client[c].step = "ready"
        /\ client' = [client EXCEPT ![c].step = "done"]
    BY <1>2 DEF Submit
  <2>2. online = Node
    BY <1>b, <2>1 DEF Joined
  <2>3. \A d \in Client : client'[d].reached \subseteq Node
    BY <1>a, <2>1
  <2> QED BY <2>1, <2>2, <2>3 DEF Awake, Reached, Joined
<1>3. ASSUME NEW c \in Client, NEW n \in Node, Reach(c, n) PROVE Awake'
  <2>1. /\ n \in online /\ UNCHANGED <<online, socket, queue, core, link>>
        /\ client' = [client EXCEPT ![c].reached = @ \union {n}]
    BY <1>3 DEF Reach
  <2>2. Reached' /\ \A d \in Client : client'[d].step = client[d].step
    BY <1>a, <1>b, <2>1 DEF Reached
  <2>3. Joined' /\ (Quiet => Quiet')
    BY <1>b, <2>1, <2>2 DEF Joined, Quiet
  <2> QED BY <1>b, <2>1, <2>2, <2>3 DEF Awake
<1>4. ASSUME NEW n \in Node, Start(n) PROVE Awake'
  <2>1. /\ n \notin online /\ online' = online \union {n}
        /\ UNCHANGED <<client, socket, queue, core, link>>
    BY <1>4 DEF Start
  <2>2. online # Node
    BY <2>1
  <2>3. Reached'
    BY <1>b, <2>1 DEF Reached
  <2>4. Joined'
    BY <1>b, <2>1, <2>2 DEF Joined
  <2>5. Quiet'
    BY <1>b, <2>1, <2>2 DEF Quiet
  <2> QED BY <2>3, <2>4, <2>5 DEF Awake
<1>5. ASSUME NEW n \in Node,
             TakeTransactions(n) \/ HandleTransaction(n) \/ HandleVote(n) \/ Send(n)
      PROVE  Awake'
  <2>1. UNCHANGED outside
        /\ ~(rx_transactions[n] = <<>> /\ rx_votes[n] = <<>> /\ batch[n] = <<>> /\ todo[n] = <<>>)
    BY <1>5 DEF TakeTransactions, HandleTransaction, HandleVote, Send
  <2>2. online = Node
    BY <1>b, <2>1 DEF Quiet
  <2> QED BY <1>c, <2>1, <2>2
<1>6. ASSUME NEW n \in Node, NEW m \in Node, Write(n, m) \/ Dispatch(n, m) PROVE Awake'
  <2>1. UNCHANGED outside /\ ~(channel[n][m] = <<>> /\ wire[n][m] = <<>>)
    BY <1>6 DEF Write, Dispatch
  <2>2. online = Node
    BY <1>b, <2>1 DEF Quiet
  <2> QED BY <1>c, <2>1, <2>2
<1>7. ASSUME NEW n \in Node, DispatchTransactions(n) PROVE Awake'
  <2>1. n \in Client /\ socket[n] # <<>> /\ UNCHANGED <<online, client>>
    BY <1>7 DEF DispatchTransactions
  <2>2. online = Node
    BY <1>b, <2>1 DEF Quiet
  <2> QED BY <1>c, <2>1, <2>2
<1>8. ASSUME UNCHANGED vars PROVE Awake'
  BY <1>8 DEF vars, Awake, Reached, Joined, Quiet
<1> QED BY <1>1, <1>2, <1>3, <1>4, <1>5, <1>6, <1>7, <1>8 DEF Next, CoreStep

\* However slowly the primaries come up, a vote is never queued for one that
\* does not listen: Client::wait joins all its tasks before a batch is sent
\* (node/src/benchmark_client.rs), and nothing else starts a vote.
THEOREM ListenersFound == Spec => []VotesFindListeners
<1>1. Awake => VotesFindListeners
  BY DEF Awake, Quiet, VotesFindListeners
<1>2. Init => TypeOK /\ Awake
  BY TypeInit, AwakeInit
<1>3. (TypeOK /\ Awake) /\ [Next]_vars => (TypeOK /\ Awake)'
  BY TypeStep, AwakeStep
<1> QED BY <1>1, <1>2, <1>3, PTL DEF Spec
-----------------------------------------------------------------------------
LEMMA KnownInit == Init => Known
<1> SUFFICES ASSUME Init PROVE Known
  OBVIOUS
<1>1. ToSet(<<>>) = {}
  BY TimesEmpty
<1>2. \A n \in Node : validated_votes[n] = {} /\ rx_votes[n] = <<>> /\ todo[n] = <<>>
  BY DEF Init
<1>3. \A n, m \in Node : channel[n][m] = <<>> /\ wire[n][m] = <<>>
  BY DEF Init
<1>4. \A n \in Node : \A v \in validated_votes[n] \union ToSet(rx_votes[n]) : v \in Own(v.signer)
  BY <1>1, <1>2
<1>5. \A n \in Node : \A s \in ToSet(todo[n]) : s.vote \in Own(n)
  BY <1>1, <1>2
<1>6. \A n, m \in Node : ToSet(channel[n][m]) \union ToSet(wire[n][m]) \subseteq Own(n)
  BY <1>1, <1>3
<1> QED BY <1>4, <1>5, <1>6 DEF Known

\* What is known stays known as long as no vote is uncounted.
LEMMA OwnGrows ==
    ASSUME \A n \in Node : validated_votes[n] \subseteq validated_votes'[n]
    PROVE  \A n \in Node : Own(n) \subseteq Own(n)'
BY DEF Own

\* What Known says of the votes a core has, of its sends, of its connections.
KnownCounted(n) == \A v \in validated_votes[n] : v \in Own(v.signer)
KnownQueued(n)  == \A v \in ToSet(rx_votes[n]) : v \in Own(v.signer)
KnownToSend(n)  == \A s \in ToSet(todo[n]) : s.vote \in Own(n)
KnownOnTheWay(n, m) == ToSet(channel[n][m]) \subseteq Own(n) /\ ToSet(wire[n][m]) \subseteq Own(n)

LEMMA KnownParts ==
    Known <=> /\ \A n \in Node : KnownCounted(n) /\ KnownQueued(n) /\ KnownToSend(n)
              /\ \A n, m \in Node : KnownOnTheWay(n, m)
BY DEF Known, KnownCounted, KnownQueued, KnownToSend, KnownOnTheWay

\* The votes of the sends W stands for are those of W.
LEMMA SentElements ==
    ASSUME NEW n, NEW W, NEW s, Sent(n, W, s)
    PROVE  \A x \in ToSet(s) : x.vote \in W
<1>1. ASSUME NEW x \in ToSet(s) PROVE x.vote \in W
  <2>1. s \in Seq(SendTo) /\ x \in SendTo
    BY LenProperties, ElementOfSeq DEF Sent, ToSet
  <2>2. x = [vote |-> x.vote, to |-> x.to] /\ x.to \in Node
    BY <2>1 DEF SendTo
  <2>3. Times([vote |-> x.vote, to |-> x.to], s) # 0
    BY <2>1, <2>2, TimesElement
  <2> QED BY <2>2, <2>3 DEF Sent
<1> QED BY <1>1

LEMMA KnownCast ==
    ASSUME TypeOK, Known, NEW n \in Node, NEW R \in SUBSET Vote, NEW W, Counted(n, R, W),
           \A v \in R : v \in Own(v.signer),
           UNCHANGED <<channel, wire>>,
           \A k \in Node : ToSet(rx_votes'[k]) \subseteq ToSet(rx_votes[k])
    PROVE  Known'
<1>p. /\ \A k \in Node : KnownCounted(k) /\ KnownQueued(k) /\ KnownToSend(k)
      /\ \A k, m \in Node : KnownOnTheWay(k, m)
  BY KnownParts
<1>q. Known' <=> /\ \A k \in Node : KnownCounted(k)' /\ KnownQueued(k)' /\ KnownToSend(k)'
                 /\ \A k, m \in Node : KnownOnTheWay(k, m)'
  BY DEF Known, KnownCounted, KnownQueued, KnownToSend, KnownOnTheWay
<1>t. /\ rx_votes \in [Node -> Seq(Vote)] /\ validated_votes \in [Node -> SUBSET Vote]
      /\ todo \in [Node -> Seq(SendTo)]
  BY DEF TypeOK, SendTo
<1>v. \A k \in Node : validated_votes'[k] =
                        IF k = n THEN validated_votes[n] \union R \union W ELSE validated_votes[k]
  BY <1>t DEF Counted
<1>1. \A k \in Node : Own(k) \subseteq Own(k)'
  BY <1>v, OwnGrows
<1>2. W \subseteq Own(n)' /\ \A w \in W : w.signer = n
  BY <1>v DEF Own, Counted, Sent
<1>3. \A v \in Vote : v \in Own(v.signer) => v \in Own(v.signer)'
  BY <1>1 DEF Vote
<1>4. ASSUME NEW k \in Node, NEW v \in validated_votes'[k] PROVE v \in Own(v.signer)'
  <2>1. CASE v \in validated_votes[k]
    BY <1>p, <1>t, <1>3, <2>1 DEF KnownCounted
  <2>2. CASE v \in R
    BY <1>3, <2>2
  <2>3. CASE v \in W
    BY <1>2, <2>3
  <2> QED BY <1>v, <1>4, <2>1, <2>2, <2>3
<1>5. ASSUME NEW k \in Node, NEW v \in ToSet(rx_votes'[k]) PROVE v \in Own(v.signer)'
  <2>1. v \in ToSet(rx_votes[k]) /\ rx_votes[k] \in Seq(Vote)
    BY <1>t, <1>5
  <2>2. v \in Vote
    BY <2>1, LenProperties, ElementOfSeq DEF ToSet
  <2> QED BY <1>p, <1>3, <2>1, <2>2 DEF KnownQueued
<1>6. ASSUME NEW k \in Node PROVE KnownToSend(k)'
  <2>1. CASE k = n
    <3>1. Sent(n, W, todo'[n])
      BY DEF Counted
    <3>2. \A x \in ToSet(todo'[n]) : x.vote \in W
      BY <3>1, SentElements
    <3> QED BY <1>2, <2>1, <3>2 DEF KnownToSend
  <2>2. CASE k # n
    <3>1. todo'[k] = todo[k]
      BY <1>t, <2>2 DEF Counted
    <3> QED BY <1>p, <1>1, <3>1 DEF KnownToSend
  <2> QED BY <2>1, <2>2
<1>7. \A k, m \in Node : KnownOnTheWay(k, m)'
  BY <1>p, <1>1 DEF KnownOnTheWay
<1> QED BY <1>q, <1>4, <1>5, <1>6, <1>7 DEF KnownCounted, KnownQueued

LEMMA KnownStep == ASSUME TypeOK, Known, [Next]_vars PROVE Known'
<1> USE DEF outside, queue, core, link
<1>p. /\ \A n \in Node : KnownCounted(n) /\ KnownQueued(n) /\ KnownToSend(n)
      /\ \A n, m \in Node : KnownOnTheWay(n, m)
  BY KnownParts
<1>q. Known' <=> /\ \A n \in Node : KnownCounted(n)' /\ KnownQueued(n)' /\ KnownToSend(n)'
                 /\ \A n, m \in Node : KnownOnTheWay(n, m)'
  BY DEF Known, KnownCounted, KnownQueued, KnownToSend, KnownOnTheWay
<1>t. /\ rx_votes \in [Node -> Seq(Vote)] /\ validated_votes \in [Node -> SUBSET Vote]
      /\ todo \in [Node -> Seq(SendTo)]
      /\ channel \in [Node -> [Node -> Seq(Vote)]] /\ wire \in [Node -> [Node -> Seq(Vote)]]
  BY DEF TypeOK, SendTo
<1>s. ASSUME UNCHANGED validated_votes
      PROVE  /\ \A n \in Node : Own(n)' = Own(n) /\ KnownCounted(n)'
             /\ \A n \in Node : rx_votes'[n] = rx_votes[n] => KnownQueued(n)'
             /\ \A n \in Node : todo'[n] = todo[n] => KnownToSend(n)'
             /\ \A n, m \in Node : channel'[n][m] = channel[n][m] /\ wire'[n][m] = wire[n][m]
                                   => KnownOnTheWay(n, m)'
  <2>1. \A S : Own(S)' = Own(S)
    BY <1>s DEF Own
  <2> QED BY <1>p, <1>s, <2>1 DEF KnownCounted, KnownQueued, KnownToSend, KnownOnTheWay
<1>1. ASSUME UNCHANGED <<rx_votes, validated_votes, todo, channel, wire>> PROVE Known'
  BY <1>1, <1>q, <1>s
<1>2. ASSUME NEW n \in Node, HandleTransaction(n) PROVE Known'
  <2>1. PICK W : Counted(n, {}, W)
    BY <1>2, TransactionHandled
  <2>2. UNCHANGED <<rx_votes, channel, wire>>
    BY <1>2 DEF HandleTransaction
  <2> QED BY <2>1, <2>2, KnownCast
<1>3. ASSUME NEW n \in Node, HandleVote(n) PROVE Known'
  <2> DEFINE v == Head(rx_votes[n])
  <2>1. /\ UNCHANGED <<channel, wire>> /\ rx_votes' = [rx_votes EXCEPT ![n] = Tail(@)]
        /\ rx_votes[n] \in Seq(Vote) /\ rx_votes[n] # <<>>
    BY <1>3, <1>t DEF HandleVote
  <2>2. v \in ToSet(rx_votes[n]) /\ v \in Vote /\ ToSet(Tail(rx_votes[n])) \subseteq ToSet(rx_votes[n])
    BY <2>1, TimesTail
  <2>3. \A k \in Node : ToSet(rx_votes'[k]) \subseteq ToSet(rx_votes[k])
    BY <1>t, <2>1, <2>2
  <2>4. v \in Own(v.signer)
    BY <1>p, <2>2 DEF KnownQueued
  <2>5. CASE UNCHANGED <<validated_votes, todo>>
    <3>1. \A k \in Node : KnownQueued(k)'
      <4>1. \A S : Own(S)' = Own(S)
        BY <2>5 DEF Own
      <4> QED BY <1>p, <2>3, <4>1 DEF KnownQueued
    <3> QED BY <1>q, <1>s, <2>1, <2>5, <3>1
  <2>6. CASE ~UNCHANGED <<validated_votes, todo>>
    <3>1. PICK W : Counted(n, {v}, W)
      BY <1>3, <2>6, VoteHandled
    <3> HIDE DEF v
    <3> QED BY <2>1, <2>2, <2>3, <2>4, <3>1, KnownCast
  <2> QED BY <2>5, <2>6
<1>4. ASSUME NEW n \in Node, Send(n) PROVE Known'
  <2>1. /\ UNCHANGED <<rx_votes, validated_votes, wire>>
        /\ todo' = [todo EXCEPT ![n] = Tail(@)]
        /\ todo[n] # <<>> /\ todo[n] \in Seq(SendTo)
    BY <1>4, <1>t DEF Send
  <2>2. PICK x \in SendTo : x = Head(todo[n]) /\ x \in ToSet(todo[n])
    BY <2>1, TimesTail
  <2> DEFINE v == x.vote
             m == x.to
  <2>3. channel' = [channel EXCEPT ![n][m] = Append(@, v)]
    BY <1>4, <2>2 DEF Send
  <2>4. v \in Vote /\ m \in Node /\ ToSet(Tail(todo[n])) \subseteq ToSet(todo[n])
    BY <2>1, TimesTail DEF SendTo
  <2>5. v \in Own(n)
    BY <1>p, <2>2 DEF KnownToSend
  <2> HIDE DEF v, m
  <2>6. ToSet(Append(channel[n][m], v)) = ToSet(channel[n][m]) \union {v}
    BY <1>t, <2>4, TimesAppend
  <2>7. \A k \in Node : KnownToSend(k)'
    <3>1. KnownToSend(n)'
      BY <1>p, <1>s, <1>t, <2>1, <2>4 DEF KnownToSend
    <3> QED BY <1>s, <1>t, <2>1, <3>1
  <2>8. \A k, j \in Node : KnownOnTheWay(k, j)'
    <3>1. channel'[n][m] = Append(channel[n][m], v)
      BY <1>t, <2>3, <2>4
    <3>2. KnownOnTheWay(n, m)'
      BY <1>p, <1>s, <2>1, <2>4, <2>5, <2>6, <3>1 DEF KnownOnTheWay
    <3>3. \A k, j \in Node : k # n \/ j # m => channel'[k][j] = channel[k][j]
      BY <1>t, <2>3
    <3> QED BY <1>s, <2>1, <3>2, <3>3
  <2> QED BY <1>q, <1>s, <2>1, <2>7, <2>8
<1>5. ASSUME NEW n \in Node, NEW m \in Node, Write(n, m) PROVE Known'
  <2>1. PICK v : v = Head(channel[n][m])
    OBVIOUS
  <2>2. /\ UNCHANGED <<rx_votes, validated_votes, todo>>
        /\ channel' = [channel EXCEPT ![n][m] = Tail(@)]
        /\ wire' = [wire EXCEPT ![n][m] = Append(@, v)]
        /\ channel[n][m] # <<>> /\ channel[n][m] \in Seq(Vote) /\ wire[n][m] \in Seq(Vote)
    BY <1>5, <1>t, <2>1 DEF Write
  <2>3. /\ v \in Vote /\ v \in ToSet(channel[n][m])
        /\ ToSet(Tail(channel[n][m])) \subseteq ToSet(channel[n][m])
    BY <2>1, <2>2, TimesTail
  <2>4. ToSet(Append(wire[n][m], v)) = ToSet(wire[n][m]) \union {v}
    BY <2>2, <2>3, TimesAppend
  <2>5. channel'[n][m] = Tail(channel[n][m]) /\ wire'[n][m] = Append(wire[n][m], v)
    BY <1>t, <2>2
  <2>6. KnownOnTheWay(n, m)'
    BY <1>p, <1>s, <2>2, <2>3, <2>4, <2>5 DEF KnownOnTheWay
  <2>7. \A k, j \in Node : k # n \/ j # m =>
           channel'[k][j] = channel[k][j] /\ wire'[k][j] = wire[k][j]
    BY <1>t, <2>2
  <2>8. \A k, j \in Node : KnownOnTheWay(k, j)'
    BY <1>s, <2>2, <2>6, <2>7
  <2> QED BY <1>q, <1>s, <2>2, <2>8
<1>6. ASSUME NEW n \in Node, NEW m \in Node, Dispatch(n, m) PROVE Known'
  <2> DEFINE v == Head(wire[n][m])
  <2>1. /\ UNCHANGED <<channel, validated_votes, todo>>
        /\ wire' = [wire EXCEPT ![n][m] = Tail(@)]
        /\ rx_votes' = [rx_votes EXCEPT ![m] = Append(@, v)]
        /\ wire[n][m] # <<>> /\ wire[n][m] \in Seq(Vote) /\ rx_votes[m] \in Seq(Vote)
    BY <1>6, <1>t DEF Dispatch
  <2>2. v \in Vote /\ v \in ToSet(wire[n][m]) /\ ToSet(Tail(wire[n][m])) \subseteq ToSet(wire[n][m])
    BY <2>1, TimesTail
  <2> HIDE DEF v
  <2>3. ToSet(Append(rx_votes[m], v)) = ToSet(rx_votes[m]) \union {v}
    BY <2>1, <2>2, TimesAppend
  <2>4. v \in Own(n) /\ v.signer = n
    BY <1>p, <2>2 DEF KnownOnTheWay, Own
  <2>5. KnownOnTheWay(n, m)'
    BY <1>p, <1>s, <1>t, <2>1, <2>2 DEF KnownOnTheWay
  <2>6. \A k, j \in Node : KnownOnTheWay(k, j)'
    BY <1>s, <1>t, <2>1, <2>5
  <2>7. KnownQueued(m)'
    <3>1. \A S : Own(S)' = Own(S)
      BY <2>1 DEF Own
    <3> QED BY <1>p, <1>t, <2>1, <2>3, <2>4, <3>1 DEF KnownQueued
  <2>8. \A k \in Node : KnownQueued(k)'
    BY <1>s, <1>t, <2>1, <2>7
  <2> QED BY <1>q, <1>s, <2>1, <2>6, <2>8
<1>7. ASSUME NEW c \in Client, JoinAll(c) \/ Submit(c) \/ \E n \in Node : Reach(c, n) PROVE Known'
  BY <1>1, <1>7 DEF JoinAll, Submit, Reach
<1>8. ASSUME NEW n \in Node, Start(n) \/ TakeTransactions(n) \/ DispatchTransactions(n) PROVE Known'
  BY <1>1, <1>8 DEF Start, TakeTransactions, DispatchTransactions
<1>9. ASSUME UNCHANGED vars PROVE Known'
  BY <1>1, <1>9 DEF vars
<1> QED BY <1>2, <1>3, <1>4, <1>5, <1>6, <1>7, <1>8, <1>9 DEF Next, CoreStep
-----------------------------------------------------------------------------
LEMMA SeqTypes ==
    ASSUME TypeOK, NEW n \in Node, NEW m \in Node
    PROVE  /\ todo[n] \in Seq([vote : Vote, to : Node]) /\ channel[n][m] \in Seq(Vote)
           /\ wire[n][m] \in Seq(Vote) /\ rx_votes[m] \in Seq(Vote)
<1>1. /\ rx_votes \in [Node -> Seq(Vote)] /\ todo \in [Node -> Seq([vote : Vote, to : Node])]
      /\ channel \in [Node -> [Node -> Seq(Vote)]] /\ wire \in [Node -> [Node -> Seq(Vote)]]
  BY DEF TypeOK
<1> QED BY <1>1

LEMMA CopiesType ==
    ASSUME TypeOK, NEW n \in Node, NEW m \in Node, NEW v
    PROVE  /\ Times([vote |-> v, to |-> m], todo[n]) \in Nat
           /\ Times(v, channel[n][m]) \in Nat
           /\ Times(v, wire[n][m]) \in Nat
           /\ Times(v, rx_votes[m]) \in Nat
           /\ Copies(n, m, v) \in Nat
           /\ Seen(n, m, v) \in {0, 1}
<1>1. /\ todo[n] \in Seq([vote : Vote, to : Node]) /\ channel[n][m] \in Seq(Vote)
      /\ wire[n][m] \in Seq(Vote) /\ rx_votes[m] \in Seq(Vote)
  BY SeqTypes
<1>2. /\ Times([vote |-> v, to |-> m], todo[n]) \in Nat
      /\ Times(v, channel[n][m]) \in Nat
      /\ Times(v, wire[n][m]) \in Nat
      /\ Times(v, rx_votes[m]) \in Nat
  BY <1>1, TimesType
<1>3. Copies(n, m, v) \in Nat
  BY <1>2 DEF Copies
<1>4. Seen(n, m, v) \in {0, 1}
  BY DEF Seen
<1> QED BY <1>2, <1>3, <1>4

\* Of a vote its signer has not counted there is no copy.
LEMMA NoCopies ==
    ASSUME TypeOK, Known, NEW n \in Node, NEW m \in Node, NEW v, v.signer = n, v \notin Own(n)
    PROVE  Copies(n, m, v) = 0 /\ Times(v, rx_votes[m]) = 0 /\ v \notin validated_votes[m]
<1>1. /\ todo[n] \in Seq([vote : Vote, to : Node]) /\ channel[n][m] \in Seq(Vote)
      /\ wire[n][m] \in Seq(Vote) /\ rx_votes[m] \in Seq(Vote)
  BY SeqTypes
<1>2. /\ v \notin ToSet(rx_votes[m]) /\ v \notin validated_votes[m]
      /\ v \notin ToSet(channel[n][m]) /\ v \notin ToSet(wire[n][m])
  BY DEF Known
<1>3. [vote |-> v, to |-> m] \notin ToSet(todo[n])
  BY DEF Known
<1>4. /\ Times([vote |-> v, to |-> m], todo[n]) = 0
      /\ Times(v, channel[n][m]) = 0 /\ Times(v, wire[n][m]) = 0 /\ Times(v, rx_votes[m]) = 0
  BY <1>1, <1>2, <1>3, TimesElement
<1> QED BY <1>2, <1>4 DEF Copies

\* Nothing is counted, and no vote of n for m is lost or doubled.
LEMMA UnderWayMoved ==
    ASSUME VotesUnderWay, UNCHANGED validated_votes,
           \A n, m \in Node : \A v \in Own(n) : Copies(n, m, v)' = Copies(n, m, v)
    PROVE  VotesUnderWay'
<1>1. \A S : Own(S)' = Own(S)
  BY DEF Own
<1>2. \A n, m, v : Seen(n, m, v)' = Seen(n, m, v)
  BY DEF Seen
<1>3. \A n, m \in Node : \A v \in Own(n) : UnderWay(n, m, v)'
  BY <1>1, <1>2 DEF VotesUnderWay, UnderWay
<1> QED BY <1>1, <1>3 DEF VotesUnderWay

\* The core of n counts the votes R, at most one and not its own, that left its
\* queue, and casts the votes W.
LEMMA UnderWayCast ==
    ASSUME TypeOK, TypeOK', Known, VotesUnderWay, NEW n \in Node, todo[n] = <<>>,
           NEW R \in SUBSET Vote, NEW W, Counted(n, R, W),
           \A v \in R : v \in Own(v.signer) /\ v \notin validated_votes[n],
           UNCHANGED <<channel, wire>>,
           \A k \in Node : \A v : Times(v, rx_votes[k]) =
               Times(v, rx_votes'[k]) + (IF k = n /\ v \in R THEN 1 ELSE 0)
    PROVE  VotesUnderWay'
<1>t. validated_votes \in [Node -> SUBSET Vote] /\ todo \in [Node -> Seq(SendTo)]
  BY DEF TypeOK, SendTo
<1>v. \A k \in Node : validated_votes'[k] =
                        IF k = n THEN validated_votes[n] \union R \union W ELSE validated_votes[k]
  BY <1>t DEF Counted
<1>d. \A k \in Node : k # n => todo'[k] = todo[k]
  BY <1>t DEF Counted
<1>w. \A v \in W : v.signer = n /\ v \notin validated_votes[n] /\ v \notin R
  BY DEF Counted, Sent
<1>r. \A v \in R : v.signer # n
  BY DEF Own
<1>s. \A v : \A m \in Node : /\ Times([vote |-> v, to |-> m], todo[n]) = 0
                            /\ Times([vote |-> v, to |-> m], todo'[n]) = IF v \in W THEN 1 ELSE 0
  BY TimesEmpty DEF Counted, Sent
<1>n. ASSUME NEW m \in Node, NEW v PROVE Times(v, rx_votes'[m]) \in Nat
  <2>1. rx_votes'[m] \in Seq(Vote)
    BY DEF TypeOK
  <2> QED BY <2>1, TimesType
<1>1. ASSUME NEW k \in Node, NEW m \in Node, NEW v \in Own(k)' PROVE UnderWay(k, m, v)'
  <2>1. v.signer = k /\ v \in validated_votes'[k]
    BY <1>1 DEF Own
  <2>2. CASE v \in W
    <3>1. k = n /\ v \notin Own(n)
      BY <1>w, <2>1, <2>2 DEF Own
    <3>2. Copies(n, m, v) = 0 /\ Times(v, rx_votes[m]) = 0 /\ v \notin validated_votes[m]
      BY <2>1, <3>1, NoCopies
    <3>3. Times(v, channel[n][m]) = 0 /\ Times(v, wire[n][m]) = 0
      <4>1. /\ Times([vote |-> v, to |-> m], todo[n]) \in Nat
            /\ Times(v, channel[n][m]) \in Nat /\ Times(v, wire[n][m]) \in Nat
        BY CopiesType
      <4> QED BY <3>2, <4>1 DEF Copies
    <3>4. Times(v, rx_votes'[m]) = 0
      <4>1. Times(v, rx_votes'[m]) \in Nat
        BY <1>n
      <4>2. v \notin R
        BY <1>w, <2>2
      <4> QED BY <3>2, <4>1, <4>2
    <3>5. Copies(n, m, v)' = 1
      BY <1>s, <2>2, <3>3, <3>4 DEF Copies
    <3>6. Seen(n, m, v)' = 0
      BY <1>v, <3>2 DEF Seen
    <3> QED BY <3>1, <3>5, <3>6 DEF UnderWay
  <2>3. CASE v \notin W
    <3>1. v \in Own(k)
      BY <1>r, <1>v, <2>1, <2>3 DEF Own
    <3>2. UnderWay(k, m, v)
      BY <3>1 DEF VotesUnderWay
    <3>3. Times([vote |-> v, to |-> m], todo'[k]) = Times([vote |-> v, to |-> m], todo[k])
      BY <1>d, <1>s, <2>3
    <3>4. Copies(k, m, v)' \in Int
          /\ Copies(k, m, v) = Copies(k, m, v)' + (IF m = n /\ v \in R THEN 1 ELSE 0)
      <4>1. Times(v, rx_votes'[m]) \in Nat
        BY <1>n
      <4>2. Times(v, rx_votes[m]) = Times(v, rx_votes'[m]) + (IF m = n /\ v \in R THEN 1 ELSE 0)
        OBVIOUS
      <4>3. /\ Times([vote |-> v, to |-> m], todo[k]) \in Nat
            /\ Times(v, channel[k][m]) \in Nat /\ Times(v, wire[k][m]) \in Nat
        BY CopiesType
      <4>4. Copies(k, m, v)' = Times([vote |-> v, to |-> m], todo[k]) + Times(v, channel[k][m])
                               + Times(v, wire[k][m]) + Times(v, rx_votes'[m])
        BY <3>3 DEF Copies
      <4> QED BY <4>1, <4>2, <4>3, <4>4 DEF Copies
    <3>5. Seen(k, m, v)' = Seen(k, m, v) + (IF m = n /\ v \in R THEN 1 ELSE 0)
      <4>1. CASE m = n /\ v \in R
        BY <1>r, <1>v, <2>1, <4>1 DEF Seen
      <4>2. CASE ~(m = n /\ v \in R)
        BY <1>v, <2>3, <4>2 DEF Seen
      <4> QED BY <4>1, <4>2
    <3>6. Copies(k, m, v) \in Nat /\ Seen(k, m, v) \in {0, 1}
      BY CopiesType
    <3>7. Copies(k, m, v)' + Seen(k, m, v)' = Copies(k, m, v) + Seen(k, m, v)
      BY <3>4, <3>5, <3>6
    <3> QED BY <3>2, <3>7 DEF UnderWay
  <2> QED BY <2>2, <2>3
<1> QED BY <1>1 DEF VotesUnderWay

LEMMA UnderWayStep ==
    ASSUME TypeOK, TypeOK', Known, VotesUnderWay, [Next]_vars
    PROVE  VotesUnderWay'
<1> USE DEF outside, queue, core, link
<1>t. /\ rx_votes \in [Node -> Seq(Vote)] /\ todo \in [Node -> Seq(SendTo)]
      /\ channel \in [Node -> [Node -> Seq(Vote)]] /\ wire \in [Node -> [Node -> Seq(Vote)]]
  BY DEF TypeOK, SendTo
<1>1. ASSUME UNCHANGED <<rx_votes, validated_votes, todo, channel, wire>> PROVE VotesUnderWay'
  BY <1>1, UnderWayMoved DEF Copies
<1>2. ASSUME NEW n \in Node, HandleTransaction(n) PROVE VotesUnderWay'
  <2>0. PICK R \in SUBSET Vote : R = {}
    OBVIOUS
  <2>1. PICK W : Counted(n, R, W)
    BY <1>2, <2>0, TransactionHandled
  <2>2. UNCHANGED <<rx_votes, channel, wire>> /\ todo[n] = <<>>
    BY <1>2 DEF HandleTransaction
  <2>3. \A k \in Node : \A v : Times(v, rx_votes[k]) =
           Times(v, rx_votes'[k]) + (IF k = n /\ v \in R THEN 1 ELSE 0)
    <3>1. \A k \in Node : \A v : Times(v, rx_votes[k]) \in Nat
      BY SeqTypes, TimesType
    <3> QED BY <2>0, <2>2, <3>1
  <2> QED BY <2>0, <2>1, <2>2, <2>3, UnderWayCast
<1>3. ASSUME NEW n \in Node, HandleVote(n) PROVE VotesUnderWay'
  <2>1. PICK v : v = Head(rx_votes[n])
    OBVIOUS
  <2>2. /\ UNCHANGED <<channel, wire>> /\ rx_votes' = [rx_votes EXCEPT ![n] = Tail(@)]
        /\ rx_votes[n] \in Seq(Vote) /\ rx_votes[n] # <<>> /\ todo[n] = <<>>
    BY <1>3, <1>t DEF HandleVote, Idle
  <2>3. v \in Vote /\ v \in ToSet(rx_votes[n]) /\ v \in Own(v.signer)
    <3>1. v \in Vote /\ v \in ToSet(rx_votes[n])
      BY <2>1, <2>2, TimesTail
    <3> QED BY <3>1 DEF Known
  <2>4. \A u : Times(u, rx_votes[n]) = Times(u, Tail(rx_votes[n])) + (IF u = v THEN 1 ELSE 0)
    BY <2>1, <2>2, TimesTail
  <2>5. \A k \in Node : \A u : /\ Times(u, rx_votes[k]) \in Nat /\ Times(u, rx_votes'[k]) \in Nat
    <3>1. \A k \in Node : rx_votes'[k] \in Seq(Vote)
      BY DEF TypeOK
    <3> QED BY <3>1, SeqTypes, TimesType
  <2>6. \A k \in Node : \A u : Times(u, rx_votes[k]) =
           Times(u, rx_votes'[k]) + (IF k = n /\ u \in {v} THEN 1 ELSE 0)
    BY <1>t, <2>2, <2>4, <2>5, SMTT(30)
  <2>7. CASE v \notin validated_votes[n] /\ \E W : Counted(n, {v}, W)
    <3>1. PICK W : Counted(n, {v}, W)
      BY <2>7
    <3> QED BY <2>2, <2>3, <2>6, <2>7, <3>1, UnderWayCast
  <2>8. CASE /\ v \in validated_votes[n] \/ v.round # 0
             /\ UNCHANGED <<validated_votes, todo>>
    <3>1. ASSUME NEW k \in Node, NEW m \in Node, NEW u \in Own(k) PROVE UnderWay(k, m, u)'
      <4>1. UnderWay(k, m, u)
        BY DEF VotesUnderWay
      <4>2. Seen(k, m, u)' = Seen(k, m, u) /\ Seen(k, m, u) \in {0, 1}
        BY <2>8 DEF Seen
      <4>3. /\ Times([vote |-> u, to |-> m], todo[k]) \in Nat
            /\ Times(u, channel[k][m]) \in Nat /\ Times(u, wire[k][m]) \in Nat
            /\ Copies(k, m, u) \in Nat
        BY CopiesType
      <4>4. Copies(k, m, u)' = Times([vote |-> u, to |-> m], todo[k]) + Times(u, channel[k][m])
                               + Times(u, wire[k][m]) + Times(u, rx_votes'[m])
        BY <2>2, <2>8 DEF Copies
      <4>5. CASE ~(m = n /\ u = v)
        <5>1. Times(u, rx_votes'[m]) = Times(u, rx_votes[m])
          BY <2>5, <2>6, <4>5
        <5>2. Copies(k, m, u)' = Copies(k, m, u)
          BY <4>4, <5>1 DEF Copies
        <5> QED BY <4>1, <4>2, <5>2 DEF UnderWay
      <4>6. CASE m = n /\ u = v
        <5>1. Times(u, rx_votes[m]) = Times(u, rx_votes'[m]) + 1
              /\ Times(u, rx_votes'[m]) \in Nat
          BY <2>5, <2>6, <4>6
        <5>2. Copies(k, m, u) = Copies(k, m, u)' + 1 /\ Copies(k, m, u)' \in Nat
          BY <4>3, <4>4, <5>1 DEF Copies
        <5>3. k = m \/ u.round # 0
          <6>1. CASE v \in validated_votes[n] /\ k # m
            <7>1. Seen(k, m, u) = 1
              BY <4>6, <6>1 DEF Seen
            <7> QED BY <4>1, <5>2, <7>1 DEF UnderWay
          <6> QED BY <2>8, <4>6, <6>1
        <5> QED BY <4>1, <4>2, <5>2, <5>3 DEF UnderWay
      <4> QED BY <4>5, <4>6
    <3>2. \A S : Own(S)' = Own(S)
      BY <2>8 DEF Own
    <3> QED BY <3>1, <3>2 DEF VotesUnderWay
  <2>9. \/ /\ v \in validated_votes[n] \/ v.round # 0
           /\ UNCHANGED <<validated_votes, todo>>
        \/ v \notin validated_votes[n] /\ \E W : Counted(n, {v}, W)
    BY <1>3, <2>1, VoteHandled
  <2> QED BY <2>7, <2>8, <2>9
<1>4. ASSUME NEW n \in Node, Send(n) PROVE VotesUnderWay'
  <2>1. /\ UNCHANGED <<rx_votes, validated_votes, wire>>
        /\ todo' = [todo EXCEPT ![n] = Tail(@)]
        /\ todo[n] # <<>> /\ todo[n] \in Seq(SendTo)
    BY <1>4, <1>t DEF Send
  <2>2. PICK x \in SendTo : x = Head(todo[n])
    BY <2>1, TimesTail
  <2> DEFINE v == x.vote
             m == x.to
  <2>3. channel' = [channel EXCEPT ![n][m] = Append(@, v)]
    BY <1>4, <2>2 DEF Send
  <2>4. v \in Vote /\ m \in Node /\ x = [vote |-> v, to |-> m]
    BY DEF SendTo
  <2> HIDE DEF v, m
  <2>5. \A u : Times(u, todo[n]) = Times(u, Tail(todo[n])) + (IF u = x THEN 1 ELSE 0)
    BY <2>1, <2>2, TimesTail
  <2>6. \A u : Times(u, Append(channel[n][m], v)) = Times(u, channel[n][m]) + (IF u = v THEN 1 ELSE 0)
    BY <2>4, SeqTypes, TimesAppend
  <2>7. ASSUME NEW k \in Node, NEW j \in Node, NEW u \in Own(k)
        PROVE  Copies(k, j, u)' = Copies(k, j, u)
    <3>1. /\ Times([vote |-> u, to |-> j], todo[k]) \in Nat
          /\ Times(u, channel[k][j]) \in Nat /\ Times(u, wire[k][j]) \in Nat
          /\ Times(u, rx_votes[j]) \in Nat
      BY CopiesType
    <3>2. CASE k # n
      BY <1>t, <2>1, <2>3, <3>2 DEF Copies
    <3>3. CASE k = n /\ j = m /\ u = v
      <4>1. todo'[n] = Tail(todo[n]) /\ channel'[n][m] = Append(channel[n][m], v)
        BY <1>t, <2>1, <2>3, <2>4
      <4>2. Times([vote |-> u, to |-> j], todo[k]) = Times([vote |-> u, to |-> j], todo'[k]) + 1
        BY <2>4, <2>5, <3>3, <4>1
      <4>3. Times(u, channel'[k][j]) = Times(u, channel[k][j]) + 1
        BY <2>6, <3>3, <4>1
      <4>4. Times([vote |-> u, to |-> j], todo'[k]) \in Nat
        <5>1. todo'[k] \in Seq([vote : Vote, to : Node])
          BY DEF TypeOK
        <5> QED BY <5>1, TimesType
      <4> QED BY <2>1, <3>1, <4>2, <4>3, <4>4 DEF Copies
    <3>4. CASE k = n /\ ~(j = m /\ u = v)
      <4>1. todo'[n] = Tail(todo[n])
        BY <1>t, <2>1
      <4>2. Times(u, channel'[k][j]) = Times(u, channel[k][j])
        <5>1. CASE j = m
          <6>1. channel'[n][m] = Append(channel[n][m], v)
            BY <1>t, <2>3, <2>4
          <6> QED BY <2>6, <3>1, <3>4, <5>1, <6>1
        <5>2. CASE j # m
          BY <1>t, <2>3, <3>4, <5>2
        <5> QED BY <5>1, <5>2
      <4>3. Times([vote |-> u, to |-> j], todo'[k]) = Times([vote |-> u, to |-> j], todo[k])
        <5>1. [vote |-> u, to |-> j] # x
          BY <2>4, <3>4
        <5>2. Times([vote |-> u, to |-> j], todo'[k]) \in Nat
          <6>1. todo'[k] \in Seq([vote : Vote, to : Node])
            BY DEF TypeOK
          <6> QED BY <6>1, TimesType
        <5> QED BY <2>5, <3>4, <4>1, <5>1, <5>2
      <4> QED BY <2>1, <4>2, <4>3 DEF Copies
    <3> QED BY <3>2, <3>3, <3>4
  <2> QED BY <2>1, <2>7, UnderWayMoved
<1>5. ASSUME NEW n \in Node, NEW m \in Node, Write(n, m) PROVE VotesUnderWay'
  <2>1. PICK v : v = Head(channel[n][m])
    OBVIOUS
  <2>2. /\ UNCHANGED <<rx_votes, validated_votes, todo>>
        /\ channel' = [channel EXCEPT ![n][m] = Tail(@)]
        /\ wire' = [wire EXCEPT ![n][m] = Append(@, v)]
        /\ channel[n][m] # <<>> /\ channel[n][m] \in Seq(Vote) /\ wire[n][m] \in Seq(Vote)
    BY <1>5, <1>t, <2>1 DEF Write
  <2>3. v \in Vote
        /\ \A u : Times(u, channel[n][m]) = Times(u, Tail(channel[n][m])) + (IF u = v THEN 1 ELSE 0)
    BY <2>1, <2>2, TimesTail
  <2>4. \A u : Times(u, Append(wire[n][m], v)) = Times(u, wire[n][m]) + (IF u = v THEN 1 ELSE 0)
    BY <2>2, <2>3, TimesAppend
  <2>5. channel'[n][m] = Tail(channel[n][m]) /\ wire'[n][m] = Append(wire[n][m], v)
    BY <1>t, <2>2
  <2>6. \A u : Times(u, channel'[n][m]) \in Nat
    <3>1. Tail(channel[n][m]) \in Seq(Vote)
      BY <2>2, TimesTail
    <3> QED BY <2>5, <3>1, TimesType
  <2>7. ASSUME NEW k \in Node, NEW j \in Node, NEW u \in Own(k)
        PROVE  Copies(k, j, u)' = Copies(k, j, u)
    <3>1. /\ Times([vote |-> u, to |-> j], todo[k]) \in Nat
          /\ Times(u, channel[k][j]) \in Nat /\ Times(u, wire[k][j]) \in Nat
          /\ Times(u, rx_votes[j]) \in Nat
      BY CopiesType
    <3>2. CASE k = n /\ j = m
      <4>1. Times(u, channel'[n][m]) + Times(u, wire'[n][m])
              = Times(u, channel[n][m]) + Times(u, wire[n][m])
        BY <2>3, <2>4, <2>5, <2>6, <3>1, <3>2
      <4>2. Times(u, channel'[n][m]) \in Nat /\ Times(u, wire'[n][m]) \in Nat
        BY <2>4, <2>5, <2>6, <3>1, <3>2
      <4>3. Copies(k, j, u)' = Times([vote |-> u, to |-> j], todo[k]) + Times(u, channel'[n][m])
                               + Times(u, wire'[n][m]) + Times(u, rx_votes[j])
        BY <2>2, <3>2 DEF Copies
      <4>4. Copies(k, j, u) = Times([vote |-> u, to |-> j], todo[k]) + Times(u, channel[n][m])
                              + Times(u, wire[n][m]) + Times(u, rx_votes[j])
        BY <3>2 DEF Copies
      <4>5. Times(u, channel[n][m]) \in Nat /\ Times(u, wire[n][m]) \in Nat
        BY <3>1, <3>2
      <4> QED BY <3>1, <4>1, <4>2, <4>3, <4>4, <4>5
    <3>3. CASE ~(k = n /\ j = m)
      <4>1. channel'[k][j] = channel[k][j] /\ wire'[k][j] = wire[k][j]
        BY <1>t, <2>2, <3>3
      <4> QED BY <2>2, <4>1 DEF Copies
    <3> QED BY <3>2, <3>3
  <2> QED BY <2>2, <2>7, UnderWayMoved
<1>6. ASSUME NEW n \in Node, NEW m \in Node, Dispatch(n, m) PROVE VotesUnderWay'
  <2>1. PICK v : v = Head(wire[n][m])
    OBVIOUS
  <2>2. /\ UNCHANGED <<channel, validated_votes, todo>>
        /\ wire' = [wire EXCEPT ![n][m] = Tail(@)]
        /\ rx_votes' = [rx_votes EXCEPT ![m] = Append(@, v)]
        /\ wire[n][m] # <<>> /\ wire[n][m] \in Seq(Vote) /\ rx_votes[m] \in Seq(Vote)
    BY <1>6, <1>t, <2>1 DEF Dispatch
  <2>3. /\ v \in Vote /\ v \in ToSet(wire[n][m])
        /\ \A u : Times(u, wire[n][m]) = Times(u, Tail(wire[n][m])) + (IF u = v THEN 1 ELSE 0)
    BY <2>1, <2>2, TimesTail
  <2>4. \A u : Times(u, Append(rx_votes[m], v)) = Times(u, rx_votes[m]) + (IF u = v THEN 1 ELSE 0)
    BY <2>2, <2>3, TimesAppend
  <2>5. wire'[n][m] = Tail(wire[n][m]) /\ rx_votes'[m] = Append(rx_votes[m], v)
    BY <1>t, <2>2
  <2>6. \A u : Times(u, wire'[n][m]) \in Nat
    <3>1. Tail(wire[n][m]) \in Seq(Vote)
      BY <2>2, TimesTail
    <3> QED BY <2>5, <3>1, TimesType
  <2>7. v.signer = n
    BY <2>3 DEF Known, Own
  <2>8. ASSUME NEW k \in Node, NEW j \in Node, NEW u \in Own(k)
        PROVE  Copies(k, j, u)' = Copies(k, j, u)
    <3>1. /\ Times([vote |-> u, to |-> j], todo[k]) \in Nat
          /\ Times(u, channel[k][j]) \in Nat /\ Times(u, wire[k][j]) \in Nat
          /\ Times(u, rx_votes[j]) \in Nat
      BY CopiesType
    <3>2. CASE k = n /\ j = m
      <4>1. Times(u, wire'[n][m]) + Times(u, rx_votes'[m])
              = Times(u, wire[n][m]) + Times(u, rx_votes[m])
        BY <2>3, <2>4, <2>5, <2>6, <3>1, <3>2
      <4>2. Times(u, wire'[n][m]) \in Nat /\ Times(u, rx_votes'[m]) \in Nat
        BY <2>4, <2>5, <2>6, <3>1, <3>2
      <4>3. Copies(k, j, u)' = Times([vote |-> u, to |-> j], todo[k]) + Times(u, channel[k][j])
                               + Times(u, wire'[n][m]) + Times(u, rx_votes'[m])
        BY <2>2, <3>2 DEF Copies
      <4>4. Copies(k, j, u) = Times([vote |-> u, to |-> j], todo[k]) + Times(u, channel[k][j])
                              + Times(u, wire[n][m]) + Times(u, rx_votes[m])
        BY <3>2 DEF Copies
      <4>5. Times(u, wire[n][m]) \in Nat /\ Times(u, rx_votes[m]) \in Nat
        BY <3>1, <3>2
      <4> QED BY <3>1, <4>1, <4>2, <4>3, <4>4, <4>5
    <3>3. CASE ~(k = n /\ j = m)
      <4>1. wire'[k][j] = wire[k][j]
        BY <1>t, <2>2, <3>3
      <4>2. Times(u, rx_votes'[j]) = Times(u, rx_votes[j])
        <5>1. CASE j = m
          <6>1. u # v
            BY <2>7, <3>3, <5>1 DEF Own
          <6>2. Times(u, rx_votes[m]) \in Nat
            BY <3>1, <5>1
          <6>3. Times(u, rx_votes'[m]) = Times(u, rx_votes[m])
            BY <2>4, <2>5, <6>1, <6>2
          <6> QED BY <5>1, <6>3
        <5>2. CASE j # m
          BY <1>t, <2>2, <5>2
        <5> QED BY <5>1, <5>2
      <4> QED BY <2>2, <4>1, <4>2 DEF Copies
    <3> QED BY <3>2, <3>3
  <2> QED BY <2>2, <2>8, UnderWayMoved
<1>7. ASSUME NEW c \in Client, JoinAll(c) \/ Submit(c) \/ \E n \in Node : Reach(c, n)
      PROVE  VotesUnderWay'
  BY <1>1, <1>7 DEF JoinAll, Submit, Reach
<1>8. ASSUME NEW n \in Node, Start(n) \/ TakeTransactions(n) \/ DispatchTransactions(n)
      PROVE  VotesUnderWay'
  BY <1>1, <1>8 DEF Start, TakeTransactions, DispatchTransactions
<1>9. ASSUME UNCHANGED vars PROVE VotesUnderWay'
  BY <1>1, <1>9 DEF vars
<1> QED BY <1>2, <1>3, <1>4, <1>5, <1>6, <1>7, <1>8, <1>9 DEF Next, CoreStep

\* No vote is doubled on its way to a primary and none is lost there, but for
\* one a core puts away, for any room in the channels and any speed of the cores
\* and the connections.
THEOREM NoVoteDoubledOrLost == Spec => []VotesUnderWay
<1>1. Init => VotesUnderWay
  BY DEF Init, VotesUnderWay, Own
<1>2. Init => TypeOK /\ Known
  BY TypeInit, KnownInit
<1>3. (TypeOK /\ Known /\ VotesUnderWay) /\ [Next]_vars => (TypeOK /\ Known /\ VotesUnderWay)'
  BY TypeStep, KnownStep, UnderWayStep
<1> QED BY <1>1, <1>2, <1>3, PTL DEF Spec
=============================================================================
