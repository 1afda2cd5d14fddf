------------------------ MODULE ReliableSenderProofs ------------------------
(***************************************************************************)
(* What a connection of the reliable sender guarantees, for any number of  *)
(* messages, any room in the channel and the socket, any breaks and        *)
(* retries, and peers that answer or do not: nothing is lost or put out of *)
(* order, answers match what they answer, and the connection implements    *)
(* ReliableLink.                                                           *)
(***************************************************************************)
EXTENDS ReliableSender, FiniteSetTheorems, SequenceTheorems,
        WellFoundedInduction, TLAPS

USE SenderAssumption
-----------------------------------------------------------------------------
\* A set of natural numbers has a least element.
LEMMA LeastElement ==
    ASSUME NEW T \in SUBSET Nat, T # {}
    PROVE  \E x \in T : \A y \in T : x <= y
<1> DEFINE R == {p \in Nat \X Nat : p[1] < p[2]}
<1>1. IsWellFoundedOn(R, Nat)
  <2>1. R = OpToRel(<, Nat)
    BY DEF OpToRel
  <2> QED BY <2>1, NatLessThanWellFounded
<1>2. PICK x \in T : \A y \in T : ~ (<<y, x>> \in R)
  <2> HIDE DEF R
  <2> QED BY <1>1, WFMin
<1>3. ASSUME NEW y \in T PROVE x <= y
  <2>1. y \in Nat /\ x \in Nat /\ <<y, x>> \in Nat \X Nat
    OBVIOUS
  <2>2. ~ (<<y, x>>[1] < <<y, x>>[2])
    BY <1>2, <2>1
  <2> QED BY <2>1, <2>2
<1> QED BY <1>3

(***************************************************************************)
(* Sequences of messages: their elements, those in the order of sending,   *)
(* and those all of which were sent before the elements of another.        *)
(***************************************************************************)
Elems(s)    == {s[i] : i \in 1 .. Len(s)}
Sorted(s)   == \A i, j \in 1 .. Len(s) : i < j => s[i] < s[j]
Below(S, T) == \A x \in S, y \in T : x < y

LEMMA EmptyFacts == Elems(<<>>) = {} /\ Sorted(<<>>)
BY DEF Elems, Sorted

LEMMA ElemsType ==
    ASSUME NEW s \in Seq(Message)
    PROVE  Elems(s) \subseteq Message /\ Elems(s) \subseteq Nat
BY DEF Elems, Message

LEMMA AppendFacts ==
    ASSUME NEW s \in Seq(Message), NEW m \in Message
    PROVE  /\ Append(s, m) \in Seq(Message)
           /\ Elems(Append(s, m)) = Elems(s) \union {m}
           /\ Sorted(s) /\ Below(Elems(s), {m}) => Sorted(Append(s, m))
<1>1. /\ Append(s, m) \in Seq(Message)
      /\ Len(Append(s, m)) = Len(s) + 1
      /\ \A i \in 1 .. Len(s) : Append(s, m)[i] = s[i]
      /\ Append(s, m)[Len(s) + 1] = m
      /\ Len(s) \in Nat
  BY AppendProperties, LenProperties
<1>2. Elems(Append(s, m)) = Elems(s) \union {m}
  BY <1>1 DEF Elems
<1>3. ASSUME Sorted(s), Below(Elems(s), {m}) PROVE Sorted(Append(s, m))
  BY <1>1, <1>3 DEF Sorted, Below, Elems
<1> QED BY <1>1, <1>2, <1>3

LEMMA TailFacts ==
    ASSUME NEW s \in Seq(Message), s # <<>>
    PROVE  /\ Head(s) \in Message /\ Tail(s) \in Seq(Message)
           /\ Elems(s) = {Head(s)} \union Elems(Tail(s))
           /\ Sorted(s) => Sorted(Tail(s)) /\ Below({Head(s)}, Elems(Tail(s)))
<1>1. /\ Head(s) \in Message /\ Tail(s) \in Seq(Message)
      /\ Len(Tail(s)) = Len(s) - 1 /\ Len(s) \in Nat /\ Len(s) > 0
      /\ \A i \in 1 .. Len(Tail(s)) : Tail(s)[i] = s[i + 1]
      /\ Head(s) = s[1]
  BY HeadTailProperties, LenProperties
<1>2. Elems(s) = {Head(s)} \union Elems(Tail(s))
  <2>1. ASSUME NEW i \in 1 .. Len(s) PROVE s[i] \in {Head(s)} \union Elems(Tail(s))
    <3>1. CASE i = 1
      BY <1>1, <3>1
    <3>2. CASE i # 1
      <4>1. i - 1 \in 1 .. Len(Tail(s)) /\ s[i] = Tail(s)[i - 1]
        BY <1>1, <3>2
      <4> QED BY <4>1 DEF Elems
    <3> QED BY <3>1, <3>2
  <2>2. Head(s) \in Elems(s) /\ Elems(Tail(s)) \subseteq Elems(s)
    BY <1>1 DEF Elems
  <2> QED BY <2>1, <2>2 DEF Elems
<1>3. ASSUME Sorted(s) PROVE Sorted(Tail(s)) /\ Below({Head(s)}, Elems(Tail(s)))
  BY <1>1, <1>3 DEF Sorted, Below, Elems
<1> QED BY <1>1, <1>2, <1>3

LEMMA ConcatFacts ==
    ASSUME NEW s \in Seq(Message), NEW t \in Seq(Message)
    PROVE  /\ s \o t \in Seq(Message)
           /\ Elems(s \o t) = Elems(s) \union Elems(t)
           /\ Sorted(s \o t) <=> Sorted(s) /\ Sorted(t) /\ Below(Elems(s), Elems(t))
<1>1. /\ s \o t \in Seq(Message)
      /\ Len(s \o t) = Len(s) + Len(t) /\ Len(s) \in Nat /\ Len(t) \in Nat
      /\ \A i \in 1 .. Len(s) : (s \o t)[i] = s[i]
      /\ \A i \in 1 .. Len(t) : (s \o t)[Len(s) + i] = t[i]
  <2>1. \A i \in 1 .. Len(s) + Len(t) :
           (s \o t)[i] = IF i <= Len(s) THEN s[i] ELSE t[i - Len(s)]
    BY ConcatProperties
  <2> QED BY <2>1, ConcatProperties, LenProperties
<1>2. \A i \in 1 .. Len(s \o t) : i \in 1 .. Len(s) \/ (i - Len(s) \in 1 .. Len(t)
                                     /\ i = Len(s) + (i - Len(s)))
  BY <1>1
<1>3. Elems(s \o t) = Elems(s) \union Elems(t)
  <2>1. ASSUME NEW i \in 1 .. Len(s \o t) PROVE (s \o t)[i] \in Elems(s) \union Elems(t)
    BY <1>1, <1>2 DEF Elems
  <2>2. ASSUME NEW i \in 1 .. Len(s) PROVE s[i] \in Elems(s \o t)
    BY <1>1 DEF Elems
  <2>3. ASSUME NEW i \in 1 .. Len(t) PROVE t[i] \in Elems(s \o t)
    <3>1. Len(s) + i \in 1 .. Len(s \o t)
      BY <1>1
    <3> QED BY <1>1, <3>1 DEF Elems
  <2> QED BY <2>1, <2>2, <2>3 DEF Elems
<1>4. ASSUME Sorted(s \o t)
      PROVE  Sorted(s) /\ Sorted(t) /\ Below(Elems(s), Elems(t))
  <2>1. Sorted(s)
    BY <1>1, <1>4 DEF Sorted
  <2>2. ASSUME NEW i \in 1 .. Len(t), NEW j \in 1 .. Len(t), i < j PROVE t[i] < t[j]
    <3>1. Len(s) + i \in 1 .. Len(s \o t) /\ Len(s) + j \in 1 .. Len(s \o t)
          /\ Len(s) + i < Len(s) + j
      BY <1>1, <2>2
    <3> QED BY <1>1, <1>4, <3>1 DEF Sorted
  <2>3. ASSUME NEW i \in 1 .. Len(s), NEW j \in 1 .. Len(t) PROVE s[i] < t[j]
    <3>1. i \in 1 .. Len(s \o t) /\ Len(s) + j \in 1 .. Len(s \o t) /\ i < Len(s) + j
      BY <1>1
    <3> QED BY <1>1, <1>4, <3>1 DEF Sorted
  <2> QED BY <2>1, <2>2, <2>3 DEF Sorted, Below, Elems
<1>5. ASSUME Sorted(s), Sorted(t), Below(Elems(s), Elems(t)),
             NEW i \in 1 .. Len(s \o t), NEW j \in 1 .. Len(s \o t), i < j
      PROVE  (s \o t)[i] < (s \o t)[j]
  <2>1. CASE i \in 1 .. Len(s) /\ j \in 1 .. Len(s)
    BY <1>1, <1>5, <2>1 DEF Sorted
  <2>2. CASE i \in 1 .. Len(s) /\ j - Len(s) \in 1 .. Len(t)
    <3>1. (s \o t)[i] \in Elems(s) /\ (s \o t)[j] \in Elems(t)
      BY <1>1, <1>2, <2>2 DEF Elems
    <3> QED BY <1>5, <3>1 DEF Below
  <2>3. CASE i - Len(s) \in 1 .. Len(t) /\ j - Len(s) \in 1 .. Len(t)
    <3>1. (s \o t)[i] = t[i - Len(s)] /\ (s \o t)[j] = t[j - Len(s)]
          /\ i - Len(s) < j - Len(s)
      BY <1>1, <1>2, <1>5, <2>3
    <3> QED BY <1>5, <2>3, <3>1 DEF Sorted
  <2>4. CASE i - Len(s) \in 1 .. Len(t) /\ j \in 1 .. Len(s)
    BY <1>1, <1>5, <2>4
  <2> QED BY <1>2, <2>1, <2>2, <2>3, <2>4
<1> QED BY <1>1, <1>3, <1>4, <1>5 DEF Sorted

(***************************************************************************)
(* What a retained sequence holds: the place of an element in it is its    *)
(* rank among those retained.                                              *)
(***************************************************************************)
UpTo(K, i) == {j \in K : j <= i}
Rank(K, i) == Cardinality(UpTo(K, i))

LEMMA RankFacts ==
    ASSUME NEW n \in Nat, NEW K \in SUBSET (1 .. n)
    PROVE  /\ IsFiniteSet(K) /\ Cardinality(K) \in Nat
           /\ \A i \in 0 .. n : Rank(K, i) \in 0 .. Cardinality(K)
           /\ Rank(K, 0) = 0 /\ Rank(K, n) = Cardinality(K)
           /\ \A i \in 1 .. n : Rank(K, i) = IF i \in K THEN Rank(K, i - 1) + 1
                                                       ELSE Rank(K, i - 1)
           /\ \A i, j \in 0 .. n : i <= j => Rank(K, i) <= Rank(K, j)
           /\ \A i \in 0 .. n, j \in K : i < j => Rank(K, i) < Rank(K, j)
<1>0. K \subseteq 1 .. n /\ \A j \in K : j \in Int /\ 1 <= j /\ j <= n
  OBVIOUS
<1>1. IsFiniteSet(K) /\ Cardinality(K) \in Nat
  <2>1. IsFiniteSet(1 .. n)
    BY FS_Interval
  <2> QED BY <1>0, <2>1, FS_Subset, FS_CardinalityType
<1>2. ASSUME NEW i \in 0 .. n
      PROVE  /\ IsFiniteSet(UpTo(K, i)) /\ Rank(K, i) \in Nat
             /\ Rank(K, i) <= Cardinality(K)
  BY <1>1, FS_Subset, FS_CardinalityType DEF UpTo, Rank
<1>7. \A i \in 0 .. n : /\ UpTo(K, i) \subseteq K
                        /\ \A j \in K : j \in UpTo(K, i) <=> j <= i
  BY DEF UpTo
<1>3. UpTo(K, 0) = {} /\ UpTo(K, n) = K
  <2>1. 0 \in 0 .. n /\ n \in 0 .. n
    OBVIOUS
  <2>2. \A j \in K : j \notin UpTo(K, 0) /\ j \in UpTo(K, n)
    <3> SUFFICES ASSUME NEW j \in K PROVE j \notin UpTo(K, 0) /\ j \in UpTo(K, n)
      OBVIOUS
    <3>1. j \in 1 .. n
      BY <1>0
    <3> QED BY <1>7, <2>1, <3>1
  <2> QED BY <1>7, <2>1, <2>2
<1>4. ASSUME NEW i \in 1 .. n
      PROVE  Rank(K, i) = IF i \in K THEN Rank(K, i - 1) + 1 ELSE Rank(K, i - 1)
  <2>1. i - 1 \in 0 .. n
    OBVIOUS
  <2>2. CASE i \in K
    <3>2. ASSUME NEW j \in K
          PROVE  j \in UpTo(K, i) <=> j \in UpTo(K, i - 1) \/ j = i
      <4>1. j \in 1 .. n /\ i \in 0 .. n
        BY <1>0
      <4> QED BY <1>7, <2>1, <4>1
    <3>3. i \notin UpTo(K, i - 1)
      BY <1>7, <2>1, <2>2
    <3>1. UpTo(K, i) = UpTo(K, i - 1) \union {i} /\ i \notin UpTo(K, i - 1)
      <4>1. UpTo(K, i) \subseteq K /\ UpTo(K, i - 1) \subseteq K
        BY <1>7, <2>1
      <4> QED BY <2>2, <3>2, <3>3, <4>1
    <3> QED BY <1>2, <2>1, <2>2, <3>1, FS_AddElement DEF Rank
  <2>3. CASE i \notin K
    <3>2. ASSUME NEW j \in K
          PROVE  j \in UpTo(K, i) <=> j \in UpTo(K, i - 1)
      <4>1. j \in 1 .. n /\ i \in 0 .. n /\ j # i
        BY <1>0, <2>3
      <4> QED BY <1>7, <2>1, <4>1
    <3>1. UpTo(K, i) = UpTo(K, i - 1)
      <4>1. UpTo(K, i) \subseteq K /\ UpTo(K, i - 1) \subseteq K
        BY <1>7, <2>1
      <4> QED BY <3>2, <4>1
    <3> QED BY <2>3, <3>1 DEF Rank
  <2> QED BY <2>2, <2>3
<1>5. ASSUME NEW i \in 0 .. n, NEW j \in 0 .. n, i <= j
      PROVE  Rank(K, i) <= Rank(K, j)
  <2>1. UpTo(K, i) \subseteq UpTo(K, j)
    <3>1. ASSUME NEW k \in UpTo(K, i) PROVE k \in UpTo(K, j)
      <4>1. k \in K /\ k \in 1 .. n /\ k <= i
        BY <1>0, <1>7
      <4> QED BY <1>5, <1>7, <4>1
    <3> QED BY <3>1
  <2> QED BY <1>2, <2>1, FS_Subset DEF Rank
<1>6. ASSUME NEW i \in 0 .. n, NEW j \in K, i < j
      PROVE  Rank(K, i) < Rank(K, j)
  <2>1. j \in 1 .. n /\ j - 1 \in 0 .. n /\ i <= j - 1
    BY <1>6
  <2>2. Rank(K, i) <= Rank(K, j - 1) /\ Rank(K, j) = Rank(K, j - 1) + 1
    BY <1>4, <1>5, <2>1
  <2>3. Rank(K, i) \in Nat /\ Rank(K, j - 1) \in Nat
    BY <1>2, <2>1
  <2> QED BY <2>2, <2>3
<1> QED BY <1>1, <1>2, <1>3, <1>4, <1>5, <1>6, FS_EmptySet DEF Rank

LEMMA EveryRank ==
    ASSUME NEW n \in Nat, NEW K \in SUBSET (1 .. n), NEW k \in 1 .. Cardinality(K)
    PROVE  \E i \in K : Rank(K, i) = k
<1> DEFINE T == {i \in 0 .. n : k <= Rank(K, i)}
<1>1. T \in SUBSET Nat /\ n \in T
  BY RankFacts
<1> HIDE DEF T
<1>2. PICK i \in T : \A j \in T : i <= j
  BY <1>1, LeastElement
<1> USE DEF T
<1>3. i \in 1 .. n /\ i - 1 \in 0 .. n /\ ~ (k <= Rank(K, i - 1))
  <2>1. i # 0
    <3>1. k <= Rank(K, i) /\ Rank(K, 0) = 0
      BY <1>2, RankFacts
    <3> QED BY <3>1
  <2>2. i \in 1 .. n /\ i - 1 \in 0 .. n /\ ~ (i <= i - 1)
    BY <1>2, <2>1
  <2> QED BY <1>2, <2>2
<1>4. Rank(K, i - 1) \in Nat /\ Rank(K, i) \in Nat /\ Cardinality(K) \in Nat
  BY <1>3, RankFacts
<1>5. k <= Rank(K, i) /\ (Rank(K, i) = IF i \in K THEN Rank(K, i - 1) + 1
                                               ELSE Rank(K, i - 1))
  BY <1>2, <1>3, RankFacts, ZenonT(60)
<1> QED BY <1>3, <1>4, <1>5

\* VecDeque::retain keeps what it is told to keep, in order.
LEMMA RetainedFacts ==
    ASSUME NEW s \in Seq(Message), NEW K \in SUBSET (1 .. Len(s))
    PROVE  /\ Retained(s, K) \in Seq(Message)
           /\ Elems(Retained(s, K)) = {s[i] : i \in K}
           /\ Sorted(s) => Sorted(Retained(s, K))
<1> DEFINE n == Len(s)
           N == Cardinality(K)
           Place(k) == CHOOSE i \in K : Rank(K, i) = k
           t == [k \in 1 .. N |-> s[Place(k)]]
<1>1. n \in Nat /\ N \in Nat /\ \A i \in 1 .. n : s[i] \in Message
  BY RankFacts, LenProperties, ElementOfSeq
<1>0. \A p \in K : p \in 1 .. n /\ p \in 0 .. n /\ p \in Int
  BY <1>1
<1>2. \A k \in 1 .. N : Place(k) \in K /\ Rank(K, Place(k)) = k
  BY <1>1, EveryRank
<1>3. Retained(s, K) = t
  BY DEF Retained, Rank, UpTo
<1> HIDE DEF Place
<1>4. t \in Seq(Message) /\ Len(t) = N /\ \A k \in 1 .. N : t[k] = s[Place(k)]
  <2>1. \A k \in 1 .. N : s[Place(k)] \in Message
    BY <1>1, <1>2
  <2>2. t \in [1 .. N -> Message]
    BY <2>1
  <2>3. t \in Seq(Message)
    BY <1>1, <2>2, SeqDef
  <2> QED BY <1>1, <2>2, <2>3, LenProperties
<1> HIDE DEF t, N, n
<1>5. Elems(t) = {s[i] : i \in K}
  <2>1. ASSUME NEW i \in K PROVE \E k \in 1 .. N : Place(k) = i
    <3>1. i \in 1 .. n /\ Rank(K, i) \in 1 .. N
      <4>1. i \in 0 .. n /\ i - 1 \in 0 .. n /\ i \in 1 .. n
        BY <1>1 DEF n
      <4>2. Rank(K, i) = Rank(K, i - 1) + 1 /\ Rank(K, i - 1) \in 0 .. N
            /\ Rank(K, i) \in 0 .. N
        BY <1>1, <4>1, RankFacts DEF n, N
      <4> QED BY <1>1, <4>1, <4>2
    <3>2. Place(Rank(K, i)) \in K /\ Rank(K, Place(Rank(K, i))) = Rank(K, i)
      BY <1>2, <3>1
    <3>3. \A p \in K, q \in K : p < q => Rank(K, p) # Rank(K, q)
      <4>1. \A p \in K : p \in 0 .. n /\ Rank(K, p) \in Nat
        <5>1. \A p \in 0 .. n : Rank(K, p) \in 0 .. Cardinality(K)
          BY <1>1, RankFacts DEF n
        <5> QED BY <1>0, <5>1
      <4>2. \A p \in K, q \in K : p < q => Rank(K, p) < Rank(K, q)
        BY <1>1, <4>1, RankFacts DEF n
      <4> QED BY <4>1, <4>2
    <3>4. ASSUME NEW p \in K, Rank(K, p) = Rank(K, i) PROVE p = i
      <4>1. ~ (p < i) /\ ~ (i < p)
        BY <3>3, <3>4
      <4> QED BY <1>0, <4>1
    <3>5. Place(Rank(K, i)) = i
      BY <3>2, <3>4
    <3> QED BY <3>1, <3>5
  <2>2. \A x \in Elems(t) : \E i \in K : x = s[i]
    BY <1>2, <1>4 DEF Elems
  <2>3. \A i \in K : s[i] \in Elems(t)
    <3> SUFFICES ASSUME NEW i \in K PROVE s[i] \in Elems(t)
      OBVIOUS
    <3>1. PICK k \in 1 .. N : Place(k) = i
      BY <2>1
    <3>2. t[k] = s[i]
      BY <1>4, <3>1
    <3> QED BY <1>4, <3>2 DEF Elems
  <2> QED BY <2>2, <2>3
<1>6. ASSUME Sorted(s), NEW j \in 1 .. N, NEW k \in 1 .. N, j < k
      PROVE  t[j] < t[k]
  <2>1. /\ Place(j) \in 1 .. n /\ Place(k) \in 1 .. n /\ Place(j) \in 0 .. n
        /\ Place(k) \in 0 .. n
    BY <1>0, <1>2
  <2>2. Place(j) < Place(k)
    <3>1. ASSUME Place(k) <= Place(j) PROVE FALSE
      <4>1. Rank(K, Place(k)) <= Rank(K, Place(j))
        BY <1>1, <2>1, <3>1, RankFacts DEF n
      <4> QED BY <1>1, <1>2, <1>6, <4>1
    <3> QED BY <1>1, <2>1, <3>1
  <2> QED BY <1>4, <1>6, <2>1, <2>2 DEF Sorted, n
<1> QED BY <1>3, <1>4, <1>5, <1>6 DEF Sorted
-----------------------------------------------------------------------------
\* The task holds messages that were sent, in the order of sending, and among
\* them all that wait for their answer.
HeldInv ==
    /\ Elems(pending) \union Elems(buffer) \union Elems(channel) \subseteq 1 .. sent
    /\ Sorted(pending) /\ Sorted(buffer) /\ Sorted(channel)
    /\ Below(Elems(pending), Elems(buffer)) /\ Below(Elems(pending), Elems(channel))
    /\ Below(Elems(buffer), Elems(channel))
    /\ \A m \in 1 .. sent : handlers[m] = "waiting" =>
          m \in Elems(pending) \union Elems(buffer) \union Elems(channel)

\* Without a connection nothing is on its way, nor written; a peer that does
\* not answer has no answers on the way; a task that panicked has nothing.
QuietInv ==
    /\ socket = "none" <=> phase \in {"down", "waiting", "dead"}
    /\ socket = "none" => pending = <<>> /\ acks = <<>>
    /\ socket # "sound" => wire = <<>>
    /\ ~acking => acks = <<>> /\ owes = 0
    /\ phase = "dead" => buffer = <<>> /\ channel = <<>>

\* The answers are for the messages written first, which the peer has read.
AnswersInv ==
    /\ Len(acks) <= Len(pending)
    /\ \A i \in 1 .. Len(acks) : acks[i] = pending[i] /\ acks[i] \in Elems(got)

\* The message the peer is answering takes one place.
Due == IF owes = 0 THEN 0 ELSE 1

\* On a sound connection the pending messages are the answered ones, the one
\* the peer is answering and those on the way, in this order; where the peer
\* does not answer, those it read and those on the way.  What it read comes
\* before all it has still to read.
WireInv ==
    /\ Len(acks) + Due + Len(wire) <= Len(pending)
    /\ acking => Len(acks) + Due + Len(wire) = Len(pending)
    /\ owes # 0 => owes = pending[Len(acks) + 1]
    /\ \A i \in 1 .. Len(wire) : wire[i] = pending[Len(pending) - Len(wire) + i]
    /\ \A i \in 1 .. Len(pending) - Len(wire) : pending[i] \in Elems(got)
    /\ Sorted(got) /\ Elems(got) \subseteq 1 .. sent
    /\ Below(Elems(got), Elems(wire) \union Elems(buffer) \union Elems(channel))

\* The inductive invariant of a connection.
SenderInv ==
    /\ TypeOK /\ HeldInv /\ QuietInv /\ AnswersInv
    /\ socket = "sound" => WireInv

LEMMA SenderInit == Init => SenderInv
<1> SUFFICES ASSUME Init PROVE SenderInv
  OBVIOUS
<1>1. <<>> \in Seq(Message) /\ Elems(<<>>) = {} /\ Sorted(<<>>) /\ Len(<<>>) = 0
  BY EmptyFacts, EmptySeq
<1>2. TypeOK
  BY <1>1 DEF Init, TypeOK, Phase, Handler
<1>3. HeldInv
  BY <1>1 DEF Init, HeldInv, Below
<1>4. QuietInv /\ AnswersInv /\ socket # "sound"
  BY <1>1 DEF Init, QuietInv, AnswersInv
<1> QED BY <1>2, <1>3, <1>4 DEF SenderInv

\* The link is as it was where the frames on it are, and what is still to be
\* written comes after what the peer has read.
LEMMA WireKept ==
    ASSUME WireInv, UNCHANGED <<acking, pending, acks, owes, wire, got>>,
           sent \in Nat, sent' \in Nat, sent <= sent',
           Below(Elems(got), Elems(buffer') \union Elems(channel'))
    PROVE  WireInv'
<1>1. Below(Elems(got), Elems(wire) \union Elems(buffer') \union Elems(channel'))
  BY DEF WireInv, Below
<1>2. Elems(got) \subseteq 1 .. sent'
  BY DEF WireInv
<1> QED BY <1>1, <1>2 DEF WireInv, Due

LEMMA SendStep == ASSUME SenderInv, Send PROVE SenderInv'
<1>1. /\ TypeOK /\ HeldInv /\ QuietInv /\ AnswersInv /\ (socket = "sound" => WireInv)
      /\ sent \in Nat /\ sent + 1 \in Message /\ sent + 1 \in Nat
      /\ channel \in Seq(Message) /\ buffer \in Seq(Message) /\ pending \in Seq(Message)
      /\ phase # "dead" /\ sent' = sent + 1 /\ channel' = Append(channel, sent + 1)
      /\ UNCHANGED <<calling, handlers, task, net, peer>>
  BY DEF SenderInv, TypeOK, Send, Message
<1>2. /\ channel' \in Seq(Message) /\ Elems(channel') = Elems(channel) \union {sent + 1}
      /\ Sorted(channel) /\ Below(Elems(channel), {sent + 1}) => Sorted(channel')
  BY <1>1, AppendFacts
<1>3. TypeOK'
  BY <1>1, <1>2 DEF TypeOK, task, net, peer, Send, Message
<1>4. \A x \in Elems(pending) \union Elems(buffer) \union Elems(channel) : x < sent + 1
  BY <1>1 DEF HeldInv
<1>5. HeldInv'
  <2>1. Below(Elems(channel), {sent + 1}) /\ Below(Elems(buffer), Elems(channel'))
        /\ Below(Elems(pending), Elems(channel'))
    BY <1>1, <1>2, <1>4 DEF HeldInv, Below
  <2>2. Elems(pending) \union Elems(buffer) \union Elems(channel') \subseteq 1 .. sent + 1
    BY <1>1, <1>2 DEF HeldInv
  <2>3. \A m \in 1 .. sent + 1 : m \in 1 .. sent \/ m = sent + 1
    BY <1>1
  <2> QED BY <1>1, <1>2, <2>1, <2>2, <2>3 DEF HeldInv, task
<1>6. QuietInv' /\ AnswersInv'
  BY <1>1 DEF QuietInv, AnswersInv, task, net, peer
<1>7. ASSUME socket' = "sound" PROVE WireInv'
  <2>1. WireInv /\ UNCHANGED <<acking, pending, acks, owes, wire, got, buffer>>
    BY <1>1, <1>7 DEF task, net, peer
  <2>2. Below(Elems(got), Elems(buffer') \union Elems(channel'))
    <3>1. \A x \in Elems(got) : x \in Nat /\ x < sent + 1
      BY <1>1, <2>1 DEF WireInv
    <3> QED BY <1>1, <1>2, <2>1, <3>1 DEF WireInv, Below
  <2> QED BY <1>1, <2>1, <2>2, WireKept
<1> QED BY <1>3, <1>5, <1>6, <1>7 DEF SenderInv

LEMMA CancelStep == ASSUME SenderInv, NEW m \in Message, Cancel(m) PROVE SenderInv'
<1>1. TypeOK'
  BY DEF SenderInv, TypeOK, Handler, Cancel, task, net, peer
<1>2. HeldInv'
  BY DEF SenderInv, TypeOK, HeldInv, Cancel, task, net, peer
<1>3. QuietInv' /\ AnswersInv'
  BY DEF SenderInv, QuietInv, AnswersInv, Cancel, task, net, peer
<1>4. ASSUME socket' = "sound" PROVE WireInv'
  BY <1>4 DEF SenderInv, WireInv, Due, Cancel, task, net, peer
<1> QED BY <1>1, <1>2, <1>3, <1>4 DEF SenderInv

LEMMA SendPanicsStep == ASSUME SenderInv, SendPanics PROVE SenderInv'
<1>1. /\ UNCHANGED <<sent, handlers, channel, task, net, peer>>
      /\ calling' = FALSE
  BY DEF SendPanics
<1>2. TypeOK'
  <2>1. calling' \in BOOLEAN
    BY <1>1, Zenon
  <2> QED BY <1>1, <2>1 DEF SenderInv, TypeOK, task, net, peer
<1>3. HeldInv' /\ QuietInv' /\ AnswersInv'
  BY <1>1 DEF SenderInv, HeldInv, QuietInv, AnswersInv, task, net, peer
<1>4. ASSUME socket' = "sound" PROVE WireInv'
  BY <1>1, <1>4 DEF SenderInv, WireInv, Due, task, net, peer
<1> QED BY <1>2, <1>3, <1>4 DEF SenderInv

\* The steps that only move the task or the retry number.
LEMMA PhaseStep ==
    ASSUME SenderInv, ConnectFails \/ TimerFires \/ Written PROVE SenderInv'
<1>1. /\ UNCHANGED <<caller, channel, buffer, pending, net, peer>>
      /\ \/ phase \in {"down", "waiting", "dead"} /\ phase' \in {"down", "waiting", "dead"}
         \/ phase = "writing" /\ phase' = "selecting"
      /\ phase' # "dead"
  BY DEF ConnectFails, TimerFires, Written
<1>2. TypeOK'
  <2>1. retry' \in 0 .. MaxRetry
    BY DEF SenderInv, TypeOK, ConnectFails, TimerFires, Written
  <2> QED BY <1>1, <2>1 DEF SenderInv, TypeOK, Phase, caller, net, peer
<1>3. HeldInv' /\ AnswersInv'
  BY <1>1 DEF SenderInv, HeldInv, AnswersInv, caller, net, peer
<1>4. QuietInv'
  BY <1>1 DEF SenderInv, QuietInv, net, peer
<1>5. ASSUME socket' = "sound" PROVE WireInv'
  BY <1>1, <1>5 DEF SenderInv, WireInv, Due, caller, net, peer
<1> QED BY <1>2, <1>3, <1>4, <1>5 DEF SenderInv

\* What the task drops when it panics nobody waits for.
LEMMA PanicStep == ASSUME SenderInv, TimerPanics PROVE SenderInv'
<1>1. /\ TypeOK /\ HeldInv /\ QuietInv /\ AnswersInv
      /\ phase = "waiting" /\ phase' = "dead" /\ buffer' = <<>> /\ channel' = <<>>
      /\ handlers' = [m \in Message |->
                        IF m <= sent /\ handlers[m] = "waiting" THEN "lost" ELSE handlers[m]]
      /\ UNCHANGED <<calling, sent, retry, pending, net, peer>>
  BY DEF SenderInv, TimerPanics
<1>2. <<>> \in Seq(Message) /\ Elems(<<>>) = {} /\ Sorted(<<>>)
  BY EmptyFacts, EmptySeq
<1>3. /\ socket = "none" /\ pending = <<>>
      /\ 1 .. sent \subseteq Message /\ \A m \in 1 .. sent : m <= sent
  BY <1>1 DEF QuietInv, TypeOK, Message
<1>4. \A m \in 1 .. sent : handlers'[m] # "waiting"
  BY <1>1, <1>3
<1>5. TypeOK'
  <2>1. handlers' \in [Message -> Handler]
    BY <1>1 DEF TypeOK, Handler
  <2> QED BY <1>1, <1>2, <2>1 DEF TypeOK, Phase, net, peer
<1>6. HeldInv'
  BY <1>1, <1>2, <1>3, <1>4 DEF HeldInv, Below
<1>7. QuietInv' /\ AnswersInv' /\ socket' # "sound"
  BY <1>1, <1>3 DEF QuietInv, AnswersInv, net, peer
<1> QED BY <1>5, <1>6, <1>7 DEF SenderInv

LEMMA ConnectStep == ASSUME SenderInv, Connect PROVE SenderInv'
<1>1. <<>> \in Seq(Message) /\ Elems(<<>>) = {} /\ Sorted(<<>>) /\ Len(<<>>) = 0
  BY EmptyFacts, EmptySeq
<1>2. pending = <<>> /\ socket = "none"
  BY DEF SenderInv, QuietInv, Connect
<1>3. TypeOK'
  BY <1>1 DEF SenderInv, TypeOK, Connect, caller, Phase
<1>4. HeldInv'
  BY DEF SenderInv, HeldInv, Connect, caller
<1>5. QuietInv' /\ AnswersInv'
  BY <1>1, <1>2 DEF SenderInv, QuietInv, AnswersInv, Connect, Due
<1>6. WireInv'
  BY <1>1, <1>2 DEF WireInv, Connect, Due, Below
<1> QED BY <1>3, <1>4, <1>5, <1>6 DEF SenderInv

LEMMA DrainStep == ASSUME SenderInv, Drain PROVE SenderInv'
<1> DEFINE all == Append(buffer, Head(channel))
           K == {i \in DOMAIN all : ~Closed(all[i])}
<1>1. /\ TypeOK /\ HeldInv /\ QuietInv /\ AnswersInv
      /\ channel \in Seq(Message) /\ channel # <<>> /\ buffer \in Seq(Message)
      /\ phase = "waiting" /\ socket = "none" /\ pending = <<>> /\ acks = <<>>
      /\ channel' = Tail(channel) /\ buffer' = Retained(all, K)
      /\ UNCHANGED <<caller, phase, retry, pending, net, peer>>
  BY DEF SenderInv, TypeOK, QuietInv, Drain
<1>2. /\ Head(channel) \in Message /\ Tail(channel) \in Seq(Message)
      /\ Elems(channel) = {Head(channel)} \union Elems(Tail(channel))
      /\ Sorted(Tail(channel)) /\ Below({Head(channel)}, Elems(Tail(channel)))
  BY <1>1, TailFacts DEF HeldInv
<1>3. /\ all \in Seq(Message) /\ Elems(all) = Elems(buffer) \union {Head(channel)}
      /\ Sorted(all)
  <2>1. Below(Elems(buffer), {Head(channel)})
    BY <1>1, <1>2 DEF HeldInv, Below
  <2> QED BY <1>1, <1>2, <2>1, AppendFacts DEF HeldInv
<1> HIDE DEF all
<1>4. K \in SUBSET (1 .. Len(all))
  BY <1>3, LenProperties
<1>5. /\ buffer' \in Seq(Message) /\ Elems(buffer') = {all[i] : i \in K}
      /\ Sorted(buffer')
  <2> HIDE DEF K
  <2> QED BY <1>1, <1>3, <1>4, RetainedFacts
<1>6. /\ Elems(buffer') \subseteq Elems(buffer) \union {Head(channel)}
      /\ \A m \in Elems(buffer) \union {Head(channel)} :
            handlers[m] = "waiting" => m \in Elems(buffer')
  <2>1. Elems(all) = {all[i] : i \in DOMAIN all}
    BY <1>3, LenProperties DEF Elems
  <2>2. \A m \in Elems(all) : handlers[m] = "waiting" => m \in Elems(buffer')
    BY <1>5, <2>1 DEF Closed
  <2>3. Elems(buffer') \subseteq Elems(all)
    BY <1>5, <2>1
  <2> QED BY <1>3, <2>2, <2>3
<1>7. TypeOK'
  BY <1>1, <1>2, <1>5 DEF TypeOK, caller, net, peer
<1>8. HeldInv'
  <2>1. Below(Elems(buffer'), Elems(channel'))
    BY <1>1, <1>2, <1>6 DEF HeldInv, Below
  <2>2. Elems(pending) = {} /\ Sorted(pending) /\ pending' = pending
    BY <1>1 DEF HeldInv, Elems
  <2> QED BY <1>1, <1>2, <1>5, <1>6, <2>1, <2>2 DEF HeldInv, Below, caller
<1>9. QuietInv' /\ AnswersInv' /\ socket' # "sound"
  BY <1>1 DEF QuietInv, AnswersInv, net, peer
<1> QED BY <1>7, <1>8, <1>9 DEF SenderInv

LEMMA SkipStep == ASSUME SenderInv, SkipCancelled PROVE SenderInv'
<1>1. /\ TypeOK /\ HeldInv /\ QuietInv /\ AnswersInv /\ (socket = "sound" => WireInv)
      /\ sent \in Nat
      /\ buffer \in Seq(Message) /\ buffer # <<>> /\ handlers[Head(buffer)] = "cancelled"
      /\ buffer' = Tail(buffer)
      /\ UNCHANGED <<caller, channel, phase, retry, pending, net, peer>>
  BY DEF SenderInv, TypeOK, SkipCancelled, Closed
<1>2. /\ Tail(buffer) \in Seq(Message) /\ Sorted(Tail(buffer))
      /\ Elems(buffer) = {Head(buffer)} \union Elems(Tail(buffer))
  BY <1>1, TailFacts DEF HeldInv
<1>3. TypeOK'
  BY <1>1, <1>2 DEF TypeOK, caller, net, peer
<1>4. HeldInv'
  BY <1>1, <1>2 DEF HeldInv, Below, caller
<1>5. QuietInv' /\ AnswersInv'
  BY <1>1 DEF QuietInv, AnswersInv, net, peer
<1>6. ASSUME socket' = "sound" PROVE WireInv'
  <2>1. WireInv /\ UNCHANGED <<acking, pending, acks, owes, wire, got, sent>>
    BY <1>1, <1>6 DEF net, peer, caller
  <2>2. Below(Elems(got), Elems(buffer') \union Elems(channel'))
    BY <1>1, <1>2, <2>1 DEF WireInv, Below
  <2> QED BY <1>1, <2>1, <2>2, WireKept
<1> QED BY <1>3, <1>4, <1>5, <1>6 DEF SenderInv

LEMMA AcceptStep == ASSUME SenderInv, Accept PROVE SenderInv'
<1>1. /\ TypeOK /\ HeldInv /\ QuietInv /\ AnswersInv /\ (socket = "sound" => WireInv)
      /\ sent \in Nat /\ phase = "selecting" /\ phase' = "writing"
      /\ buffer \in Seq(Message) /\ channel \in Seq(Message) /\ channel # <<>>
      /\ buffer' = Append(buffer, Head(channel)) /\ channel' = Tail(channel)
      /\ UNCHANGED <<caller, retry, pending, net, peer>>
  BY DEF SenderInv, TypeOK, Accept
<1>2. /\ Head(channel) \in Message
      /\ Tail(channel) \in Seq(Message) /\ Sorted(Tail(channel))
      /\ Elems(channel) = {Head(channel)} \union Elems(Tail(channel))
      /\ Below({Head(channel)}, Elems(Tail(channel)))
  BY <1>1, TailFacts DEF HeldInv
<1>3. /\ buffer' \in Seq(Message) /\ Sorted(buffer')
      /\ Elems(buffer') = Elems(buffer) \union {Head(channel)}
  <2>1. Below(Elems(buffer), {Head(channel)})
    BY <1>1, <1>2 DEF HeldInv, Below
  <2> QED BY <1>1, <1>2, <2>1, AppendFacts DEF HeldInv
<1>4. TypeOK'
  BY <1>1, <1>2, <1>3 DEF TypeOK, Phase, caller, net, peer
<1>5. HeldInv'
  BY <1>1, <1>2, <1>3 DEF HeldInv, Below, caller
<1>6. QuietInv' /\ AnswersInv'
  BY <1>1 DEF QuietInv, AnswersInv, net, peer
<1>7. ASSUME socket' = "sound" PROVE WireInv'
  <2>1. WireInv /\ UNCHANGED <<acking, pending, acks, owes, wire, got, sent>>
    BY <1>1, <1>7 DEF net, peer, caller
  <2>2. Below(Elems(got), Elems(buffer') \union Elems(channel'))
    BY <1>1, <1>2, <1>3, <2>1 DEF WireInv, Below
  <2> QED BY <1>1, <2>1, <2>2, WireKept
<1> QED BY <1>4, <1>5, <1>6, <1>7 DEF SenderInv

LEMMA WriteStep == ASSUME SenderInv, Write PROVE SenderInv'
<1> DEFINE m == Head(buffer)
<1>1. /\ TypeOK /\ HeldInv /\ QuietInv /\ AnswersInv /\ (socket = "sound" => WireInv)
      /\ sent \in Nat /\ phase = "writing" /\ socket \in {"sound", "broken"}
      /\ {buffer, channel, pending, wire, acks, got} \subseteq Seq(Message) /\ buffer # <<>>
      /\ buffer' = Tail(buffer) /\ pending' = Append(pending, m)
      /\ wire' = IF socket = "broken" THEN wire ELSE Append(wire, m)
      /\ UNCHANGED <<caller, channel, phase, retry, socket, acks, breaks, peer>>
  BY DEF SenderInv, TypeOK, QuietInv, Write
<1>2. /\ m \in Message /\ Tail(buffer) \in Seq(Message) /\ Sorted(Tail(buffer))
      /\ Elems(buffer) = {m} \union Elems(Tail(buffer))
      /\ Below({m}, Elems(Tail(buffer)))
  BY <1>1, TailFacts DEF HeldInv
<1>3. /\ pending' \in Seq(Message) /\ Sorted(pending')
      /\ Elems(pending') = Elems(pending) \union {m}
  <2>1. Below(Elems(pending), {m})
    BY <1>1, <1>2 DEF HeldInv, Below
  <2> QED BY <1>1, <1>2, <2>1, AppendFacts DEF HeldInv
<1>4. /\ Append(wire, m) \in Seq(Message)
      /\ Elems(Append(wire, m)) = Elems(wire) \union {m}
  BY <1>1, <1>2, AppendFacts
<1>5. /\ Len(pending') = Len(pending) + 1 /\ pending'[Len(pending) + 1] = m
      /\ \A i \in 1 .. Len(pending) : pending'[i] = pending[i]
      /\ Len(Append(wire, m)) = Len(wire) + 1 /\ Append(wire, m)[Len(wire) + 1] = m
      /\ \A i \in 1 .. Len(wire) : Append(wire, m)[i] = wire[i]
      /\ Len(pending) \in Nat /\ Len(wire) \in Nat /\ Len(acks) \in Nat
  BY <1>1, <1>2, AppendProperties, LenProperties
<1> HIDE DEF m
<1>6. TypeOK'
  BY <1>1, <1>2, <1>3, <1>4 DEF TypeOK, caller, peer
<1>7. HeldInv'
  BY <1>1, <1>2, <1>3 DEF HeldInv, Below, caller
<1>8. QuietInv'
  BY <1>1 DEF QuietInv, peer
<1>9. AnswersInv'
  BY <1>1, <1>5 DEF AnswersInv, peer
<1>10. ASSUME socket' = "sound" PROVE WireInv'
  <2>1. /\ WireInv /\ UNCHANGED <<acking, acks, owes, got, sent>>
        /\ wire' = Append(wire, m) /\ Due \in {0, 1} /\ Due' = Due
    BY <1>1, <1>10 DEF peer, caller, Due
  <2>2. /\ Len(acks') + Due' + Len(wire') <= Len(pending')
        /\ acking' => Len(acks') + Due' + Len(wire') = Len(pending')
    BY <1>5, <2>1 DEF WireInv
  <2>3. owes' # 0 => owes' = pending'[Len(acks') + 1]
    BY <1>5, <2>1 DEF WireInv, Due
  <2>4. ASSUME NEW i \in 1 .. Len(wire')
        PROVE  wire'[i] = pending'[Len(pending') - Len(wire') + i]
    <3>1. CASE i \in 1 .. Len(wire)
      <4>1. Len(pending) - Len(wire) + i \in 1 .. Len(pending)
            /\ Len(pending') - Len(wire') + i = Len(pending) - Len(wire) + i
        BY <1>5, <2>1, <3>1 DEF WireInv
      <4> QED BY <1>5, <2>1, <3>1, <4>1 DEF WireInv
    <3>2. CASE i = Len(wire) + 1
      BY <1>5, <2>1, <3>2
    <3> QED BY <1>5, <2>1, <2>4, <3>1, <3>2
  <2>5. ASSUME NEW i \in 1 .. Len(pending') - Len(wire')
        PROVE  pending'[i] \in Elems(got')
    <3>1. i \in 1 .. Len(pending) - Len(wire) /\ i \in 1 .. Len(pending)
      BY <1>5, <2>1, <2>5
    <3> QED BY <1>5, <2>1, <3>1 DEF WireInv
  <2>6. Below(Elems(got), Elems(wire') \union Elems(buffer') \union Elems(channel'))
    BY <1>1, <1>2, <1>4, <2>1 DEF WireInv, Below
  <2>7. Sorted(got') /\ Elems(got') \subseteq 1 .. sent'
    BY <2>1 DEF WireInv
  <2> QED BY <2>1, <2>2, <2>3, <2>4, <2>5, <2>6, <2>7 DEF WireInv
<1> QED BY <1>6, <1>7, <1>8, <1>9, <1>10 DEF SenderInv

LEMMA FailStep == ASSUME SenderInv, Fail PROVE SenderInv'
<1>1. /\ TypeOK /\ HeldInv /\ {buffer, pending} \subseteq Seq(Message)
      /\ buffer' = pending \o buffer /\ pending' = <<>>
      /\ phase' = "down" /\ socket' = "none" /\ wire' = <<>> /\ acks' = <<>>
      /\ UNCHANGED <<caller, channel, retry, breaks, peer>>
  BY DEF SenderInv, TypeOK, Fail, PutBack
<1>2. <<>> \in Seq(Message) /\ Elems(<<>>) = {} /\ Sorted(<<>>) /\ Len(<<>>) = 0
  BY EmptyFacts, EmptySeq
<1>3. /\ buffer' \in Seq(Message) /\ Sorted(buffer')
      /\ Elems(buffer') = Elems(pending) \union Elems(buffer)
  BY <1>1, ConcatFacts DEF HeldInv
<1>4. TypeOK'
  BY <1>1, <1>2, <1>3 DEF TypeOK, Phase, caller, peer
<1>5. HeldInv'
  BY <1>1, <1>2, <1>3 DEF HeldInv, Below, caller
<1>6. QuietInv' /\ AnswersInv'
  BY <1>1, <1>2 DEF SenderInv, QuietInv, AnswersInv, peer
<1> QED BY <1>1, <1>4, <1>5, <1>6 DEF SenderInv

LEMMA TakeAckStep == ASSUME SenderInv, TakeAck PROVE SenderInv'
<1> DEFINE m == Head(pending)
<1>1. /\ TypeOK /\ HeldInv /\ QuietInv /\ AnswersInv /\ (socket = "sound" => WireInv)
      /\ sent \in Nat /\ phase = "selecting" /\ phase' = "writing"
      /\ {buffer, channel, pending, wire, acks, got} \subseteq Seq(Message)
      /\ pending # <<>> /\ acks # <<>>
      /\ pending' = Tail(pending) /\ acks' = Tail(acks)
      /\ handlers' = [handlers EXCEPT ![m] = IF Closed(m) THEN @ ELSE "acked"]
      /\ UNCHANGED <<calling, sent, channel, retry, buffer, socket, wire, breaks, peer>>
  BY DEF SenderInv, TypeOK, TakeAck, Resolved
<1>2. /\ m \in Message /\ Tail(pending) \in Seq(Message) /\ Sorted(Tail(pending))
      /\ Elems(pending) = {m} \union Elems(Tail(pending))
  BY <1>1, TailFacts DEF HeldInv
<1>3. /\ Tail(acks) \in Seq(Message)
      /\ Len(pending') = Len(pending) - 1 /\ Len(acks') = Len(acks) - 1
      /\ \A i \in 1 .. Len(pending') : pending'[i] = pending[i + 1]
      /\ \A i \in 1 .. Len(acks') : acks'[i] = acks[i + 1]
      /\ Len(pending) \in Nat /\ Len(wire) \in Nat /\ Len(acks) \in Nat
      /\ Len(pending) > 0 /\ Len(acks) > 0
  BY <1>1, HeadTailProperties, LenProperties, SMTT(30)
<1>4. /\ handlers' \in [Message -> Handler]
      /\ \A x \in Message : handlers'[x] = "waiting" => handlers[x] = "waiting" /\ x # m
  BY <1>1, <1>2 DEF TypeOK, Handler, Closed
<1> HIDE DEF m
<1>5. TypeOK'
  BY <1>1, <1>2, <1>3, <1>4 DEF TypeOK, Phase, peer
<1>6. HeldInv'
  <2>1. 1 .. sent \subseteq Message
    BY <1>1 DEF TypeOK, Message
  <2> QED BY <1>1, <1>2, <1>4, <2>1 DEF HeldInv, Below
<1>7. QuietInv'
  BY <1>1 DEF QuietInv, peer
<1>8. AnswersInv'
  <2>1. ASSUME NEW i \in 1 .. Len(acks')
        PROVE  acks'[i] = pending'[i] /\ acks'[i] \in Elems(got)
    <3>1. i + 1 \in 1 .. Len(acks) /\ i \in 1 .. Len(pending')
      BY <1>1, <1>3, SMTT(30) DEF AnswersInv
    <3> QED BY <1>1, <1>3, <3>1 DEF AnswersInv
  <2> QED BY <1>1, <1>3, <2>1, SMTT(30) DEF AnswersInv, peer
<1>9. ASSUME socket' = "sound" PROVE WireInv'
  <2>1. /\ WireInv /\ UNCHANGED <<acking, owes, got, sent, wire, buffer, channel>>
        /\ Due \in {0, 1} /\ Due' = Due
    BY <1>1, <1>9 DEF peer, Due
  <2>2. /\ Len(acks') + Due' + Len(wire') <= Len(pending')
        /\ acking' => Len(acks') + Due' + Len(wire') = Len(pending')
    BY <1>3, <2>1, SMTT(30) DEF WireInv
  <2>3. owes' # 0 => owes' = pending'[Len(acks') + 1]
    <3>1. ASSUME owes # 0
          PROVE  Len(acks') + 1 \in 1 .. Len(pending') /\ (Len(acks') + 1) + 1 = Len(acks) + 1
      BY <1>3, <2>1, <3>1 DEF WireInv, Due
    <3> QED BY <1>3, <2>1, <3>1 DEF WireInv
  <2>4. ASSUME NEW i \in 1 .. Len(wire')
        PROVE  wire'[i] = pending'[Len(pending') - Len(wire') + i]
    <3>1. /\ Len(pending') - Len(wire') + i \in 1 .. Len(pending')
          /\ (Len(pending') - Len(wire') + i) + 1 = Len(pending) - Len(wire) + i
      BY <1>3, <2>1, <2>2
    <3> QED BY <1>3, <2>1, <3>1 DEF WireInv
  <2>5. ASSUME NEW i \in 1 .. Len(pending') - Len(wire')
        PROVE  pending'[i] \in Elems(got')
    <3>1. i + 1 \in 1 .. Len(pending) - Len(wire) /\ i \in 1 .. Len(pending')
      BY <1>3, <2>1, <2>5
    <3> QED BY <1>3, <2>1, <3>1 DEF WireInv
  <2> QED BY <2>1, <2>2, <2>3, <2>4, <2>5 DEF WireInv
<1> QED BY <1>5, <1>6, <1>7, <1>8, <1>9 DEF SenderInv

LEMMA BreakStep == ASSUME SenderInv, Break PROVE SenderInv'
<1>1. /\ TypeOK /\ HeldInv /\ QuietInv /\ AnswersInv
      /\ acks \in Seq(Message) /\ Len(acks) \in Nat
      /\ socket = "sound" /\ socket' = "broken" /\ breaks' \in 0 .. MaxBreaks
      /\ wire' = <<>> /\ owes' = 0
      /\ UNCHANGED <<caller, channel, task, acking, got, reached>>
  BY LenProperties DEF SenderInv, TypeOK, Break
<1>2. PICK k \in 0 .. Len(acks) : acks' = SubSeq(acks, 1, k)
  BY DEF Break
<1>3. /\ acks' \in Seq(Message) /\ Len(acks') = k
      /\ \A i \in 1 .. k : acks'[i] = acks[i]
  <2>1. \A i \in 1 .. k : acks[i] \in Message
    BY <1>1, <1>2, ElementOfSeq
  <2> QED BY <1>1, <1>2, <2>1, SubSeqProperties
<1>4. TypeOK'
  BY <1>1, <1>3, EmptySeq DEF TypeOK, caller, task
<1>5. HeldInv'
  BY <1>1 DEF HeldInv, caller, task
<1>6. QuietInv'
  BY <1>1, <1>2, <1>3, EmptySeq DEF QuietInv, task
<1>7. AnswersInv'
  BY <1>1, <1>2, <1>3 DEF AnswersInv, task
<1> QED BY <1>1, <1>4, <1>5, <1>6, <1>7 DEF SenderInv

\* The frames on a sound connection are the last ones written, in order.
LEMMA WireSuffix ==
    ASSUME TypeOK, HeldInv, WireInv
    PROVE  Sorted(wire) /\ Elems(wire) \subseteq Elems(pending)
<1>1. Len(wire) \in Nat /\ Len(pending) \in Nat /\ Len(acks) \in Nat /\ Due \in {0, 1}
  BY LenProperties DEF TypeOK, Due
<1>2. ASSUME NEW i \in 1 .. Len(wire)
      PROVE  Len(pending) - Len(wire) + i \in 1 .. Len(pending)
  BY <1>1 DEF WireInv
<1>3. ASSUME NEW i \in 1 .. Len(wire), NEW j \in 1 .. Len(wire), i < j
      PROVE  wire[i] < wire[j]
  <2>1. Len(pending) - Len(wire) + i < Len(pending) - Len(wire) + j
    BY <1>1, <1>3
  <2>2. /\ wire[i] = pending[Len(pending) - Len(wire) + i]
        /\ wire[j] = pending[Len(pending) - Len(wire) + j]
    BY DEF WireInv
  <2> QED BY <1>2, <2>1, <2>2 DEF HeldInv, Sorted
<1> QED BY <1>2, <1>3 DEF Sorted, Elems, WireInv

LEMMA PeerReadsStep == ASSUME SenderInv, PeerReads PROVE SenderInv'
<1> DEFINE m == Head(wire)
<1>1. /\ TypeOK /\ HeldInv /\ QuietInv /\ AnswersInv /\ WireInv
      /\ sent \in Nat /\ socket = "sound" /\ owes = 0 /\ Due = 0
      /\ {buffer, channel, pending, wire, acks, got} \subseteq Seq(Message) /\ wire # <<>>
      /\ wire' = Tail(wire) /\ got' = Append(got, m)
      /\ reached' = reached \union {m} /\ owes' = IF acking THEN m ELSE 0
      /\ UNCHANGED <<caller, channel, task, socket, acks, breaks, acking>>
  BY DEF SenderInv, TypeOK, PeerReads, Due
<1>2. /\ m \in Message /\ Tail(wire) \in Seq(Message)
      /\ Elems(wire) = {m} \union Elems(Tail(wire)) /\ Below({m}, Elems(Tail(wire)))
  BY <1>1, TailFacts, WireSuffix
<1>3. /\ got' \in Seq(Message) /\ Elems(got') = Elems(got) \union {m} /\ Sorted(got')
  <2>1. Below(Elems(got), {m})
    BY <1>1, <1>2 DEF WireInv, Below
  <2> QED BY <1>1, <1>2, <2>1, AppendFacts DEF WireInv
<1>4. /\ Len(wire') = Len(wire) - 1 /\ Len(wire) > 0 /\ m = wire[1]
      /\ \A i \in 1 .. Len(wire') : wire'[i] = wire[i + 1]
      /\ Len(pending) \in Nat /\ Len(wire) \in Nat /\ Len(acks) \in Nat
  BY <1>1, HeadTailProperties, LenProperties
<1>5. m # 0 /\ m \in 1 .. sent
  BY <1>1, <1>2, WireSuffix DEF Message, HeldInv
<1> HIDE DEF m
<1>6. TypeOK'
  BY <1>1, <1>2, <1>3 DEF TypeOK, caller, task
<1>7. HeldInv'
  BY <1>1 DEF HeldInv, caller, task
<1>8. QuietInv'
  BY <1>1 DEF QuietInv, task
<1>9. AnswersInv'
  BY <1>1, <1>3 DEF AnswersInv, task
<1>10. WireInv'
  <2>1. /\ UNCHANGED <<acking, acks, sent, pending, buffer, channel>>
        /\ Due' = IF acking THEN 1 ELSE 0
    BY <1>1, <1>5 DEF caller, task, Due
  <2>2. /\ Len(acks') + Due' + Len(wire') <= Len(pending')
        /\ acking' => Len(acks') + Due' + Len(wire') = Len(pending')
    BY <1>1, <1>4, <2>1 DEF WireInv
  <2>3. m = pending[Len(pending) - Len(wire) + 1]
    BY <1>1, <1>4 DEF WireInv
  <2>4. owes' # 0 => owes' = pending'[Len(acks') + 1]
    <3>1. acking => Len(pending) - Len(wire) = Len(acks)
      BY <1>1, <1>4 DEF WireInv
    <3> QED BY <1>1, <2>1, <2>3, <3>1
  <2>5. ASSUME NEW i \in 1 .. Len(wire')
        PROVE  wire'[i] = pending'[Len(pending') - Len(wire') + i]
    <3>1. i + 1 \in 1 .. Len(wire)
          /\ Len(pending') - Len(wire') + i = Len(pending) - Len(wire) + (i + 1)
      BY <1>4, <2>1
    <3> QED BY <1>1, <1>4, <2>1, <3>1 DEF WireInv
  <2>6. ASSUME NEW i \in 1 .. Len(pending') - Len(wire')
        PROVE  pending'[i] \in Elems(got')
    <3>2. /\ Len(pending') - Len(wire') = (Len(pending) - Len(wire)) + 1
          /\ Len(pending) - Len(wire) \in Int
      BY <1>4, <2>1
    <3>1. i \in 1 .. Len(pending) - Len(wire) \/ i = Len(pending) - Len(wire) + 1
      BY <2>6, <3>2
    <3> QED BY <1>1, <1>3, <2>1, <2>3, <3>1 DEF WireInv
  <2>7. Elems(got') \subseteq 1 .. sent'
    BY <1>1, <1>3, <1>5, <2>1 DEF WireInv
  <2>8. Below(Elems(got'), Elems(wire') \union Elems(buffer') \union Elems(channel'))
    <3>1. Below(Elems(got), Elems(wire') \union Elems(buffer') \union Elems(channel'))
      BY <1>1, <1>2, <2>1 DEF WireInv, Below
    <3>2. m \in Elems(pending)
      BY <1>1, <1>2, WireSuffix
    <3>3. Below({m}, Elems(wire') \union Elems(buffer') \union Elems(channel'))
      BY <1>1, <1>2, <2>1, <3>2 DEF HeldInv, Below
    <3> QED BY <1>3, <3>1, <3>3 DEF Below
  <2> QED BY <1>3, <2>2, <2>4, <2>5, <2>6, <2>7, <2>8 DEF WireInv
<1> QED BY <1>6, <1>7, <1>8, <1>9, <1>10 DEF SenderInv

LEMMA PeerAnswersStep == ASSUME SenderInv, PeerAnswers PROVE SenderInv'
<1>1. /\ TypeOK /\ HeldInv /\ QuietInv /\ AnswersInv /\ WireInv
      /\ socket = "sound" /\ owes \in Message /\ owes # 0 /\ Due = 1
      /\ acks \in Seq(Message) /\ pending \in Seq(Message) /\ wire \in Seq(Message)
      /\ acks' = Append(acks, owes) /\ owes' = 0 /\ Due' = 0
      /\ UNCHANGED <<caller, channel, task, socket, wire, breaks, acking, got, reached>>
  BY DEF SenderInv, TypeOK, PeerAnswers, Due
<1>2. /\ acks' \in Seq(Message) /\ Len(acks') = Len(acks) + 1
      /\ acks'[Len(acks) + 1] = owes /\ \A i \in 1 .. Len(acks) : acks'[i] = acks[i]
      /\ Len(pending) \in Nat /\ Len(wire) \in Nat /\ Len(acks) \in Nat
  BY <1>1, AppendProperties, LenProperties
<1>3. /\ Len(acks) + 1 \in 1 .. Len(pending) - Len(wire)
      /\ owes = pending[Len(acks) + 1] /\ owes \in Elems(got)
  <2>1. Len(acks) + 1 \in 1 .. Len(pending) - Len(wire)
    BY <1>1, <1>2 DEF WireInv
  <2> QED BY <1>1, <2>1 DEF WireInv
<1>4. TypeOK'
  BY <1>1, <1>2 DEF TypeOK, caller, task
<1>5. HeldInv'
  BY <1>1 DEF HeldInv, caller, task
<1>6. QuietInv'
  BY <1>1 DEF QuietInv, task
<1>7. AnswersInv'
  <2>1. ASSUME NEW i \in 1 .. Len(acks')
        PROVE  acks'[i] = pending[i] /\ acks'[i] \in Elems(got)
    <3>1. i \in 1 .. Len(acks) \/ i = Len(acks) + 1
      BY <1>2
    <3> QED BY <1>1, <1>2, <1>3, <3>1 DEF AnswersInv
  <2> QED BY <1>1, <1>2, <1>3, <2>1 DEF AnswersInv, task
<1>8. WireInv'
  BY <1>1, <1>2 DEF WireInv, caller, task
<1> QED BY <1>4, <1>5, <1>6, <1>7, <1>8 DEF SenderInv

LEMMA SenderStep == SenderInv /\ [Next]_vars => SenderInv'
<1> SUFFICES ASSUME SenderInv, [Next]_vars PROVE SenderInv'
  OBVIOUS
<1>1. CASE Send
  BY <1>1, SendStep
<1>2. CASE SendPanics \/ \E m \in Message : Cancel(m)
  BY <1>2, SendPanicsStep, CancelStep
<1>3. CASE Connect
  BY <1>3, ConnectStep
<1>4. CASE ConnectFails \/ TimerFires \/ TimerPanics \/ Written
  BY <1>4, PhaseStep, PanicStep
<1>5. CASE Drain
  BY <1>5, DrainStep
<1>6. CASE SkipCancelled
  BY <1>6, SkipStep
<1>7. CASE Write
  BY <1>7, WriteStep
<1>8. CASE WriteFails \/ ReadFails
  BY <1>8, FailStep DEF WriteFails, ReadFails
<1>9. CASE Accept
  BY <1>9, AcceptStep
<1>10. CASE TakeAck
  BY <1>10, TakeAckStep
<1>11. CASE Break
  BY <1>11, BreakStep
<1>12. CASE PeerNext
  BY <1>12, PeerReadsStep, PeerAnswersStep DEF PeerNext
<1>13. CASE UNCHANGED vars
  <2>1. TypeOK'
    BY <1>13 DEF SenderInv, TypeOK, vars, caller, task, net, peer
  <2>2. HeldInv' /\ QuietInv' /\ AnswersInv'
    BY <1>13 DEF SenderInv, HeldInv, QuietInv, AnswersInv, vars, caller, task, net, peer
  <2>3. socket' = "sound" => WireInv'
    BY <1>13 DEF SenderInv, WireInv, Due, vars, caller, task, net, peer
  <2> QED BY <2>1, <2>2, <2>3 DEF SenderInv
<1> QED BY <1>1, <1>2, <1>3, <1>4, <1>5, <1>6, <1>7, <1>8, <1>9, <1>10, <1>11,
            <1>12, <1>13 DEF Next, TaskNext

LEMMA SenderInvariant == Spec => []SenderInv
BY SenderInit, SenderStep, PTL DEF Spec

\* Nothing but the panic of the task loses a message.
OnlyPanicLoses == phase # "dead" => \A m \in Message : handlers[m] # "lost"

LEMMA LossInvariant == Spec => []OnlyPanicLoses
<1>1. Init => OnlyPanicLoses
  BY DEF Init, OnlyPanicLoses
<1>2. SenderInv /\ OnlyPanicLoses /\ [Next]_vars => OnlyPanicLoses'
  <2> SUFFICES ASSUME SenderInv, OnlyPanicLoses, [Next]_vars, phase' # "dead"
               PROVE  \A m \in Message : handlers'[m] # "lost"
    BY DEF OnlyPanicLoses
  <2>1. CASE SendPanics \/ \E m \in Message : Cancel(m)
    BY <2>1 DEF SendPanics, Cancel, SenderInv, TypeOK, OnlyPanicLoses, task
  <2>2. CASE TakeAck
    BY <2>2 DEF TakeAck, Closed, SenderInv, TypeOK, OnlyPanicLoses
  <2>3. CASE TimerPanics
    BY <2>3 DEF TimerPanics
  <2>4. CASE UNCHANGED handlers /\ phase # "dead"
    BY <2>4 DEF OnlyPanicLoses
  <2>5. CASE Send \/ PeerNext \/ Break \/ UNCHANGED vars
    BY <2>5 DEF Send, PeerNext, PeerReads, PeerAnswers, Break, OnlyPanicLoses,
                vars, caller, task
  <2>6. CASE \/ Connect \/ ConnectFails \/ TimerFires \/ Drain \/ SkipCancelled
             \/ Write \/ WriteFails \/ Written \/ Accept \/ ReadFails
    BY <2>4, <2>6 DEF Connect, ConnectFails, TimerFires, Drain, SkipCancelled, Write,
                WriteFails, Written, Accept, ReadFails, Fail, caller
  <2> QED BY <2>1, <2>2, <2>3, <2>5, <2>6 DEF Next, TaskNext
<1> QED BY <1>1, <1>2, SenderInvariant, PTL DEF Spec
-----------------------------------------------------------------------------
\* The task, the socket, the peer and the caller keep their types, and every
\* sequence holds messages only (reliable_sender.rs:107-127).
THEOREM SenderTyped == Spec => []TypeOK
<1>1. SenderInv => TypeOK
  BY DEF SenderInv
<1> QED BY <1>1, SenderInvariant, PTL

\* However often the connection breaks, and whatever is cancelled meanwhile, the
\* task holds each message whose handler waits once, in the order of sending; if
\* it panics, all it holds is dropped, and no handler waits any more
\* (reliable_sender.rs:118, 122, 127-136, 145-178, 188-247).
THEOREM NothingIsLost == Spec => []NothingLost
<1>1. ASSUME SenderInv PROVE NothingLost
  <2>1. {pending, buffer, channel} \subseteq Seq(Message) /\ HeldInv
    BY <1>1 DEF SenderInv, TypeOK
  <2>2. pending \o buffer \in Seq(Message) /\ Sorted(pending \o buffer)
        /\ Elems(pending \o buffer) = Elems(pending) \union Elems(buffer)
    BY <2>1, ConcatFacts DEF HeldInv
  <2>3. Sorted(Held) /\ Elems(Held) = Elems(pending) \union Elems(buffer) \union Elems(channel)
    <3>1. Below(Elems(pending \o buffer), Elems(channel))
      BY <2>1, <2>2 DEF HeldInv, Below
    <3>2. (pending \o buffer) \o channel = Held
      BY DEF Held
    <3> QED BY <2>1, <2>2, <3>1, <3>2, ConcatFacts DEF HeldInv
  <2>4. \A m \in 1 .. sent : handlers[m] = "waiting" => m \in Elems(Held)
    BY <2>1, <2>3 DEF HeldInv
  <2>5. phase = "dead" => Held = <<>>
    BY <1>1, ConcatEmptySeq, EmptySeq DEF SenderInv, QuietInv, Held
  <2> QED BY <2>3, <2>4, <2>5 DEF NothingLost, Sorted, Elems
<1> QED BY <1>1, SenderInvariant, PTL

\* An answer, which carries no name, is for the message written first of those
\* pending, whichever messages were cancelled, and whichever connections broke
\* before (reliable_sender.rs:221-228).
THEOREM AnswersMatch == Spec => []AcksMatch
<1>1. SenderInv => AcksMatch
  <2> SUFFICES ASSUME SenderInv, NEW i \in 1 .. Len(acks)
               PROVE  i <= Len(pending) /\ acks[i] = pending[i]
    BY DEF AcksMatch
  <2>1. Len(acks) \in Nat /\ Len(pending) \in Nat
    BY LenProperties DEF SenderInv, TypeOK
  <2> QED BY <2>1 DEF SenderInv, AnswersInv
<1> QED BY <1>1, SenderInvariant, PTL
-----------------------------------------------------------------------------
\* What the peer reads next is the next message of the link: all between it and
\* the message read last is settled.
LEMMA ReadDelivers ==
    ASSUME SenderInv, PeerReads
    PROVE  \E m \in 1 .. Messages : Link!Deliver(m)
<1> DEFINE m == Head(wire)
<1>1. /\ TypeOK /\ HeldInv /\ WireInv /\ {wire, got, pending} \subseteq Seq(Message)
      /\ wire # <<>> /\ got' = Append(got, m) /\ UNCHANGED <<phase, sent, handlers>>
      /\ sent \in Nat /\ 1 .. sent \subseteq Nat
  BY DEF SenderInv, TypeOK, PeerReads, caller, task
<1>2. /\ m \in Message /\ m \in Elems(wire) /\ Elems(wire) \subseteq Elems(pending)
      /\ \A x \in Elems(wire) : m <= x
  <2>1. /\ m \in Message /\ Elems(wire) = {m} \union Elems(Tail(wire))
        /\ Below({m}, Elems(Tail(wire))) /\ Elems(wire) \subseteq Elems(pending)
        /\ Elems(wire) \subseteq Nat
    BY <1>1, TailFacts, WireSuffix, ElemsType
  <2> QED BY <2>1 DEF Below
<1>3. m \in 1 .. sent
  BY <1>1, <1>2 DEF HeldInv
<1> HIDE DEF m
<1>4. /\ Link!Last \in Nat /\ Link!Last < m
      /\ \A x \in Elems(got) : x <= Link!Last
  <2>1. CASE got = <<>>
    BY <1>2, <1>3, <2>1, EmptyFacts DEF Link!Last
  <2>2. CASE got # <<>>
    <3>1. Len(got) \in Nat /\ Len(got) \in 1 .. Len(got) /\ Link!Last = got[Len(got)]
      BY <1>1, <2>2, LenProperties, EmptySeq DEF Link!Last
    <3>2. Link!Last \in Elems(got) /\ Link!Last \in Nat /\ Elems(got) \subseteq Nat
      BY <1>1, <3>1, ElemsType DEF Elems
    <3>3. Link!Last < m
      BY <1>1, <1>2, <3>2 DEF WireInv, Below
    <3>4. ASSUME NEW i \in 1 .. Len(got) PROVE got[i] <= Link!Last
      <4>1. got[i] \in Nat
        BY <3>2 DEF Elems
      <4>2. i = Len(got) \/ i < Len(got)
        BY <3>1
      <4>3. i < Len(got) => got[i] < got[Len(got)]
        BY <1>1, <3>1 DEF WireInv, Sorted
      <4> HIDE DEF Link!Last
      <4> QED BY <3>1, <3>2, <4>1, <4>2, <4>3
    <3> QED BY <3>2, <3>3, <3>4 DEF Elems
  <2> QED BY <2>1, <2>2
<1>5. ASSUME NEW j \in Link!Last + 1 .. m - 1, handlers[j] = "waiting" PROVE FALSE
  <2>1. j \in 1 .. sent /\ j < m /\ ~ (j <= Link!Last)
    BY <1>1, <1>3, <1>4
  <2>2. j \in Elems(pending) \union Elems(buffer) \union Elems(channel)
    BY <1>1, <1>5, <2>1 DEF HeldInv
  <2>3. j \in Elems(pending)
    <3>1. \A x \in Elems(buffer) \union Elems(channel) : m < x
      BY <1>1, <1>2 DEF HeldInv, Below
    <3> QED BY <1>1, <1>3, <2>1, <2>2, <3>1
  <2>4. PICK i \in 1 .. Len(pending) : pending[i] = j
    BY <2>3 DEF Elems
  <2>5. j \notin Elems(got) /\ j \notin Elems(wire)
    BY <1>2, <1>3, <1>4, <2>1
  <2>6. Len(pending) \in Nat /\ Len(wire) \in Nat
    BY <1>1, LenProperties
  <2>7. CASE i \in 1 .. Len(pending) - Len(wire)
    BY <1>1, <2>4, <2>5, <2>7 DEF WireInv
  <2>8. CASE i \notin 1 .. Len(pending) - Len(wire)
    <3>1. /\ i - (Len(pending) - Len(wire)) \in 1 .. Len(wire)
          /\ i = Len(pending) - Len(wire) + (i - (Len(pending) - Len(wire)))
      BY <2>6, <2>8
    <3>2. wire[i - (Len(pending) - Len(wire))] = pending[i]
      BY <1>1, <3>1 DEF WireInv
    <3> QED BY <2>4, <2>5, <3>1, <3>2 DEF Elems
  <2> QED BY <2>7, <2>8
<1>6. Link!Deliver(m)
  BY <1>1, <1>3, <1>4, <1>5 DEF Link!Deliver
<1> QED BY <1>2, <1>6 DEF Message

\* An answer resolves a message the peer has read, or nobody is notified.
LEMMA AckResolves ==
    ASSUME SenderInv, OnlyPanicLoses, TakeAck
    PROVE  \/ \E m \in 1 .. Messages : Link!Resolve(m)
           \/ UNCHANGED <<sent, handlers, got>>
<1> USE DEF Handler
<1> DEFINE m == Head(pending)
<1>1. /\ TypeOK /\ AnswersInv /\ {pending, acks} \subseteq Seq(Message)
      /\ acks # <<>> /\ pending # <<>> /\ UNCHANGED <<sent, got>>
      /\ phase # "dead" /\ phase' # "dead"
      /\ handlers' = [handlers EXCEPT ![m] = IF Closed(m) THEN @ ELSE "acked"]
  BY DEF SenderInv, TypeOK, TakeAck, Resolved, peer
<1>2. m \in Message /\ m = pending[1] /\ 1 \in 1 .. Len(acks)
  BY <1>1, HeadTailProperties, LenProperties, EmptySeq
<1>3. m \in Elems(got)
  BY <1>1, <1>2 DEF AnswersInv
<1> HIDE DEF m
<1>4. handlers \in [Message -> Handler]
  BY <1>1 DEF TypeOK
<1>5. CASE handlers[m] = "waiting"
  <2>1. Link!Resolve(m)
    BY <1>1, <1>2, <1>3, <1>5 DEF Link!Resolve, Closed, Elems
  <2> QED BY <1>2, <2>1 DEF Message
<1>6. CASE handlers[m] # "waiting"
  <2>1. handlers' = handlers
    <3>1. handlers[m] \in {"acked", "cancelled"}
      BY <1>1, <1>2, <1>4, <1>6 DEF OnlyPanicLoses
    <3> QED BY <1>1, <1>2, <1>4, <3>1 DEF Closed
  <2> QED BY <1>1, <2>1
<1> QED BY <1>5, <1>6

\* A link that has given up is one whose task has panicked.
Up == phase # "dead"

LEMMA LinkStep ==
    SenderInv /\ OnlyPanicLoses /\ [Next]_vars => [Link!Next]_<<Up, sent, handlers, got>>
<1> SUFFICES ASSUME SenderInv, OnlyPanicLoses, [Next]_vars
             PROVE  [Link!Next]_<<Up, sent, handlers, got>>
  OBVIOUS
<1>1. CASE Send
  BY <1>1 DEF Send, Link!Send, Link!Next, Up, task, peer
<1>2. ASSUME NEW m \in Message, Cancel(m) PROVE Link!Next
  <2>1. Link!Cancel(m)
    BY <1>2 DEF Cancel, Link!Cancel, task, peer
  <2>2. phase # "dead"
    <3>1. m \in 1 .. sent /\ handlers[m] = "waiting"
      BY <1>2 DEF Cancel, SenderInv, TypeOK, Message
    <3> QED BY <3>1, EmptyFacts DEF SenderInv, HeldInv, QuietInv
  <2> QED BY <2>1, <2>2 DEF Link!Next, Message
<1>3. CASE Connect
  BY <1>3 DEF Connect, Link!Reconnect, Link!Next, caller
<1>4. CASE SendPanics \/ ConnectFails \/ TimerFires \/ Written \/ Drain \/ SkipCancelled
           \/ Write \/ WriteFails \/ ReadFails \/ Accept \/ Break \/ PeerAnswers
  <2>1. UNCHANGED <<Up, sent, handlers, got>>
    BY <1>4 DEF SendPanics, ConnectFails, TimerFires, Written, Drain, SkipCancelled, Write,
                WriteFails, ReadFails, Fail, Accept, Break, PeerAnswers, Up,
                caller, task, peer
  <2> QED BY <2>1
<1>5. CASE TimerPanics
  BY <1>5 DEF TimerPanics, Link!GiveUp, Link!Next, Message, peer
<1>6. CASE TakeAck
  <2>1. phase # "dead" /\ phase' # "dead"
    BY <1>6 DEF TakeAck
  <2> QED BY <1>6, <2>1, AckResolves DEF Link!Next, Up
<1>7. CASE PeerReads
  <2>1. phase # "dead"
    BY <1>7 DEF PeerReads, SenderInv, QuietInv
  <2> QED BY <1>7, <2>1, ReadDelivers DEF Link!Next
<1>8. CASE UNCHANGED vars
  BY <1>8 DEF vars, Up, caller, task, peer
<1> QED BY <1>1, <1>2, <1>3, <1>4, <1>5, <1>6, <1>7, <1>8 DEF Next, TaskNext, PeerNext

\* The connection implements the reliable link: each connection gives the peer,
\* in order, all that was neither answered nor cancelled, and a handler is
\* notified only of what the peer has read (reliable_sender.rs:145-247).
THEOREM SenderImplementsLink == Spec => ImplementsLink
<1>1. Init => Link!Init
  BY DEF Init, Link!Init, Message
<1>2. SenderInv /\ OnlyPanicLoses /\ [Next]_vars
      => [Link!Next]_<<phase # "dead", sent, handlers, got>>
  BY LinkStep DEF Up
<1> QED BY <1>1, <1>2, SenderInvariant, LossInvariant, PTL DEF Spec, ImplementsLink, Link!Spec
=============================================================================
