-------------------------- MODULE NeroSafetyProofs --------------------------
(***************************************************************************)
(* First, Inv is inductive: one lemma for each of its parts that a step of *)
(* the shape of NeroCoreProofs can disturb; those about ViewInv stand by   *)
(* themselves, for NeroRestartProofs.  Second, Inv implies the safety      *)
(* properties of NeroCore.  The argument is about worlds, sets of votes    *)
(* all of which, after round 0, are what the rule makes of a quorum of     *)
(* votes of the round before: two such quorums have more votes in common   *)
(* than F. What one node that follows the rule validated is a world, and   *)
(* so is what all of them validated together.  Third, the core implements  *)
(* Consensus.                                                              *)
(***************************************************************************)
EXTENDS NeroCoreProofs

\* A set of nodes all of which signed votes of S is no larger than S.
LEMMA NoMoreSigners ==
    ASSUME NEW S, IsFiniteSet(S), NEW P, P \subseteq {Digest(w) : w \in S}
    PROVE  IsFiniteSet(P) /\ Cardinality(P) <= Cardinality(S)
<1> DEFINE T == {w \in S : Digest(w) \in P}
           f == [w \in T |-> Digest(w)]
<1>1. IsFiniteSet(T) /\ Cardinality(T) <= Cardinality(S)
  BY FS_Subset
<1>2. f \in Surjection(T, P)
  BY DEF Surjection
<1>3. IsFiniteSet(P) /\ Cardinality(P) <= Cardinality(T)
  BY <1>1, <1>2, FS_Surjection
<1>4. /\ Cardinality(P) \in Nat /\ Cardinality(T) \in Nat /\ Cardinality(S) \in Nat
  BY <1>1, <1>3, FS_CardinalityType
<1> QED BY <1>1, <1>3, <1>4

\* As many signers as votes, when no two votes of S have one signer.
LEMMA AsManySigners ==
    ASSUME NEW S, IsFiniteSet(S), \A v, w \in S : v.signer = w.signer => v = w
    PROVE  Cardinality({v.signer : v \in S}) = Cardinality(S)
<1> DEFINE P == {v.signer : v \in S}
           f == [v \in S |-> v.signer]
<1>1. f \in Surjection(S, P) /\ f \in Injection(S, P)
  BY DEF Surjection, Injection, IsInjective
<1>2. IsFiniteSet(P) /\ Cardinality(P) <= Cardinality(S)
  BY <1>1, FS_Surjection
<1>3. Cardinality(S) <= Cardinality(P)
  BY <1>1, <1>2, FS_Injection
<1>4. Cardinality(P) \in Nat /\ Cardinality(S) \in Nat
  BY <1>2, FS_CardinalityType
<1> QED BY <1>2, <1>3, <1>4

LEMMA AtMostOneSize ==
    ASSUME NEW S, AtMostOne(S)
    PROVE  IsFiniteSet(S) /\ Cardinality(S) \in Nat /\ Cardinality(S) <= 1
           /\ S \subseteq Vote
BY FS_Singleton, FS_EmptySet DEF AtMostOne

\* What a step of the shape adds, and what it keeps.
LEMMA ShapeFacts ==
    ASSUME NEW n, NEW e, NEW r, NEW heard, NEW own, NEW cast,
           Shape(n, e, r, heard, own, cast)
    PROVE  /\ n \in Node /\ e \in Election /\ r \in Round /\ r \in Nat
           /\ TypeOK'
           /\ msgs' = msgs \union (own \union cast)
           \* the votes cast are new
           /\ \A w \in own \union cast :
                 /\ w \in Vote /\ w.signer = n /\ w.election_hash = e
                 /\ w.round \in Round
                 /\ ~elections[n][e].state[w.round].voted
                 /\ w \in Validated(n, e, w.round)'
                 /\ elections'[n][e].state[w.round].voted
           /\ \A w \in own : w.round = 0
           /\ \A w \in cast : w.round = r + 1
           /\ \A u, w \in own \union cast : u.round = w.round => u = w
           \* nothing is lost
           /\ \A m \in Node, f \in Election, q \in Round :
                 /\ Validated(m, f, q) \subseteq Validated(m, f, q)'
                 /\ elections[m][f].state[q].voted => elections'[m][f].state[q].voted
           /\ \A m \in Node, f \in Election :
                 elections[m][f].is_decided => elections'[m][f].is_decided
           \* and nothing changes elsewhere
           /\ \A m \in Node, f \in Election, q \in Round :
                 m # n \/ f # e => /\ Validated(m, f, q)' = Validated(m, f, q)
                                   /\ elections'[m][f] = elections[m][f]
                                   /\ decided'[m][f] = decided[m][f]
<1> DEFINE new == heard \union own \union cast
<1>1. /\ n \in Node /\ e \in Election /\ r \in Round /\ r \in Nat
      /\ TypeOK' /\ msgs' = msgs \union (own \union cast)
  BY DEF Shape, Frame, Round
<1>2. /\ AtMostOne(own) /\ AtMostOne(cast) /\ AtMostOne(heard)
      /\ OwnOK(n, e, r, own) /\ CastOK(n, e, r, cast)
      /\ Enters(n, e, new) /\ Marks(n, e, own \union cast)
      /\ Decides(n, e, cast)
      /\ \A m \in Node, f \in Election : m # n \/ f # e =>
            elections'[m][f] = elections[m][f] /\ decided'[m][f] = decided[m][f]
  BY DEF Shape, Frame
<1>3. 0 \in Round
  BY BoundAssumption DEF Round
<1>4. \A w \in own : /\ w \in Vote /\ w.signer = n /\ w.election_hash = e
                     /\ w.round = 0
                     /\ ~elections[n][e].state[w.round].voted
  BY <1>2, AtMostOneSize DEF OwnOK
<1>5. \A w \in cast : /\ w \in Vote /\ w.signer = n /\ w.election_hash = e
                      /\ w.round = r + 1 /\ r + 1 \in Round
                      /\ ~elections[n][e].state[w.round].voted
  BY <1>2, AtMostOneSize DEF CastOK
<1>6. \A w \in own \union cast : /\ w \in Validated(n, e, w.round)'
                                 /\ elections'[n][e].state[w.round].voted
  BY <1>2, <1>3, <1>4, <1>5 DEF Enters, Marks
<1>7. \A u, w \in own \union cast : u.round = w.round => u = w
  BY <1>1, <1>2, <1>4, <1>5 DEF AtMostOne
<1>8. ASSUME NEW m \in Node, NEW f \in Election, NEW q \in Round, m # n \/ f # e
      PROVE  Validated(m, f, q)' = Validated(m, f, q)
  BY <1>2, <1>8 DEF Validated
<1>9. ASSUME NEW q \in Round
      PROVE  /\ Validated(n, e, q) \subseteq Validated(n, e, q)'
             /\ elections[n][e].state[q].voted => elections'[n][e].state[q].voted
  BY <1>2 DEF Enters, Marks
<1>10. elections[n][e].is_decided => elections'[n][e].is_decided
  BY <1>2 DEF Decides
<1>11. \A m \in Node, f \in Election, q \in Round :
           /\ Validated(m, f, q) \subseteq Validated(m, f, q)'
           /\ elections[m][f].state[q].voted => elections'[m][f].state[q].voted
  BY <1>2, <1>8, <1>9
<1>12. \A m \in Node, f \in Election :
           elections[m][f].is_decided => elections'[m][f].is_decided
  BY <1>2, <1>10
<1>13. \A w \in own \union cast :
           /\ w \in Vote /\ w.signer = n /\ w.election_hash = e /\ w.round \in Round
           /\ ~elections[n][e].state[w.round].voted
  BY <1>3, <1>4, <1>5
<1>14. (\A w \in own : w.round = 0) /\ (\A w \in cast : w.round = r + 1)
  BY <1>4, <1>5
<1> QED BY <1>1, <1>2, <1>6, <1>7, <1>8, <1>11, <1>12, <1>13, <1>14
-----------------------------------------------------------------------------
\* The node still holds nothing but votes broadcast for the round.
LEMMA KeepsViews ==
    ASSUME ViewInv, NEW n, NEW e, NEW r, NEW heard, NEW own, NEW cast,
           Shape(n, e, r, heard, own, cast)
    PROVE  ViewsAreVotes'
<1> DEFINE new == heard \union own \union cast
<1> USE DEF ViewsAreVotes
<1>1. ViewsAreVotes
  BY DEF ViewInv, VotesInv
<1>2. /\ msgs' = msgs \union (own \union cast)
      /\ \A w \in own \union cast : w.election_hash = e
      /\ \A m \in Node, f \in Election, q \in Round :
            m # n \/ f # e => Validated(m, f, q)' = Validated(m, f, q)
  BY ShapeFacts
<1>3. /\ Enters(n, e, new) /\ HeardOK(n, e, r, heard)
      /\ AtMostOne(heard) /\ AtMostOne(own) /\ AtMostOne(cast)
      /\ n \in Node /\ e \in Election
  BY DEF Shape
<1>4. IsFiniteSet(new)
  <2>1. IsFiniteSet(heard) /\ IsFiniteSet(own) /\ IsFiniteSet(cast)
    BY <1>3, AtMostOneSize
  <2> QED BY <2>1, FS_Union
<1>5. \A v \in new : v \in msgs' /\ v.election_hash = e
  BY <1>2, <1>3 DEF HeardOK
<1>6. ASSUME NEW q \in Round
      PROVE  /\ IsFiniteSet(Validated(n, e, q)')
             /\ \A w \in Validated(n, e, q)' :
                   w \in msgs' /\ w.round = q /\ w.election_hash = e
  <2> DEFINE add == {v \in new : v.round = q}
  <2>1. Validated(n, e, q)' = Validated(n, e, q) \union add
    BY <1>3 DEF Enters
  <2>2. IsFiniteSet(Validated(n, e, q)) /\ IsFiniteSet(add)
    <3>1. add \subseteq new
      OBVIOUS
    <3> QED BY <1>1, <1>3, <1>4, <3>1, FS_Subset
  <2>3. IsFiniteSet(Validated(n, e, q)')
    BY <2>1, <2>2, FS_Union
  <2>4. \A w \in Validated(n, e, q) : w \in msgs' /\ w.round = q /\ w.election_hash = e
    BY <1>1, <1>2, <1>3
  <2> QED BY <1>5, <2>1, <2>3, <2>4
<1>7. ASSUME NEW m \in Node, NEW f \in Election, NEW q \in Round, m # n \/ f # e
      PROVE  /\ IsFiniteSet(Validated(m, f, q)')
             /\ \A w \in Validated(m, f, q)' :
                   w \in msgs' /\ w.round = q /\ w.election_hash = f
  BY <1>1, <1>2, <1>7
<1>8. ASSUME NEW m \in Node, NEW f \in Election, NEW q \in Round
      PROVE  /\ IsFiniteSet(Validated(m, f, q)')
             /\ \A w \in Validated(m, f, q)' :
                   w \in msgs' /\ w.round = q /\ w.election_hash = f
  BY <1>6, <1>7
<1> QED BY <1>8

\* The signer of a vote still holds it.
LEMMA KeepsOwnVotes ==
    ASSUME Inv, NEW n, NEW e, NEW r, NEW heard, NEW own, NEW cast,
           Shape(n, e, r, heard, own, cast)
    PROVE  OwnVotesKept'
<1> SUFFICES ASSUME NEW v \in msgs'
             PROVE  /\ v \in Validated(v.signer, v.election_hash, v.round)'
                    /\ elections'[v.signer][v.election_hash].state[v.round].voted
  BY DEF OwnVotesKept
<1>1. CASE v \in msgs
  <2>1. /\ v \in Validated(v.signer, v.election_hash, v.round)
        /\ elections[v.signer][v.election_hash].state[v.round].voted
    BY <1>1 DEF Inv, OwnVotesKept
  <2>2. v.signer \in Node /\ v.election_hash \in Election /\ v.round \in Round
    BY <1>1, VoteFacts DEF Inv, ViewInv, VotesInv, TypeOK
  <2> QED BY <2>1, <2>2, ShapeFacts
<1>2. CASE v \in own \union cast
  BY <1>2, ShapeFacts
<1> QED BY <1>1, <1>2, ShapeFacts

\* A round is still marked as voted just when it holds a vote of the node.
LEMMA KeepsVoted ==
    ASSUME ViewInv, NEW n, NEW e, NEW r, NEW heard, NEW own, NEW cast,
           Shape(n, e, r, heard, own, cast)
    PROVE  VotedHasVote'
<1> SUFFICES ASSUME NEW m \in Node, NEW f \in Election, NEW q \in Round
             PROVE  elections'[m][f].state[q].voted <=>
                        \E w \in Validated(m, f, q)' : w.signer = m
  BY DEF VotedHasVote
<1>1. elections[m][f].state[q].voted <=> \E w \in Validated(m, f, q) : w.signer = m
  BY DEF ViewInv, VotesInv, VotedHasVote
<1>2. CASE m # n \/ f # e
  BY <1>1, <1>2, ShapeFacts
<1>3. CASE m = n /\ f = e
  <2>1. /\ elections'[n][e].state[q].voted <=>
               elections[n][e].state[q].voted \/ \E w \in own \union cast : w.round = q
        /\ Validated(n, e, q)' =
               Validated(n, e, q) \union {w \in heard \union own \union cast : w.round = q}
    BY DEF Shape, Marks, Enters
  <2>2. /\ \A w \in heard : w.signer # n
        /\ \A w \in own \union cast : w.signer = n
    BY ShapeFacts DEF Shape, HeardOK
  <2> QED BY <1>1, <1>3, <2>1, <2>2
<1> QED BY <1>2, <1>3

\* A node still holds one vote of each signer in a round.
LEMMA KeepsHeldOnce ==
    ASSUME ViewInv, NEW n, NEW e, NEW r, NEW heard, NEW own, NEW cast,
           Shape(n, e, r, heard, own, cast)
    PROVE  HeldOnce'
<1> SUFFICES ASSUME NEW m \in Node, NEW f \in Election, NEW q \in Round,
                    NEW v \in Validated(m, f, q)', NEW w \in Validated(m, f, q)',
                    v.signer = w.signer
             PROVE  v = w
  BY DEF HeldOnce
<1> DEFINE mine == own \union cast
<1>1. \A u, x \in Validated(m, f, q) : u.signer = x.signer => u = x
  BY DEF ViewInv, VotesInv, HeldOnce
<1>2. CASE m # n \/ f # e
  BY <1>1, <1>2, ShapeFacts
<1>3. CASE m = n /\ f = e
  <2>1. Validated(n, e, q)' =
            Validated(n, e, q) \union {u \in heard \union own \union cast : u.round = q}
    BY DEF Shape, Enters
  <2>2. \A u \in heard : u.signer # n /\ u.round = r
                         /\ \A x \in Validated(n, e, r) : x.signer # u.signer
    BY DEF Shape, HeardOK
  <2>3. \A u, x \in heard : u = x
    BY DEF Shape, AtMostOne
  <2>4. \A u \in mine : u.signer = n /\ ~elections[n][e].state[u.round].voted
    BY ShapeFacts
  <2>5. \A u, x \in mine : u.round = x.round => u = x
    BY ShapeFacts
  <2>6. \A u \in mine : u.round = q => \A x \in Validated(n, e, q) : x.signer # n
    BY <1>3, <2>4 DEF ViewInv, VotesInv, VotedHasVote
  <2> HIDE DEF mine
  <2>7. ASSUME NEW u \in Validated(n, e, q)'
        PROVE  \/ u \in Validated(n, e, q)
               \/ u \in heard /\ u.round = q
               \/ u \in mine /\ u.round = q
    BY <2>1 DEF mine
  <2>8. CASE v \in Validated(n, e, q)
    BY <1>1, <1>3, <2>2, <2>4, <2>6, <2>7, <2>8
  <2>9. CASE v \in heard /\ v.round = q
    BY <1>3, <2>2, <2>3, <2>4, <2>7, <2>9
  <2>10. CASE v \in mine /\ v.round = q
    BY <1>3, <2>2, <2>4, <2>5, <2>6, <2>7, <2>10
  <2> QED BY <1>3, <2>7, <2>8, <2>9, <2>10
<1> QED BY <1>2, <1>3

\* A vote of its own that a node comes to hold it has just cast.
LEMMA OwnVotesCast ==
    ASSUME NEW n, NEW e, NEW r, NEW heard, NEW own, NEW cast,
           Shape(n, e, r, heard, own, cast)
    PROVE  \A m \in Node, f \in Election, q \in Round : \A v \in OwnVotesOf(m, f, q)' :
              \/ v \in OwnVotesOf(m, f, q)
              \/ /\ m = n /\ f = e /\ v \in own \union cast
                 /\ v.round = q /\ v.signer = m
<1> SUFFICES ASSUME NEW m \in Node, NEW f \in Election, NEW q \in Round,
                    NEW v \in Validated(m, f, q)', v.signer = m,
                    v \notin Validated(m, f, q)
             PROVE  m = n /\ f = e /\ v \in own \union cast /\ v.round = q
  BY DEF OwnVotesOf
<1>1. m = n /\ f = e
  BY ShapeFacts
<1>2. v \in heard \union own \union cast /\ v.round = q
  BY <1>1 DEF Shape, Enters
<1>3. v \notin heard
  BY <1>1 DEF Shape, HeardOK
<1> QED BY <1>1, <1>2, <1>3

\* A node still casts one vote in a round.
LEMMA KeepsOneVote ==
    ASSUME Inv, NEW n, NEW e, NEW r, NEW heard, NEW own, NEW cast,
           Shape(n, e, r, heard, own, cast)
    PROVE  NoEquivocation'
<1> DEFINE Same(v, w) == /\ v.signer = w.signer /\ v.round = w.round
                         /\ v.election_hash = w.election_hash
<1>1. ASSUME NEW v \in msgs, NEW w \in own \union cast
      PROVE  ~Same(v, w)
  <2>1. elections[v.signer][v.election_hash].state[v.round].voted
    BY DEF Inv, OwnVotesKept
  <2>2. /\ w.signer = n /\ w.election_hash = e
        /\ ~elections[n][e].state[w.round].voted
    BY ShapeFacts
  <2> QED BY <2>1, <2>2
<1>2. ASSUME NEW v \in msgs, NEW w \in msgs, Same(v, w)
      PROVE  v = w
  BY <1>2 DEF Inv, NoEquivocation
<1>3. ASSUME NEW v \in own \union cast, NEW w \in own \union cast, Same(v, w)
      PROVE  v = w
  BY <1>3, ShapeFacts
<1>4. msgs' = msgs \union (own \union cast)
  BY ShapeFacts
<1>5. \A v, w \in msgs' : Same(v, w) => v = w
  BY <1>1, <1>2, <1>3, <1>4
<1> QED BY <1>5 DEF NoEquivocation

\* The votes of round 0 are still initial votes, and a Decide still final.
LEMMA KeepsStartAndEnd ==
    ASSUME ViewInv, NEW n, NEW e, NEW r, NEW heard, NEW own, NEW cast,
           Shape(n, e, r, heard, own, cast)
    PROVE  StartsInitial' /\ DecideIsFinal'
<1>1. /\ msgs' = msgs \union (own \union cast) /\ r \in Nat
      /\ \A w \in own \union cast : w.signer = n /\ w.election_hash = e
      /\ \A w \in cast : w.round = r + 1
  BY ShapeFacts
<1>2. \A w \in own : w.vote_type = "InitialVote"
  BY DEF Shape, OwnOK
<1>3. StartsInitial'
  <2>1. \A v \in msgs : v.round = 0 => v.vote_type = "InitialVote"
    BY DEF ViewInv, VotesInv, StartsInitial
  <2> QED BY <1>1, <1>2, <2>1 DEF StartsInitial
<1>4. DecideIsFinal'
  <2> SUFFICES ASSUME NEW m \in Node, NEW f \in Election, NEW q \in Round,
                      NEW v \in OwnVotesOf(m, f, q)', v.vote_type = "Decide"
               PROVE  elections'[m][f].is_decided
    BY DEF DecideIsFinal
  <2>1. CASE v \in OwnVotesOf(m, f, q)
    <3>1. elections[m][f].is_decided
      BY <2>1 DEF ViewInv, RoundsInv, DecideIsFinal
    <3> QED BY <3>1, ShapeFacts
  <2>2. CASE m = n /\ f = e /\ v \in own \union cast
    <3>1. v \in cast
      BY <1>2, <2>2
    <3> QED BY <2>2, <3>1 DEF Shape, Decides
  <2> QED BY <2>1, <2>2, OwnVotesCast
<1> QED BY <1>3, <1>4

\* What is valid was made of a quorum of the round before, held by the node
\* that validates it, which has thus voted in the round or decided.
LEMMA HeardLate ==
    ASSUME ViewInv, NEW n \in Node, NEW e \in Election, NEW r \in Round, r > 0,
           NEW v, HeardOK(n, e, r, {v})
    PROVE  elections[n][e].state[r].voted \/ elections[n][e].is_decided
<1>1. /\ v \in msgs /\ v.round = r /\ v.election_hash = e
      /\ v.proof \subseteq {Digest(w) : w \in ProofVotes(n, v)}
  BY DEF HeardOK
<1>2. r - 1 \in Round \ {MaxRound} /\ (r - 1) + 1 = r
  BY BoundAssumption DEF Round
<1> DEFINE W == Validated(n, e, r - 1)
<1>3. IsFiniteSet(W)
  BY <1>2 DEF ViewInv, VotesInv, ViewsAreVotes
<1>4. v.proof \subseteq {Digest(w) : w \in W}
  BY <1>1 DEF ProofVotes
<1>5. Cardinality(v.proof) <= Cardinality(W)
  BY <1>3, <1>4, NoMoreSigners
<1>6. Cardinality(v.proof) = QUORUM
  BY <1>1 DEF ViewInv, RoundsInv, ProofsAreQuorums
<1>7. Cardinality(W) \in Nat /\ QUORUM \in Nat
  BY <1>3, FS_CardinalityType, FAssumption DEF QUORUM
<1>8. ~(Cardinality(W) < QUORUM)
  BY <1>5, <1>6, <1>7
<1> QED BY <1>2, <1>8 DEF ViewInv, RoundsInv, NoMissedAdvance

\* A node still validates votes of a round only once it has voted there.
LEMMA KeepsVotesFirst ==
    ASSUME ViewInv, NEW n, NEW e, NEW r, NEW heard, NEW own, NEW cast,
           Shape(n, e, r, heard, own, cast)
    PROVE  VotesFirst'
<1> SUFFICES ASSUME NEW m \in Node, NEW f \in Election, NEW q \in Round,
                    Validated(m, f, q)' # {}
             PROVE  elections'[m][f].state[q].voted \/ elections'[m][f].is_decided
  BY DEF VotesFirst
<1>1. n \in Node /\ e \in Election /\ r \in Round /\ r \in Nat
  BY ShapeFacts
<1>2. CASE Validated(m, f, q) # {}
  <2>1. elections[m][f].state[q].voted \/ elections[m][f].is_decided
    BY <1>2 DEF ViewInv, RoundsInv, VotesFirst
  <2> QED BY <2>1, ShapeFacts
<1>3. CASE Validated(m, f, q) = {}
  <2>1. m = n /\ f = e
    BY <1>3, ShapeFacts
  <2>2. PICK v \in heard \union own \union cast : v.round = q
    BY <1>3, <2>1 DEF Shape, Enters
  <2>3. CASE v \in own \union cast
    BY <2>1, <2>2, <2>3, ShapeFacts
  <2>4. CASE v \in heard /\ r = 0
    <3>1. v.round = r
      BY <2>4 DEF Shape, HeardOK
    <3> QED BY <2>1, <2>2, <2>4, <3>1 DEF Shape
  <2>5. CASE v \in heard /\ r > 0
    <3>1. HeardOK(n, e, r, {v}) /\ v.round = r
      BY <2>5 DEF Shape, HeardOK
    <3>2. elections[n][e].state[q].voted \/ elections[n][e].is_decided
      BY <1>1, <2>2, <2>5, <3>1, HeardLate
    <3> QED BY <2>1, <3>2, ShapeFacts
  <2> QED BY <1>1, <2>2, <2>3, <2>4, <2>5
<1> QED BY <1>2, <1>3

\* A node that casts a vote of the next round had less than a quorum of this
\* one before, and no vote of the next.
LEMMA BeforeCast ==
    ASSUME ViewInv, NEW n, NEW e, NEW r, NEW heard, NEW own, NEW cast,
           Shape(n, e, r, heard, own, cast), cast # {}
    PROVE  /\ r + 1 \in Round
           /\ Validated(n, e, r + 1) = {}
           /\ Cardinality(Validated(n, e, r)) < QUORUM
           /\ own # {} => Validated(n, e, r) = {}
<1>1. /\ n \in Node /\ e \in Election /\ r \in Round /\ r \in Nat
  BY ShapeFacts
<1>2. PICK v : v \in cast
  OBVIOUS
<1>3. /\ r + 1 \in Round /\ ~elections[n][e].state[r + 1].voted
      /\ ~elections[n][e].is_decided
  BY <1>2 DEF Shape, CastOK
<1>4. r \in Round \ {MaxRound}
  BY <1>1, <1>3, BoundAssumption DEF Round
<1>5. Cardinality(Validated(n, e, r)) < QUORUM
  BY <1>1, <1>3, <1>4 DEF ViewInv, RoundsInv, NoMissedAdvance
<1>6. Validated(n, e, r + 1) = {}
  BY <1>1, <1>3 DEF ViewInv, RoundsInv, VotesFirst
<1>7. ASSUME own # {}
      PROVE  Validated(n, e, r) = {}
  <2>1. r = 0 /\ ~elections[n][e].state[0].voted
    BY <1>7 DEF Shape, OwnOK
  <2> QED BY <1>1, <1>3, <2>1 DEF ViewInv, RoundsInv, VotesFirst
<1> QED BY <1>3, <1>5, <1>6, <1>7

\* Only the round of what is heard, and the next, change; in this the node
\* holds at most its own vote.
LEMMA OtherRounds ==
    ASSUME ViewInv, NEW n, NEW e, NEW r, NEW heard, NEW own, NEW cast,
           Shape(n, e, r, heard, own, cast)
    PROVE  /\ Validated(n, e, r)' = Validated(n, e, r) \union heard \union own
           /\ r + 1 \in Round =>
                 Validated(n, e, r + 1)' = Validated(n, e, r + 1) \union cast
           /\ \A q \in Round \ {r, r + 1} : Validated(n, e, q)' = Validated(n, e, q)
<1>1. /\ n \in Node /\ e \in Election /\ r \in Round /\ r \in Nat
      /\ \A w \in cast : w.round = r + 1
  BY ShapeFacts
<1>2. /\ \A w \in heard : w.round = r
      /\ \A w \in own : w.round = r
      /\ Enters(n, e, heard \union own \union cast)
  BY DEF Shape, HeardOK, OwnOK
<1>3. \A q \in Round : Validated(n, e, q)' =
          Validated(n, e, q) \union {v \in heard \union own \union cast : v.round = q}
  BY <1>2 DEF Enters
<1>4. {v \in heard \union own \union cast : v.round = r} = heard \union own
  BY <1>1, <1>2
<1>5. {v \in heard \union own \union cast : v.round = r + 1} = cast
  BY <1>1, <1>2
<1>6. ASSUME NEW q \in Round \ {r, r + 1}
      PROVE  {v \in heard \union own \union cast : v.round = q} = {}
  BY <1>1, <1>2
<1>7. \A q \in Round \ {r, r + 1} : Validated(n, e, q)' = Validated(n, e, q)
  BY <1>3, <1>6
<1>8. Validated(n, e, r)' = Validated(n, e, r) \union (heard \union own)
  BY <1>1, <1>3, <1>4
<1>9. r + 1 \in Round => Validated(n, e, r + 1)' = Validated(n, e, r + 1) \union cast
  BY <1>3, <1>5
<1> QED BY <1>7, <1>8, <1>9

\* No advance is missed.
LEMMA KeepsAdvance ==
    ASSUME ViewInv, NEW n, NEW e, NEW r, NEW heard, NEW own, NEW cast,
           Shape(n, e, r, heard, own, cast)
    PROVE  NoMissedAdvance'
<1> SUFFICES ASSUME NEW m \in Node, NEW f \in Election, NEW q \in Round \ {MaxRound}
             PROVE  \/ elections'[m][f].is_decided
                    \/ Cardinality(Validated(m, f, q)') < QUORUM
                    \/ elections'[m][f].state[q + 1].voted
  BY DEF NoMissedAdvance
<1>1. /\ n \in Node /\ e \in Election /\ r \in Round /\ r \in Nat
      /\ \A w \in cast : w.round = r + 1
  BY ShapeFacts
<1>2. /\ q + 1 \in Round /\ q \in Nat
      /\ \/ elections[m][f].is_decided
         \/ Cardinality(Validated(m, f, q)) < QUORUM
         \/ elections[m][f].state[q + 1].voted
  BY BoundAssumption DEF ViewInv, RoundsInv, NoMissedAdvance, Round
<1>3. CASE Validated(m, f, q)' = Validated(m, f, q)
  BY <1>2, <1>3, ShapeFacts
<1>4. CASE m = n /\ f = e /\ q = r /\ cast = {}
  <2>1. NotDue(n, e, r)
    BY <1>4 DEF Shape
  <2> QED BY <1>2, <1>4, <2>1, ShapeFacts DEF NotDue
<1>5. CASE m = n /\ f = e /\ q = r /\ cast # {}
  <2>1. PICK w : w \in cast
    BY <1>5
  <2>2. elections'[n][e].state[w.round].voted /\ w.round = r + 1
    BY <2>1, ShapeFacts
  <2> QED BY <1>5, <2>2
<1>6. CASE m = n /\ f = e /\ q = r + 1 /\ cast # {}
  <2>1. Validated(n, e, q)' = cast
    BY <1>6, BeforeCast, OtherRounds
  <2>2. AtMostOne(cast)
    BY DEF Shape
  <2>3. Cardinality(cast) < QUORUM
    BY <2>2, AtMostOneSize, FAssumption DEF QUORUM
  <2> QED BY <1>6, <2>1, <2>3
<1>7. CASE m = n /\ f = e /\ q = r + 1 /\ cast = {}
  <2>1. Validated(n, e, q)' = Validated(n, e, q)
    BY <1>7, OtherRounds
  <2> QED BY <1>3, <1>7, <2>1
<1>8. CASE m = n /\ f = e /\ q \notin {r, r + 1}
  BY <1>3, <1>8, OtherRounds
<1>9. CASE m # n \/ f # e
  BY <1>3, <1>9, ShapeFacts
<1> QED BY <1>4, <1>5, <1>6, <1>7, <1>8, <1>9

\* The tallies follow.
LEMMA KeepsTallies ==
    ASSUME ViewInv, NEW n, NEW e, NEW r, NEW heard, NEW own, NEW cast,
           Shape(n, e, r, heard, own, cast)
    PROVE  TallyMatchesVotes'
<1> SUFFICES ASSUME NEW m \in Node, NEW f \in Election, NEW q \in Round
             PROVE  elections'[m][f].state[q].tally = Seen(Validated(m, f, q)')
  BY DEF TallyMatchesVotes
<1>1. CASE m = n /\ f = e
  BY <1>1 DEF Shape, Enters
<1>2. CASE m # n \/ f # e
  <2>1. elections[m][f].state[q].tally = Seen(Validated(m, f, q))
    BY DEF ViewInv, RoundsInv, TallyMatchesVotes
  <2>2. elections'[m][f] = elections[m][f] /\ Validated(m, f, q)' = Validated(m, f, q)
    BY <1>2, ShapeFacts
  <2> QED BY <2>1, <2>2
<1> QED BY <1>1, <1>2

\* What a node decided it still cast a Decide for.
LEMMA KeepsDecided ==
    ASSUME ViewInv, NEW n, NEW e, NEW r, NEW heard, NEW own, NEW cast,
           Shape(n, e, r, heard, own, cast)
    PROVE  DecidedByVote'
<1> SUFFICES ASSUME NEW m \in Node, NEW f \in Election, decided'[m][f] # None
             PROVE  \E q \in Round : \E v \in OwnVotesOf(m, f, q)' :
                        v.vote_type = "Decide" /\ v.value = decided'[m][f]
  BY DEF DecidedByVote
<1>1. CASE decided'[m][f] = decided[m][f]
  <2>1. PICK q \in Round : \E v \in OwnVotesOf(m, f, q) :
           v.vote_type = "Decide" /\ v.value = decided[m][f]
    BY <1>1 DEF ViewInv, RoundsInv, DecidedByVote
  <2>2. OwnVotesOf(m, f, q) \subseteq OwnVotesOf(m, f, q)'
    BY ShapeFacts DEF OwnVotesOf
  <2> QED BY <1>1, <2>1, <2>2
<1>2. CASE decided'[m][f] # decided[m][f]
  <2>1. m = n /\ f = e
    BY <1>2, ShapeFacts
  <2>2. PICK v \in cast : v.vote_type = "Decide"
    BY <1>2, <2>1 DEF Shape, Decides
  <2>3. decided'[n][e] = v.value
    BY <2>2 DEF Shape, Decides
  <2>4. v.round \in Round /\ v.signer = n /\ v \in Validated(n, e, v.round)'
    BY <2>2, ShapeFacts
  <2> QED BY <2>1, <2>2, <2>3, <2>4 DEF OwnVotesOf
<1> QED BY <1>1, <1>2
-----------------------------------------------------------------------------
\* The round a vote is cast from: exactly a quorum, the node's own vote in it,
\* which is not a Decide, and one vote of each signer.
LEMMA CastRound ==
    ASSUME ViewInv, NEW n, NEW e, NEW r, NEW heard, NEW own, NEW cast,
           Shape(n, e, r, heard, own, cast), cast # {}
    PROVE  LET V == Validated(n, e, r)'
           IN  /\ IsFiniteSet(V) /\ Cardinality(V) = QUORUM
               /\ \E w \in V : w.signer = n /\ w.vote_type # "Decide"
               /\ Cardinality({v.signer : v \in V}) = QUORUM
<1> DEFINE V == Validated(n, e, r)'
           W == Validated(n, e, r)
<1>1. /\ n \in Node /\ e \in Election /\ r \in Round /\ r \in Nat
      /\ msgs' = msgs \union (own \union cast)
      /\ \A w \in cast : w.round = r + 1
  BY ShapeFacts
<1>2. /\ ViewsAreVotes' /\ HeldOnce' /\ VotedHasVote'
  BY KeepsViews, KeepsHeldOnce, KeepsVoted
<1>3. /\ IsFiniteSet(V)
      /\ \A w \in V : w \in msgs' /\ w.round = r /\ w.election_hash = e
  BY <1>1, <1>2 DEF ViewsAreVotes
<1>4. /\ V = W \union heard \union own
      /\ AtMostOne(heard) /\ AtMostOne(own)
  BY OtherRounds DEF Shape
<1>5. /\ IsFiniteSet(W) /\ Cardinality(W) \in Nat /\ Cardinality(W) < QUORUM
      /\ own # {} => W = {}
  <2>1. IsFiniteSet(W)
    BY <1>1 DEF ViewInv, VotesInv, ViewsAreVotes
  <2> QED BY <2>1, BeforeCast, FS_CardinalityType
<1>6. QUORUM \in Nat /\ QUORUM >= 3
  BY FAssumption DEF QUORUM
<1>7. PICK vote \in cast : TRUE
  OBVIOUS
<1>8. Cardinality(V) >= QUORUM /\ Cardinality(V) \in Nat
      /\ ~elections[n][e].is_decided
  <2>1. Cardinality(V) >= QUORUM /\ ~elections[n][e].is_decided
    BY <1>7 DEF Shape, CastOK
  <2> QED BY <1>3, <2>1, FS_CardinalityType
<1>9. /\ IsFiniteSet(heard) /\ Cardinality(heard) \in Nat /\ Cardinality(heard) <= 1
      /\ IsFiniteSet(own) /\ Cardinality(own) \in Nat /\ Cardinality(own) <= 1
  BY <1>4, AtMostOneSize
<1>10. /\ Cardinality(W \union heard) <= Cardinality(W) + Cardinality(heard)
       /\ IsFiniteSet(W \union heard) /\ Cardinality(W \union heard) \in Nat
  <2>1. /\ IsFiniteSet(W \union heard)
        /\ Cardinality(W \union heard) =
              Cardinality(W) + Cardinality(heard) - Cardinality(W \cap heard)
    BY <1>5, <1>9, FS_Union
  <2>2. Cardinality(W \cap heard) \in Nat /\ Cardinality(W \union heard) \in Nat
    BY <1>5, <2>1, FS_Intersection, FS_CardinalityType
  <2> QED BY <1>5, <1>9, <2>1, <2>2
<1>11. own = {}
  <2> SUFFICES ASSUME own # {}
               PROVE  FALSE
    OBVIOUS
  <2>1. V = heard \union own
    BY <1>4, <1>5
  <2>2. /\ Cardinality(heard \union own) =
              Cardinality(heard) + Cardinality(own) - Cardinality(heard \cap own)
    BY <1>9, FS_Union
  <2>3. Cardinality(heard \cap own) \in Nat
    BY <1>9, FS_Intersection, FS_CardinalityType
  <2> HIDE DEF V
  <2> QED BY <1>6, <1>8, <1>9, <2>1, <2>2, <2>3
<1>12. Cardinality(V) = QUORUM
  <2>1. V = W \union heard
    BY <1>4, <1>11
  <2> HIDE DEF V, W
  <2> QED BY <1>5, <1>6, <1>8, <1>9, <1>10, <2>1
<1>13. W # {}
  <2> SUFFICES ASSUME W = {}
               PROVE  FALSE
    OBVIOUS
  <2>1. V = heard
    BY <1>4, <1>11
  <2> HIDE DEF V, W
  <2> QED BY <1>6, <1>9, <1>12, <2>1
<1>14. PICK w \in W : w.signer = n
  <2>1. elections[n][e].state[r].voted
    BY <1>1, <1>8, <1>13 DEF ViewInv, RoundsInv, VotesFirst
  <2> QED BY <1>1, <2>1 DEF ViewInv, VotesInv, VotedHasVote
<1>15. w \in V /\ w.signer = n /\ w.vote_type # "Decide"
  <2>1. w \in OwnVotesOf(n, e, r)
    BY <1>14 DEF OwnVotesOf
  <2>2. w.vote_type # "Decide"
    BY <1>1, <1>8, <2>1 DEF ViewInv, RoundsInv, DecideIsFinal
  <2> QED BY <1>4, <1>14, <2>2
<1>16. \A u, v \in V : u.signer = v.signer => u = v
  BY <1>1, <1>2 DEF HeldOnce
<1>17. Cardinality({v.signer : v \in V}) = QUORUM
  <2> HIDE DEF V
  <2> QED BY <1>3, <1>12, <1>16, AsManySigners
<1> QED BY <1>3, <1>12, <1>15, <1>17

\* Proofs are still quorums.
LEMMA KeepsQuorums ==
    ASSUME ViewInv, NEW n, NEW e, NEW r, NEW heard, NEW own, NEW cast,
           Shape(n, e, r, heard, own, cast)
    PROVE  ProofsAreQuorums'
<1> SUFFICES ASSUME NEW v \in msgs', v.round > 0
             PROVE  Cardinality(v.proof) = QUORUM /\ v.signer \in v.proof
  BY DEF ProofsAreQuorums
<1>1. /\ msgs' = msgs \union (own \union cast)
      /\ \A w \in own : w.round = 0
      /\ \A w \in cast : w.signer = n
  BY ShapeFacts
<1>2. CASE v \in msgs
  BY <1>2 DEF ViewInv, RoundsInv, ProofsAreQuorums
<1>3. CASE v \in cast
  <2>1. v.proof = {u.signer : u \in Validated(n, e, r)'}
    BY <1>3 DEF Shape, CastOK
  <2>2. /\ Cardinality({u.signer : u \in Validated(n, e, r)'}) = QUORUM
        /\ \E w \in Validated(n, e, r)' : w.signer = n
    BY <1>3, CastRound
  <2> QED BY <1>1, <1>3, <2>1, <2>2
<1> QED BY <1>1, <1>2, <1>3

\* The votes a proof names stay what they are once the node holds them all.
LEMMA ProofVotesKept ==
    ASSUME ViewInv, NEW n, NEW e, NEW r, NEW heard, NEW own, NEW cast,
           Shape(n, e, r, heard, own, cast),
           NEW m \in Node, NEW v \in Vote, v.round > 0,
           v.proof \subseteq {Digest(w) : w \in ProofVotes(m, v)}
    PROVE  ProofVotes(m, v)' = ProofVotes(m, v)
<1> DEFINE f == v.election_hash
           q == v.round - 1
<1>1. f \in Election /\ q \in Round
  BY VoteFacts, BoundAssumption DEF Round
<1>2. Validated(m, f, q) \subseteq Validated(m, f, q)'
  BY <1>1, ShapeFacts
<1>3. ASSUME NEW w \in Validated(m, f, q)', Digest(w) \in v.proof
      PROVE  w \in Validated(m, f, q)
  <2>1. PICK u \in Validated(m, f, q) : Digest(u) = Digest(w)
    BY <1>3 DEF ProofVotes
  <2>2. u \in Validated(m, f, q)'
    BY <1>2, <2>1
  <2>3. u.signer = w.signer
    BY <2>1 DEF Digest
  <2>4. u = w
    BY <1>1, <1>3, <2>2, <2>3, KeepsHeldOnce DEF HeldOnce
  <2> QED BY <2>1, <2>4
<1> QED BY <1>2, <1>3 DEF ProofVotes

\* The votes of nodes that follow the rule still are what it makes of the
\* votes their proofs name.
LEMMA KeepsJustified ==
    ASSUME ViewInv, NEW n, NEW e, NEW r, NEW heard, NEW own, NEW cast,
           Shape(n, e, r, heard, own, cast)
    PROVE  HonestJustified'
<1> SUFFICES ASSUME NEW m \in Honest, NEW f \in Election, NEW q \in Round \ {0},
                    NEW v \in OwnVotesOf(m, f, q)'
             PROVE  /\ v.proof \subseteq {Digest(w) : w \in ProofVotes(m, v)'}
                    /\ VoteChoice(v) = MakeDecision(Seen(ProofVotes(m, v)'))
                    /\ \E w \in ProofVotes(m, v)' : w.vote_type # "Decide"
  BY DEF HonestJustified
<1>1. /\ r \in Nat /\ m \in Node /\ q \in Round /\ q > 0
      /\ \A w \in own : w.round = 0
      /\ \A w \in cast : w.signer = n /\ w.round = r + 1 /\ w.election_hash = e
  BY ShapeFacts DEF Honest, Round
<1>2. CASE v \in OwnVotesOf(m, f, q)
  <2>1. /\ v.proof \subseteq {Digest(w) : w \in ProofVotes(m, v)}
        /\ VoteChoice(v) = MakeDecision(Seen(ProofVotes(m, v)))
        /\ \E w \in ProofVotes(m, v) : w.vote_type # "Decide"
    BY <1>2 DEF ViewInv, RuleInv, HonestJustified
  <2>2. v \in Vote /\ v.round > 0
    <3>1. v \in msgs /\ v.round = q
      BY <1>1, <1>2 DEF ViewInv, VotesInv, ViewsAreVotes, OwnVotesOf
    <3> QED BY <1>1, <3>1 DEF ViewInv, VotesInv, TypeOK
  <2>3. ProofVotes(m, v)' = ProofVotes(m, v)
    BY <1>1, <2>1, <2>2, ProofVotesKept
  <2> QED BY <2>1, <2>3
<1>3. CASE m = n /\ v \in cast
  <2> DEFINE V == Validated(n, e, r)'
  <2>1. /\ v.signer = n /\ v.election_hash = e /\ v.round - 1 = r
    BY <1>1, <1>3
  <2>2. /\ v.proof = {u.signer : u \in V}
        /\ VoteChoice(v) = MakeDecision(Seen(V))
    BY <1>3, <2>1 DEF Shape, CastOK
  <2>3. ProofVotes(n, v)' = V
    <3>1. ProofVotes(n, v)' = {w \in V : Digest(w) \in v.proof}
      BY <2>1 DEF ProofVotes, Validated
    <3> HIDE DEF V
    <3> QED BY <2>2, <3>1 DEF Digest
  <2>4. \E w \in V : w.vote_type # "Decide"
    <3>1. cast # {}
      BY <1>3
    <3>2. \E w \in V : w.signer = n /\ w.vote_type # "Decide"
      BY <3>1, CastRound, Zenon
    <3> QED BY <3>2
  <2>5. v.proof \subseteq {Digest(w) : w \in V}
    BY <2>2 DEF Digest
  <2> QED BY <1>3, <2>1, <2>2, <2>3, <2>4, <2>5
<1> QED BY <1>1, <1>2, <1>3, OwnVotesCast

\* So are the votes they validated.
LEMMA KeepsValidated ==
    ASSUME ViewInv, NEW n, NEW e, NEW r, NEW heard, NEW own, NEW cast,
           Shape(n, e, r, heard, own, cast)
    PROVE  ValidatedJustified'
<1> DEFINE Held(m, v) == /\ v.proof \subseteq {Digest(w) : w \in ProofVotes(m, v)}
                         /\ VoteChoice(v) = MakeDecision(FromVotes(ProofVotes(m, v)))
<1> SUFFICES ASSUME NEW m \in Honest, NEW f \in Election, NEW q \in Round \ {0},
                    NEW v \in Validated(m, f, q)', v.signer # m
             PROVE  /\ v.proof \subseteq {Digest(w) : w \in ProofVotes(m, v)'}
                    /\ VoteChoice(v) = MakeDecision(FromVotes(ProofVotes(m, v)'))
  BY DEF ValidatedJustified
<1>1. m \in Node /\ q \in Round /\ q > 0
  BY DEF Honest, Round
<1>2. v \in Vote /\ v.round = q
  <2>1. v \in msgs' /\ v.round = q
    BY <1>1, KeepsViews DEF ViewsAreVotes
  <2> QED BY <2>1, ShapeFacts DEF TypeOK
<1>3. Held(m, v)
  <2>1. CASE v \in Validated(m, f, q)
    BY <2>1 DEF ViewInv, RuleInv, ValidatedJustified
  <2>2. CASE v \notin Validated(m, f, q)
    <3>1. m = n /\ f = e
      BY <1>1, <2>2, ShapeFacts
    <3>2. v \in heard \union own \union cast
      BY <2>2, <3>1 DEF Shape, Enters
    <3>3. v \in heard
      BY <3>1, <3>2, ShapeFacts
    <3> QED BY <1>1, <1>2, <3>1, <3>3 DEF Shape, HeardOK
  <2> QED BY <2>1, <2>2
<1>4. ProofVotes(m, v)' = ProofVotes(m, v)
  BY <1>1, <1>2, <1>3, ProofVotesKept
<1> QED BY <1>3, <1>4

\* A node still votes in one round after the other.
LEMMA KeepsOrder ==
    ASSUME ViewInv, NEW n, NEW e, NEW r, NEW heard, NEW own, NEW cast,
           Shape(n, e, r, heard, own, cast)
    PROVE  VotesInOrder'
<1> SUFFICES ASSUME NEW m \in Node, NEW f \in Election, NEW q \in Round \ {0},
                    elections'[m][f].state[q].voted
             PROVE  elections'[m][f].state[q - 1].voted
  BY DEF VotesInOrder
<1>1. /\ n \in Node /\ e \in Election /\ r \in Round /\ r \in Nat
      /\ \A w \in own : w.round = 0
      /\ \A w \in cast : w.round = r + 1
  BY ShapeFacts
<1>2. q \in Round /\ q - 1 \in Round
  BY BoundAssumption DEF Round
<1>3. CASE elections[m][f].state[q].voted
  <2>1. elections[m][f].state[q - 1].voted
    BY <1>3 DEF ViewInv, RoundsInv, VotesInOrder
  <2> QED BY <1>2, <2>1, ShapeFacts
<1>4. CASE ~elections[m][f].state[q].voted
  <2>1. m = n /\ f = e
    BY <1>2, <1>4, ShapeFacts
  <2>2. PICK v \in own \union cast : v.round = q
    BY <1>2, <1>4, <2>1 DEF Shape, Marks
  <2>3. q = r + 1 /\ cast # {}
    BY <1>1, <2>2
  <2>4. PICK w \in Validated(n, e, r)' : w.signer = n
    BY <2>3, CastRound
  <2>5. elections'[n][e].state[r].voted
    BY <1>1, <2>4, KeepsVoted DEF VotedHasVote
  <2> QED BY <1>1, <2>1, <2>3, <2>5
<1> QED BY <1>3, <1>4

\* Rounds are voted in one after the other, so a node that has not voted in one
\* has voted in none after it.
LEMMA NoneAfter ==
    ASSUME ViewInv, NEW n \in Node, NEW e \in Election, NEW q \in Round,
           ~elections[n][e].state[q].voted
    PROVE  \A p \in Round : q <= p => ~elections[n][e].state[p].voted
<1> DEFINE T == {p \in Round : q <= p /\ elections[n][e].state[p].voted}
<1> SUFFICES ASSUME T # {}
             PROVE  FALSE
  OBVIOUS
<1>1. T \in SUBSET Nat
  BY DEF Round
<1>2. PICK p \in T : \A o \in T : p <= o
  BY <1>1, LeastElement
<1>3. p \in Round \ {0} /\ p - 1 \in Round /\ q <= p - 1
  BY <1>2, BoundAssumption DEF Round
<1>4. elections[n][e].state[p - 1].voted
  BY <1>2, <1>3 DEF ViewInv, RoundsInv, VotesInOrder
<1>5. p - 1 \in T /\ p \in Nat
  BY <1>1, <1>3, <1>4
<1> HIDE DEF T
<1>6. p <= p - 1
  BY <1>2, <1>5
<1> QED BY <1>5, <1>6

\* A Decide is still the last vote of its signer.
LEMMA KeepsLast ==
    ASSUME Inv, NEW n, NEW e, NEW r, NEW heard, NEW own, NEW cast,
           Shape(n, e, r, heard, own, cast)
    PROVE  DecideIsLastVote'
<1> SUFFICES ASSUME NEW v \in msgs', NEW w \in msgs', v.vote_type = "Decide",
                    v.signer = w.signer, v.election_hash = w.election_hash
             PROVE  w.round <= v.round
  BY DEF DecideIsLastVote
<1>1. /\ n \in Node /\ e \in Election /\ r \in Round /\ r \in Nat
      /\ msgs' = msgs \union (own \union cast)
      /\ \A u \in own \union cast :
            u.signer = n /\ u.election_hash = e /\ ~elections[n][e].state[u.round].voted
            /\ u.round \in Round
      /\ \A u \in own : u.round = 0
      /\ \A u \in cast : u.round = r + 1
  BY ShapeFacts
<1>2. /\ \A u \in own : u.vote_type = "InitialVote"
      /\ \A u \in cast : ~elections[n][e].is_decided
  BY DEF Shape, OwnOK, CastOK
<1>3. /\ v.round \in Nat /\ w.round \in Nat /\ v.round \in Round /\ w.round \in Round
  <2>1. v \in Vote /\ w \in Vote
    BY ShapeFacts DEF TypeOK
  <2> QED BY <2>1, VoteFacts
<1>4. CASE v \in msgs /\ w \in msgs
  BY <1>4 DEF Inv, DecideIsLastVote
<1>5. CASE v \in msgs /\ w \in own
  BY <1>1, <1>3, <1>5
<1>6. CASE v \in msgs /\ w \in cast
  <2>1. v \in OwnVotesOf(n, e, v.round)
    BY <1>1, <1>6 DEF Inv, OwnVotesKept, OwnVotesOf
  <2>2. elections[n][e].is_decided
    BY <1>1, <1>3, <1>6, <2>1 DEF Inv, ViewInv, RoundsInv, DecideIsFinal
  <2> QED BY <1>2, <1>6, <2>2
<1>7. CASE v \in cast /\ w \in msgs
  <2>1. elections[n][e].state[w.round].voted /\ ~elections[n][e].state[v.round].voted
    BY <1>1, <1>7 DEF Inv, OwnVotesKept
  <2>2. ~(v.round <= w.round)
    BY <1>1, <1>3, <2>1, NoneAfter DEF Inv
  <2> QED BY <1>3, <2>2
<1>8. CASE v \in cast /\ w \in own \union cast
  BY <1>1, <1>3, <1>8
<1> QED BY <1>1, <1>2, <1>4, <1>5, <1>6, <1>7, <1>8
-----------------------------------------------------------------------------
\* The invariant holds at the start.
LEMMA InitInv == Init => Inv
<1> SUFFICES ASSUME Init
             PROVE  Inv
  OBVIOUS
<1>1. TypeOK
  BY InitType
<1>2. \A n \in Node, e \in Election, r \in Round :
          /\ Validated(n, e, r) = {}
          /\ ~elections[n][e].state[r].voted
          /\ elections[n][e].state[r].tally = NewTally
  BY DEF Init, Validated, NewElection, NewRoundState
<1>3. /\ msgs = {} /\ \A n \in Node, e \in Election : decided[n][e] = None
      /\ \A n \in Node, e \in Election, r \in Round : OwnVotesOf(n, e, r) = {}
  BY <1>2 DEF Init, OwnVotesOf
<1>4. IsFiniteSet({}) /\ Cardinality({}) = 0
  BY FS_EmptySet
<1>5. VotesInv
  BY <1>1, <1>2, <1>3, <1>4
  DEF VotesInv, ViewsAreVotes, HeldOnce, VotedHasVote, StartsInitial
<1>6. NoMissedAdvance
  <2>1. 0 < QUORUM
    BY FAssumption DEF QUORUM
  <2> QED BY <1>2, <1>4, <2>1 DEF NoMissedAdvance
<1>7. TallyMatchesVotes
  BY <1>2, SeenNothing DEF TallyMatchesVotes
<1>8. RoundsInv
  BY <1>2, <1>3, <1>6, <1>7
  DEF RoundsInv, VotesFirst, VotesInOrder, ProofsAreQuorums, DecideIsFinal, DecidedByVote
<1>9. RuleInv
  BY <1>2, <1>3 DEF RuleInv, HonestJustified, ValidatedJustified, Honest
<1>10. OwnVotesKept /\ NoEquivocation /\ DecideIsLastVote
  BY <1>3 DEF OwnVotesKept, NoEquivocation, DecideIsLastVote
<1> QED BY <1>5, <1>8, <1>9, <1>10 DEF Inv, ViewInv

\* A step of the shape keeps what each node holds sound, whatever its peers do.
LEMMA KeepsView ==
    ASSUME ViewInv, NEW n, NEW e, NEW r, NEW heard, NEW own, NEW cast,
           Shape(n, e, r, heard, own, cast)
    PROVE  ViewInv'
<1>1. VotesInv'
  BY ShapeFacts, KeepsViews, KeepsHeldOnce, KeepsVoted, KeepsStartAndEnd DEF VotesInv
<1>2. RoundsInv'
  BY KeepsVotesFirst, KeepsOrder, KeepsAdvance, KeepsTallies, KeepsQuorums,
     KeepsStartAndEnd, KeepsDecided DEF RoundsInv
<1>3. RuleInv'
  BY KeepsJustified, KeepsValidated DEF RuleInv
<1> QED BY <1>1, <1>2, <1>3 DEF ViewInv

\* So does a stutter.
LEMMA StutterKeepsView ==
    ASSUME ViewInv, UNCHANGED vars
    PROVE  ViewInv'
<1>1. /\ \A n, e, r : Validated(n, e, r)' = Validated(n, e, r)
      /\ \A n, e, r : OwnVotesOf(n, e, r)' = OwnVotesOf(n, e, r)
      /\ \A n, v : ProofVotes(n, v)' = ProofVotes(n, v)
      /\ elections' = elections /\ decided' = decided /\ msgs' = msgs
  BY DEF vars, Validated, ProofVotes, OwnVotesOf
<1>2. VotesInv'
  BY <1>1 DEF ViewInv, VotesInv, TypeOK, ViewsAreVotes, HeldOnce, VotedHasVote,
              StartsInitial
<1>3. RoundsInv'
  BY <1>1 DEF ViewInv, RoundsInv, VotesFirst, VotesInOrder, NoMissedAdvance,
              TallyMatchesVotes, ProofsAreQuorums, DecideIsFinal, DecidedByVote
<1>4. RuleInv'
  BY <1>1 DEF ViewInv, RuleInv, HonestJustified, ValidatedJustified
<1> QED BY <1>2, <1>3, <1>4 DEF ViewInv

\* Every step of the core keeps the invariant.
LEMMA NextInv == Inv /\ [Next]_vars => Inv'
<1> SUFFICES ASSUME Inv, [Next]_vars
             PROVE  Inv'
  OBVIOUS
<1>1. ViewInv
  BY DEF Inv
<1>2. CASE UNCHANGED vars
  <2>1. ViewInv'
    BY <1>1, <1>2, StutterKeepsView
  <2>2. OwnVotesKept' /\ NoEquivocation' /\ DecideIsLastVote'
    BY <1>2 DEF Inv, vars, OwnVotesKept, NoEquivocation, DecideIsLastVote, Validated
  <2> QED BY <2>1, <2>2 DEF Inv
<1>3. ASSUME NEW n, NEW e, NEW r, NEW heard, NEW own, NEW cast,
             Shape(n, e, r, heard, own, cast)
      PROVE  Inv'
  <2>1. ViewInv'
    BY <1>1, <1>3, KeepsView
  <2>2. OwnVotesKept' /\ NoEquivocation' /\ DecideIsLastVote'
    BY <1>3, KeepsOwnVotes, KeepsOneVote, KeepsLast
  <2> QED BY <2>1, <2>2 DEF Inv
<1> QED BY <1>2, <1>3, StepShape

\* The invariant of the core: what any vote says is bounded by the quorum of
\* votes it was made of.
THEOREM Invariant == Spec => []Inv
BY InitInv, NextInv, PTL DEF Spec
-----------------------------------------------------------------------------
(***************************************************************************)
(* Worlds: a set of votes for each round, one of each node, those of round *)
(* 0 initial and every later one what the rule makes of a quorum of those  *)
(* of the round before.  The votes a node that follows the rule validated  *)
(* in an election are one, whatever the other nodes do; so are those that  *)
(* all such nodes validated, if nobody casts two votes in a round.         *)
(***************************************************************************)
\* Set T of votes makes v what it is.
MadeOf(v, T) ==
    /\ IsFiniteSet(T) /\ Ballots(T) /\ Cardinality(T) >= QUORUM
    /\ \E t : TallyOf(t, T) /\ VoteChoice(v) = MakeDecision(t)

World(G) ==
    /\ \A r \in Round : G[r] \subseteq Vote
    /\ \A r \in Round : \A v, w \in G[r] : v.signer = w.signer => v = w
    /\ \A v \in G[0] : v.vote_type = "InitialVote"
    /\ \A r \in Round : r + 1 \in Round =>
          \A v \in G[r + 1] : \E T \in SUBSET G[r] : MadeOf(v, T)

\* The votes of a round agree on its commits, and no initial vote stands beside
\* a Decide.
Settled(G, r) ==
    /\ \A v, w \in G[r] : v.vote_type # "InitialVote" => w.value = v.value
    /\ \A v, w \in G[r] : v.vote_type = "Decide" => w.vote_type # "InitialVote"

\* At most one vote of each node.
LEMMA WorldSize ==
    ASSUME NEW G, World(G), NEW r \in Round, NEW T \in SUBSET G[r]
    PROVE  /\ IsFiniteSet(T) /\ Cardinality(T) \in Nat
           /\ Cardinality(T) <= 3 * F + 1
           /\ Ballots(T)
           /\ \A v \in T : v.value \in Value /\ v.signer \in Node
<1>1. T \subseteq Vote
  BY DEF World
<1> DEFINE f == [v \in T |-> v.signer]
<1>2. f \in [T -> Node]
  BY <1>1, VoteFacts
<1>3. \A v, w \in T : v.signer = w.signer => v = w
  BY DEF World
<1>4. f \in Injection(T, Node)
  BY <1>2, <1>3 DEF Injection, IsInjective
<1>5. IsFiniteSet(T) /\ Cardinality(T) <= Cardinality(Node)
  BY <1>4, FS_Injection, CommitteeAssumption
<1>6. Cardinality(T) \in Nat
  BY <1>5, FS_CardinalityType
<1>7. Ballots(T)
  BY <1>1, VoteFacts DEF Ballots
<1>8. \A v \in T : v.value \in Value /\ v.signer \in Node
  BY <1>1, VoteFacts
<1> QED BY <1>5, <1>6, <1>7, <1>8, CommitteeAssumption

\* Votes of two quorums: they meet in more than F votes.
LEMMA QuorumsMeet ==
    ASSUME NEW G, World(G), NEW r \in Round, NEW S \in SUBSET G[r], NEW T \in SUBSET G[r],
           S \cap T = {}
    PROVE  Cardinality(S) + Cardinality(T) <= 3 * F + 1
<1>1. IsFiniteSet(S) /\ IsFiniteSet(T)
  BY WorldSize
<1>2. Cardinality(S \union T) = Cardinality(S) + Cardinality(T)
  BY <1>1, DisjointUnion
<1>3. Cardinality(S \union T) <= 3 * F + 1
  BY WorldSize
<1> QED BY <1>2, <1>3
-----------------------------------------------------------------------------
\* Once the votes of a round hold one value, so do those of the next.
LEMMA ValueKept ==
    ASSUME NEW G, World(G), NEW r \in Round, r + 1 \in Round, Settled(G, r),
           NEW x \in Value, \A w \in G[r] : w.value = x,
           NEW v \in G[r + 1], NEW T \in SUBSET G[r], MadeOf(v, T)
    PROVE  /\ v.value = x
           /\ (\E w \in T : w.vote_type # "InitialVote") => v.vote_type # "InitialVote"
<1>1. PICK t : TallyOf(t, T) /\ VoteChoice(v) = MakeDecision(t)
  BY DEF MadeOf
<1>2. IsFiniteSet(T) /\ Ballots(T) /\ Cardinality(T) >= QUORUM
  BY DEF MadeOf
<1>3. \A w \in T : w.value = x
  OBVIOUS
<1>4. (\E w \in T : w.vote_type = "Decide") => \A w \in T : w.vote_type # "InitialVote"
  BY DEF Settled
<1>5. /\ MakeDecision(t).value = x
      /\ (\E w \in T : w.vote_type # "InitialVote") =>
            MakeDecision(t).vote_type # "InitialVote"
  BY <1>1, <1>2, <1>3, <1>4, RuleKeepsValue
<1>6. MakeDecision(t).value = v.value /\ MakeDecision(t).vote_type = v.vote_type
  BY <1>1 DEF VoteChoice, Choice
<1> QED BY <1>5, <1>6

\* A Decide leaves no initial vote beside it, if the round
\* before held one value.
LEMMA DecideLeavesNoInitial ==
    ASSUME NEW G, World(G), NEW r \in Round, r + 1 \in Round, Settled(G, r),
           NEW x \in Value, \A u \in G[r] : u.value = x,
           NEW v \in G[r + 1], v.vote_type = "Decide", NEW w \in G[r + 1]
    PROVE  w.vote_type # "InitialVote"
<1>1. PICK S \in SUBSET G[r] : MadeOf(v, S)
  BY DEF World
<1>2. PICK T \in SUBSET G[r] : MadeOf(w, T)
  BY DEF World
<1>3. \E u \in T : u.vote_type # "InitialVote"
  <2>1. IsFiniteSet(S) /\ IsFiniteSet(T) /\ Ballots(S)
        /\ Cardinality(S) \in Nat /\ Cardinality(T) \in Nat
        /\ Cardinality(T) >= QUORUM
    BY <1>2, WorldSize DEF MadeOf
  <2>2. PICK t : TallyOf(t, S) /\ VoteChoice(v) = MakeDecision(t)
    BY <1>1 DEF MadeOf
  <2>3. MakeDecision(t).vote_type = "Decide"
    BY <2>2 DEF VoteChoice, Choice
  <2> DEFINE C == Votes(S, "Commit", MakeDecision(t).value)
  <2>4. \/ \E u \in S : u.vote_type = "Decide"
        \/ Cardinality(C) >= QUORUM
    BY <2>1, <2>2, <2>3, RuleNeeds
  <2>5. CASE \E u \in S : u.vote_type = "Decide"
    <3>1. \A u \in G[r] : u.vote_type # "InitialVote"
      BY <2>5 DEF Settled
    <3>2. T # {}
      BY <2>1, FS_EmptySet, FAssumption DEF QUORUM
    <3> QED BY <3>1, <3>2
  <2>6. CASE Cardinality(C) >= QUORUM
    <3>1. C \in SUBSET G[r] /\ \A u \in C : u.vote_type = "Commit"
      BY DEF Votes
    <3>2. Cardinality(C) \in Nat
      BY <3>1, WorldSize
    <3> HIDE DEF C
    <3>3. C \cap T # {}
      <4> SUFFICES ASSUME C \cap T = {}
                   PROVE  FALSE
        OBVIOUS
      <4>1. Cardinality(C) + Cardinality(T) <= 3 * F + 1
        BY <3>1, QuorumsMeet
      <4> QED BY <2>1, <2>6, <3>2, <4>1, FAssumption DEF QUORUM
    <3> QED BY <3>1, <3>3
  <2> QED BY <2>4, <2>5, <2>6
<1> QED BY <1>2, <1>3, ValueKept

\* The votes of every round settle its value.
LEMMA SettledStart ==
    ASSUME NEW G, World(G)
    PROVE  Settled(G, 0)
BY DEF Settled, World

LEMMA SettledNext ==
    ASSUME NEW G, World(G), NEW r \in Round, r + 1 \in Round, Settled(G, r)
    PROVE  Settled(G, r + 1)
<1>1. CASE \E u \in G[r] : u.vote_type # "InitialVote"
  <2>1. PICK x \in Value : \A u \in G[r] : u.value = x
    <3>1. PICK u \in G[r] : u.vote_type # "InitialVote"
      BY <1>1
    <3>2. u.value \in Value
      <4>1. u \in Vote
        BY <3>1 DEF World
      <4> QED BY <4>1, VoteFacts
    <3> QED BY <3>1, <3>2 DEF Settled
  <2>2. \A v \in G[r + 1] : v.value = x
    BY <2>1, ValueKept DEF World
  <2>3. \A v, w \in G[r + 1] : v.vote_type = "Decide" => w.vote_type # "InitialVote"
    BY <2>1, DecideLeavesNoInitial
  <2> QED BY <2>2, <2>3 DEF Settled
<1>2. CASE \A u \in G[r] : u.vote_type = "InitialVote"
  <2>1. ASSUME NEW v \in G[r + 1]
        PROVE  \E T \in SUBSET G[r], d \in Decision :
                 LET c(x) == Cardinality(Votes(T, "InitialVote", x))
                 IN  /\ v.vote_type = d.vote_type /\ v.value = d.value
                     /\ d.vote_type # "Decide"
                     /\ d.vote_type = "Commit" => c(d.value) >= QUORUM
                     /\ \A x \in Value : (\A y \in Value \ {x} : c(y) <= F) => d.value = x
    <3>1. PICK T \in SUBSET G[r] : MadeOf(v, T)
      BY DEF World
    <3>2. PICK t : TallyOf(t, T) /\ VoteChoice(v) = MakeDecision(t)
      BY <3>1 DEF MadeOf
    <3>3. /\ IsFiniteSet(T) /\ Ballots(T) /\ Cardinality(T) >= QUORUM
          /\ \A u \in T : u.vote_type = "InitialVote"
      BY <1>2, <3>1 DEF MadeOf
    <3> DEFINE d == MakeDecision(t)
               c(x) == Cardinality(Votes(T, "InitialVote", x))
    <3>4. /\ d.vote_type # "Decide"
          /\ d.vote_type = "Commit" => c(d.value) >= QUORUM
          /\ \A x \in Value : (\A y \in Value \ {x} : c(y) <= F) => d.value = x
      BY <3>2, <3>3, RuleOfInitialVotes
    <3>5. d \in Decision /\ v.vote_type = d.vote_type /\ v.value = d.value
      BY <3>2, MakeDecisionType DEF VoteChoice, Choice
    <3> HIDE DEF d
    <3> QED BY <3>4, <3>5
  <2>2. ASSUME NEW v \in G[r + 1], NEW w \in G[r + 1],
               v.vote_type # "InitialVote"
        PROVE  w.value = v.value
    <3>1. PICK S \in SUBSET G[r], b \in Decision :
             /\ v.vote_type = b.vote_type /\ v.value = b.value
             /\ b.vote_type # "Decide"
             /\ b.vote_type = "Commit" =>
                   Cardinality(Votes(S, "InitialVote", b.value)) >= QUORUM
      BY <2>1
    <3>2. PICK T \in SUBSET G[r], d \in Decision :
             /\ w.value = d.value
             /\ \A x \in Value :
                   (\A y \in Value \ {x} : Cardinality(Votes(T, "InitialVote", y)) <= F)
                   => d.value = x
      BY <2>1
    <3> DEFINE x == b.value
    <3>3. b.vote_type = "Commit" /\ x \in Value
      BY <2>2, <3>1 DEF Decision, VoteType
    <3>4. ASSUME NEW y \in Value \ {x}
          PROVE  Cardinality(Votes(T, "InitialVote", y)) <= F
      <4> DEFINE A == Votes(S, "InitialVote", x)
                 B == Votes(T, "InitialVote", y)
      <4>1. A \in SUBSET G[r] /\ B \in SUBSET G[r] /\ A \cap B = {}
        BY DEF Votes
      <4>2. Cardinality(A) \in Nat /\ Cardinality(B) \in Nat
        BY <4>1, WorldSize
      <4>3. Cardinality(A) + Cardinality(B) <= 3 * F + 1
        <5> HIDE DEF A, B
        <5> QED BY <4>1, QuorumsMeet
      <4>4. Cardinality(A) >= QUORUM
        BY <3>1, <3>3
      <4> HIDE DEF A
      <4> QED BY <4>2, <4>3, <4>4, FAssumption DEF QUORUM
    <3> QED BY <3>1, <3>2, <3>3, <3>4
  <2>3. \A v \in G[r + 1] : v.vote_type # "Decide"
    BY <2>1
  <2> QED BY <2>2, <2>3 DEF Settled
<1> QED BY <1>1, <1>2

LEMMA AllSettled ==
    ASSUME NEW G, World(G)
    PROVE  \A r \in Round : Settled(G, r)
<1> DEFINE T == {r \in Round : ~Settled(G, r)}
<1> SUFFICES ASSUME T # {}
             PROVE  FALSE
  OBVIOUS
<1>1. T \in SUBSET Nat
  BY DEF Round
<1>2. PICK r \in T : \A q \in T : r <= q
  BY <1>1, LeastElement
<1>3. r # 0 /\ r \in Round
  BY <1>2, SettledStart
<1>4. r - 1 \in Nat /\ r - 1 \in Round /\ (r - 1) + 1 = r
  BY <1>3, BoundAssumption DEF Round
<1>5. Settled(G, r - 1)
  <2> SUFFICES ASSUME r - 1 \in T
               PROVE  FALSE
    BY <1>4
  <2>1. r <= r - 1
    BY <1>2
  <2> QED BY <1>4, <2>1
<1>6. Settled(G, (r - 1) + 1)
  BY <1>3, <1>4, <1>5, SettledNext
<1> QED BY <1>2, <1>4, <1>6

\* A vote that is not an InitialVote fixes the value of its round and of every
\* later one.
LEMMA ValueFixed ==
    ASSUME NEW G, World(G), NEW r \in Round, NEW v \in G[r],
           v.vote_type # "InitialVote"
    PROVE  \A q \in Round : r <= q => \A w \in G[q] : w.value = v.value
<1> DEFINE Fixed(q) == \A w \in G[q] : w.value = v.value
           T == {q \in Round : r <= q /\ ~Fixed(q)}
<1>1. T \in SUBSET Nat /\ r \in Nat
  BY DEF Round
<1>2. v.value \in Value
  <2>1. v \in Vote
    BY DEF World
  <2> QED BY <2>1, VoteFacts
<1>3. Fixed(r)
  BY AllSettled DEF Settled
<1>4. ASSUME NEW q \in Round, q + 1 \in Round, Fixed(q)
      PROVE  Fixed(q + 1)
  <2> SUFFICES ASSUME NEW w \in G[q + 1]
               PROVE  w.value = v.value
    OBVIOUS
  <2>1. PICK S \in SUBSET G[q] : MadeOf(w, S)
    BY <1>4 DEF World
  <2>2. Settled(G, q)
    BY AllSettled
  <2> QED BY <1>2, <1>4, <2>1, <2>2, ValueKept
<1>5. T = {}
  <2> SUFFICES ASSUME T # {}
               PROVE  FALSE
    OBVIOUS
  <2>1. PICK q \in T : \A p \in T : q <= p
    BY <1>1, LeastElement
  <2>2. q # r /\ q \in Round /\ r <= q /\ q \in Nat
    BY <1>1, <1>3, <2>1
  <2>3. q - 1 \in Nat /\ q - 1 \in Round /\ r <= q - 1 /\ (q - 1) + 1 = q
    BY <1>1, <2>2, BoundAssumption DEF Round
  <2>4. Fixed(q - 1)
    <3> SUFFICES ASSUME q - 1 \in T
                 PROVE  FALSE
      BY <2>3
    <3>1. q <= q - 1
      BY <2>1
    <3> QED BY <2>2, <3>1
  <2>5. Fixed((q - 1) + 1)
    <3> HIDE DEF Fixed
    <3> QED BY <1>4, <2>2, <2>3, <2>4
  <2> QED BY <2>1, <2>3, <2>5
<1> QED BY <1>5

\* The value of a vote was the initial vote of more than F nodes.
LEMMA ValueSupported ==
    ASSUME NEW G, World(G), NEW r \in Round, r + 1 \in Round,
           NEW v \in G[r + 1]
    PROVE  \E T \in SUBSET G[r] :
              /\ Cardinality(T) > F
              /\ \A w \in T : w.value = v.value
<1>1. PICK T \in SUBSET G[r] : MadeOf(v, T)
  BY DEF World
<1>2. Settled(G, r)
  BY AllSettled
<1>3. /\ IsFiniteSet(T) /\ Ballots(T) /\ Cardinality(T) >= QUORUM
      /\ Cardinality(T) \in Nat
  BY <1>1, WorldSize DEF MadeOf
<1>4. Cardinality(T) > F
  BY <1>3, FAssumption DEF QUORUM
<1>5. CASE \E u \in G[r] : u.vote_type # "InitialVote"
  <2>1. PICK u \in G[r] : u.vote_type # "InitialVote"
    BY <1>5
  <2>2. u.value \in Value
    <3>1. u \in Vote
      BY <2>1 DEF World
    <3> QED BY <3>1, VoteFacts
  <2>3. \A w \in G[r] : w.value = u.value
    BY <1>2, <2>1 DEF Settled
  <2>4. v.value = u.value
    BY <1>1, <1>2, <2>2, <2>3, ValueKept
  <2> QED BY <1>4, <2>3, <2>4
<1>6. CASE \A u \in G[r] : u.vote_type = "InitialVote"
  <2>1. PICK t : TallyOf(t, T) /\ VoteChoice(v) = MakeDecision(t)
    BY <1>1 DEF MadeOf
  <2>2. \A u \in T : u.vote_type = "InitialVote"
    BY <1>6
  <2>3. Cardinality(Votes(T, "InitialVote", MakeDecision(t).value)) > F
    BY <1>3, <2>1, <2>2, RuleOfInitialVotes
  <2>4. v.value = MakeDecision(t).value
    BY <2>1 DEF VoteChoice, Choice
  <2> DEFINE S == Votes(T, "InitialVote", v.value)
  <2>5. S \in SUBSET G[r] /\ \A w \in S : w.value = v.value
    BY DEF Votes
  <2> QED BY <2>3, <2>4, <2>5
<1> QED BY <1>5, <1>6

\* Down to the initial votes.
LEMMA SupportedFromStart ==
    ASSUME NEW G, World(G), NEW r \in Round, r > 0, NEW v \in G[r]
    PROVE  \E T \in SUBSET G[0] :
              /\ Cardinality(T) > F
              /\ \A w \in T : w.value = v.value
<1> DEFINE Backed(u) == \E T \in SUBSET G[0] :
                           /\ Cardinality(T) > F
                           /\ \A w \in T : w.value = u.value
           B == {q \in Round : q > 0 /\ \E u \in G[q] : ~Backed(u)}
<1>1. B \in SUBSET Nat
  BY DEF Round
<1>2. B = {}
  <2> SUFFICES ASSUME B # {}
               PROVE  FALSE
    OBVIOUS
  <2>1. PICK q \in B : \A p \in B : q <= p
    BY <1>1, LeastElement
  <2>2. PICK u \in G[q] : ~Backed(u)
    BY <2>1
  <2>3. q \in Nat /\ q > 0 /\ q - 1 \in Nat /\ q - 1 \in Round /\ (q - 1) + 1 = q /\ q \in Round
    BY <2>1, BoundAssumption DEF Round
  <2>4. PICK T \in SUBSET G[q - 1] :
           Cardinality(T) > F /\ \A w \in T : w.value = u.value
    BY <2>3, ValueSupported
  <2>5. CASE q - 1 = 0
    BY <2>2, <2>4, <2>5
  <2>6. CASE q - 1 > 0
    <3>1. q - 1 \notin B
      <4> SUFFICES ASSUME q - 1 \in B
                   PROVE  FALSE
        OBVIOUS
      <4>1. q <= q - 1
        BY <2>1
      <4> QED BY <2>3, <4>1
    <3>2. PICK w : w \in T
      <4>1. Cardinality(T) # 0
        BY <2>4, FAssumption
      <4> QED BY <4>1, FS_EmptySet
    <3>3. Backed(w)
      BY <2>3, <2>4, <2>6, <3>1, <3>2
    <3>4. w.value = u.value
      BY <2>4, <3>2
    <3> QED BY <2>2, <3>3, <3>4
  <2> QED BY <2>3, <2>5, <2>6
<1>3. Backed(v)
  BY <1>2
<1> QED BY <1>3
-----------------------------------------------------------------------------
\* The votes n validated in e.
View(n, e) == [r \in Round |-> Validated(n, e, r)]

\* A vote held by a node that follows the rule is made of a quorum of votes of
\* the round before, held by it too.
LEMMA MadeInView ==
    ASSUME ViewInv, NEW n \in Honest, NEW e \in Election, NEW r \in Round,
           r + 1 \in Round, NEW v \in Validated(n, e, r + 1)
    PROVE  \E T \in SUBSET Validated(n, e, r) : MadeOf(v, T)
<1>1. /\ n \in Node /\ v \in msgs /\ v.election_hash = e /\ v.round = r + 1
      /\ v.round > 0 /\ v.round - 1 = r /\ r + 1 \in Round \ {0}
  BY DEF ViewInv, VotesInv, ViewsAreVotes, Honest, Round
<1> DEFINE T == ProofVotes(n, v)
<1>2. /\ v.proof \subseteq {Digest(w) : w \in T}
      /\ \E t : TallyOf(t, T) /\ VoteChoice(v) = MakeDecision(t)
  <2>1. CASE v.signer = n
    <3>1. v \in OwnVotesOf(n, e, r + 1)
      BY <2>1 DEF OwnVotesOf
    <3>2. /\ v.proof \subseteq {Digest(w) : w \in T}
          /\ VoteChoice(v) = MakeDecision(Seen(T))
          /\ \E w \in T : w.vote_type # "Decide"
      BY <1>1, <3>1 DEF ViewInv, RuleInv, HonestJustified
    <3>3. TallyOf(Seen(T), T)
      BY <3>2 DEF TallyOf
    <3> QED BY <3>2, <3>3
  <2>2. CASE v.signer # n
    <3>1. /\ v.proof \subseteq {Digest(w) : w \in T}
          /\ VoteChoice(v) = MakeDecision(FromVotes(T))
      BY <1>1, <2>2 DEF ViewInv, RuleInv, ValidatedJustified
    <3>2. TallyOf(FromVotes(T), T)
      BY DEF TallyOf
    <3> QED BY <3>1, <3>2
  <2> QED BY <2>1, <2>2
<1>3. T \subseteq Validated(n, e, r)
  BY <1>1 DEF ProofVotes
<1>4. IsFiniteSet(T) /\ Ballots(T) /\ Cardinality(T) \in Nat
  <2>1. IsFiniteSet(T)
    BY <1>1, <1>3, FS_Subset DEF ViewInv, VotesInv, ViewsAreVotes
  <2>2. T \subseteq Vote
    BY <1>1, <1>3 DEF ViewInv, VotesInv, ViewsAreVotes, TypeOK
  <2> QED BY <2>1, <2>2, FS_CardinalityType, VoteFacts DEF Ballots
<1>5. Cardinality(T) >= QUORUM
  <2>1. Cardinality(v.proof) <= Cardinality(T)
    BY <1>2, <1>4, NoMoreSigners
  <2>2. Cardinality(v.proof) = QUORUM
    BY <1>1 DEF ViewInv, RoundsInv, ProofsAreQuorums
  <2> QED BY <1>4, <2>1, <2>2, FAssumption DEF QUORUM
<1>6. MadeOf(v, T)
  BY <1>2, <1>4, <1>5 DEF MadeOf
<1> QED BY <1>3, <1>6

\* What a node that follows the rule holds is a world.
LEMMA ViewWorld ==
    ASSUME ViewInv, NEW n \in Honest, NEW e \in Election
    PROVE  World(View(n, e))
<1>1. n \in Node /\ 0 \in Round
  BY BoundAssumption DEF Honest, Round
<1>2. \A r \in Round : View(n, e)[r] = Validated(n, e, r)
  BY DEF View
<1>3. ASSUME NEW r \in Round
      PROVE  \A w \in Validated(n, e, r) : w \in Vote /\ w \in msgs /\ w.round = r
  BY <1>1 DEF ViewInv, VotesInv, ViewsAreVotes, TypeOK
<1>4. \A r \in Round : \A v, w \in Validated(n, e, r) : v.signer = w.signer => v = w
  BY <1>1 DEF ViewInv, VotesInv, HeldOnce
<1>5. \A v \in Validated(n, e, 0) : v.vote_type = "InitialVote"
  BY <1>1, <1>3 DEF ViewInv, VotesInv, StartsInitial
<1>6. \A r \in Round : r + 1 \in Round =>
          \A v \in Validated(n, e, r + 1) :
              \E T \in SUBSET Validated(n, e, r) : MadeOf(v, T)
  BY MadeInView
<1> QED BY <1>1, <1>2, <1>3, <1>4, <1>5, <1>6 DEF World

\* The good votes: those a node that follows the rule validated.
Good(e, r) == UNION {Validated(n, e, r) : n \in Honest}

GoodVotes(e) == [r \in Round |-> Good(e, r)]

\* Together they are a world too.
LEMMA GoodWorld ==
    ASSUME Inv, NEW e \in Election
    PROVE  World(GoodVotes(e))
<1>1. ViewInv /\ NoEquivocation /\ Honest \subseteq Node /\ 0 \in Round
  BY BoundAssumption DEF Inv, Honest, Round
<1>2. \A r \in Round : GoodVotes(e)[r] = Good(e, r)
  BY DEF GoodVotes
<1>3. ASSUME NEW r \in Round
      PROVE  \A w \in Good(e, r) :
                 w \in Vote /\ w \in msgs /\ w.round = r /\ w.election_hash = e
  BY <1>1 DEF Good, ViewInv, VotesInv, ViewsAreVotes, TypeOK
<1>4. \A r \in Round : \A v, w \in Good(e, r) : v.signer = w.signer => v = w
  BY <1>1, <1>3 DEF NoEquivocation
<1>5. \A v \in Good(e, 0) : v.vote_type = "InitialVote"
  BY <1>1, <1>3 DEF ViewInv, VotesInv, StartsInitial
<1>6. ASSUME NEW r \in Round, r + 1 \in Round, NEW v \in Good(e, r + 1)
      PROVE  \E T \in SUBSET Good(e, r) : MadeOf(v, T)
  <2>1. PICK n \in Honest : v \in Validated(n, e, r + 1)
    BY DEF Good
  <2>2. PICK T \in SUBSET Validated(n, e, r) : MadeOf(v, T)
    BY <1>1, <1>6, <2>1, MadeInView
  <2> QED BY <2>1, <2>2 DEF Good
<1> QED BY <1>1, <1>2, <1>3, <1>4, <1>5, <1>6 DEF World

\* A vote of a node that follows the rule is good.
LEMMA HonestGood ==
    ASSUME Inv, NEW v \in msgs, v.signer \in Honest
    PROVE  /\ v \in GoodVotes(v.election_hash)[v.round]
           /\ v.election_hash \in Election /\ v.round \in Round /\ v.round \in Nat
<1>1. v \in Vote
  BY DEF Inv, ViewInv, VotesInv, TypeOK
<1>2. v.election_hash \in Election /\ v.round \in Round /\ v.round \in Nat
  BY <1>1, VoteFacts
<1>3. v \in Validated(v.signer, v.election_hash, v.round)
  BY DEF Inv, OwnVotesKept
<1> QED BY <1>2, <1>3 DEF GoodVotes, Good

LEMMA LocksFollow == Inv => DecisionLocks
<1> SUFFICES ASSUME Inv, NEW v \in msgs, NEW w \in msgs,
                    v.signer \in Honest, w.signer \in Honest,
                    v.vote_type = "Decide", v.election_hash = w.election_hash,
                    v.round <= w.round
             PROVE  v.value = w.value
  BY DEF DecisionLocks
<1> DEFINE e == v.election_hash
           G == GoodVotes(e)
<1>1. /\ v \in G[v.round] /\ e \in Election /\ v.round \in Round
      /\ w \in G[w.round] /\ w.round \in Round
  BY HonestGood
<1>2. World(G)
  BY <1>1, GoodWorld
<1> HIDE DEF G
<1>3. \A q \in Round : v.round <= q => \A u \in G[q] : u.value = v.value
  BY <1>1, <1>2, ValueFixed
<1> QED BY <1>1, <1>3

\* The Decide of a node for what it decided, among the votes it holds.
LEMMA DecideHeld ==
    ASSUME ViewInv, NEW n \in Node, NEW e \in Election, decided[n][e] # None
    PROVE  \E r \in Round : \E v \in Validated(n, e, r) :
              /\ v \in msgs /\ v.signer = n /\ v.election_hash = e
              /\ v.round = r /\ r > 0
              /\ v.vote_type = "Decide" /\ v.value = decided[n][e]
<1>1. PICK r \in Round : \E v \in OwnVotesOf(n, e, r) :
         v.vote_type = "Decide" /\ v.value = decided[n][e]
  BY DEF ViewInv, RoundsInv, DecidedByVote
<1>2. PICK v \in Validated(n, e, r) :
         v.signer = n /\ v.vote_type = "Decide" /\ v.value = decided[n][e]
  BY <1>1 DEF OwnVotesOf
<1>3. v \in msgs /\ v.election_hash = e /\ v.round = r
  BY <1>2 DEF ViewInv, VotesInv, ViewsAreVotes
<1>4. r > 0
  <2>1. r # 0
    BY <1>2, <1>3 DEF ViewInv, VotesInv, StartsInitial
  <2> QED BY <2>1 DEF Round
<1> QED BY <1>2, <1>3, <1>4

LEMMA AgreementFollows == Inv => Agreement
<1> SUFFICES ASSUME Inv, NEW n \in Honest, NEW m \in Honest, NEW e \in Election,
                    decided[n][e] # None, decided[m][e] # None
             PROVE  decided[n][e] = decided[m][e]
  BY DEF Agreement
<1>1. n \in Node /\ m \in Node /\ ViewInv
  BY DEF Honest, Inv
<1>2. PICK v \in msgs : /\ v.signer = n /\ v.election_hash = e
                        /\ v.vote_type = "Decide" /\ v.value = decided[n][e]
  BY <1>1, DecideHeld
<1>3. PICK w \in msgs : /\ w.signer = m /\ w.election_hash = e
                        /\ w.vote_type = "Decide" /\ w.value = decided[m][e]
  BY <1>1, DecideHeld
<1>4. v.round \in Nat /\ w.round \in Nat
  BY <1>2, <1>3, HonestGood
<1>5. CASE v.round <= w.round
  BY <1>2, <1>3, <1>5, LocksFollow DEF DecisionLocks
<1>6. CASE w.round <= v.round
  BY <1>2, <1>3, <1>6, LocksFollow DEF DecisionLocks
<1> QED BY <1>4, <1>5, <1>6

LEMMA NoClashFollows == ViewInv => NoCommitClash
<1> SUFFICES ASSUME ViewInv, NEW n \in Honest, NEW e \in Election, NEW r \in Round,
                    elections[n][e].state[r].tally.zero_commits # 0,
                    elections[n][e].state[r].tally.one_commits # 0
             PROVE  FALSE
  BY DEF NoCommitClash
<1> DEFINE G == View(n, e)
           V == Validated(n, e, r)
           t == elections[n][e].state[r].tally
<1>1. n \in Node
  BY DEF Honest
<1>2. t = Seen(V)
  BY <1>1 DEF ViewInv, RoundsInv, TallyMatchesVotes
<1>3. World(G) /\ G[r] = V
  BY ViewWorld DEF View
<1> HIDE DEF G, V
<1>4. IsFiniteSet(V) /\ Ballots(V)
  BY <1>3, WorldSize
<1>5. /\ t.zero_commits = Cardinality(Votes(V, "Commit", "Zero"))
      /\ t.one_commits = Cardinality(Votes(V, "Commit", "One"))
  BY <1>2 DEF Seen, FromVotes
<1>6. /\ Cardinality(Votes(V, "Commit", "Zero")) \in Nat
      /\ Cardinality(Votes(V, "Commit", "One")) \in Nat
  BY <1>4, FromVotesType
<1>7. PICK v \in V : v.vote_type = "Commit" /\ v.value = "Zero"
  <2>1. Cardinality(Votes(V, "Commit", "Zero")) > 0
    BY <1>5, <1>6
  <2> QED BY <1>4, <2>1, SomeVote
<1>8. PICK w \in V : w.vote_type = "Commit" /\ w.value = "One"
  <2>1. Cardinality(Votes(V, "Commit", "One")) > 0
    BY <1>5, <1>6
  <2> QED BY <1>4, <2>1, SomeVote
<1>9. Settled(G, r)
  BY <1>3, AllSettled
<1> QED BY <1>3, <1>7, <1>8, <1>9 DEF Settled

LEMMA SupportFollows == Inv => DecisionSupported
<1> SUFFICES ASSUME Inv, NEW n \in Honest, NEW e \in Election, decided[n][e] # None
             PROVE  Cardinality({v \in msgs : /\ v.election_hash = e /\ v.round = 0
                                              /\ v.value = decided[n][e]}) > F
  BY DEF DecisionSupported
<1> DEFINE S == {v \in msgs : /\ v.election_hash = e /\ v.round = 0
                              /\ v.value = decided[n][e]}
           G == View(n, e)
<1>1. n \in Node /\ ViewInv /\ 0 \in Round
  BY BoundAssumption DEF Honest, Inv, Round
<1>2. PICK r \in Round : \E v \in Validated(n, e, r) :
         r > 0 /\ v.value = decided[n][e]
  BY <1>1, DecideHeld
<1>3. PICK v \in Validated(n, e, r) : r > 0 /\ v.value = decided[n][e]
  BY <1>2
<1>4. /\ World(G) /\ v \in G[r]
      /\ \A w \in G[0] : w \in msgs /\ w.election_hash = e /\ w.round = 0
  BY <1>1, <1>3, ViewWorld DEF View, ViewInv, VotesInv, ViewsAreVotes
<1> HIDE DEF G
<1>5. PICK T \in SUBSET G[0] :
         Cardinality(T) > F /\ \A w \in T : w.value = decided[n][e]
  BY <1>3, <1>4, SupportedFromStart
<1>6. T \subseteq S
  BY <1>4, <1>5
<1>7. IsFiniteSet(S)
  <2> DEFINE f == [w \in S |-> w.signer]
  <2>1. \A w \in S : w.signer \in Node
    BY VoteFacts DEF Inv, ViewInv, VotesInv, TypeOK
  <2>2. \A u, w \in S : u.signer = w.signer => u = w
    BY DEF Inv, NoEquivocation
  <2> HIDE DEF S
  <2>3. f \in Injection(S, Node)
    BY <2>1, <2>2 DEF Injection, IsInjective
  <2> QED BY <2>3, FS_Injection, CommitteeAssumption
<1>8. Cardinality(T) <= Cardinality(S) /\ Cardinality(S) \in Nat /\ Cardinality(T) \in Nat
  <2> HIDE DEF S
  <2> QED BY <1>6, <1>7, FS_Subset, FS_CardinalityType
<1> HIDE DEF S
<1>9. Cardinality(S) > F
  BY <1>5, <1>8, FAssumption
<1> QED BY <1>9 DEF S

\* Two nodes that follow the rule agree on what a proof says: each of its votes
\* was cast once, and both hold it.
LEMMA ProvenFollows == Inv => ProvenVotesAccepted
<1> SUFFICES ASSUME Inv, NEW n \in Honest, NEW v \in msgs,
                    v.signer \in Honest, v.round > 0,
                    Validated(n, v.election_hash, v.round - 1) # {},
                    Votes(ProofVotes(n, v), "Decide", "Zero") = {}
             PROVE  "Invalid" \notin ValidateVote(n, v)
  BY DEF ProvenVotesAccepted
<1> DEFINE e == v.election_hash
           m == v.signer
           q == v.round - 1
           S == ProofVotes(m, v)
           T == ProofVotes(n, v)
<1>1. /\ v \in Vote /\ e \in Election /\ m \in Node /\ n \in Node
      /\ v.round \in Round \ {0} /\ q \in Round
  BY VoteFacts, BoundAssumption DEF Inv, ViewInv, VotesInv, TypeOK, Honest, Round
<1>2. /\ v.proof \subseteq {Digest(w) : w \in S}
      /\ VoteChoice(v) = MakeDecision(Seen(S))
  <2>1. v \in Validated(m, e, v.round)
    BY DEF Inv, OwnVotesKept
  <2>2. v \in OwnVotesOf(m, e, v.round)
    BY <2>1 DEF OwnVotesOf
  <2>3. HonestJustified /\ m \in Honest /\ e \in Election
    BY <1>1 DEF Inv, ViewInv, RuleInv
  <2> QED BY <1>1, <2>2, <2>3 DEF HonestJustified
<1> SUFFICES ASSUME v.proof \subseteq {Digest(w) : w \in Validated(n, e, q)}
             PROVE  "Invalid" \notin ValidateVote(n, v)
  BY <1>1 DEF ValidateVote
<1>3. \A w \in Validated(m, e, q) \union Validated(n, e, q) :
          w \in msgs /\ w.round = q /\ w.election_hash = e
  BY <1>1 DEF Inv, ViewInv, VotesInv, ViewsAreVotes
<1>4. S = T
  <2>1. S = {w \in Validated(m, e, q) : w.signer \in v.proof}
    BY DEF ProofVotes, Digest
  <2>2. T = {w \in Validated(n, e, q) : w.signer \in v.proof}
    BY DEF ProofVotes, Digest
  <2>3. \A p \in v.proof : /\ \E u \in Validated(m, e, q) : u.signer = p
                           /\ \E w \in Validated(n, e, q) : w.signer = p
    BY <1>2, <2>1 DEF Digest
  <2>4. \A u \in Validated(m, e, q), w \in Validated(n, e, q) :
            u.signer = w.signer => u = w
    BY <1>3 DEF Inv, NoEquivocation
  <2> QED BY <2>1, <2>2, <2>3, <2>4
<1>5. Seen(S) = FromVotes(S)
  BY <1>4, FS_EmptySet DEF Seen, FromVotes
<1>6. VoteChoice(v) = MakeDecision(FromVotes(T))
  BY <1>2, <1>4, <1>5
<1>7. \A d \in Decisions(n, FromVotes(T)) :
          d.value = v.value /\ d.vote_type = v.vote_type
  <2>1. \A d \in Decisions(n, FromVotes(T)) : d = MakeDecision(FromVotes(T))
    BY DecisionsFacts
  <2> QED BY <1>6, <2>1 DEF VoteChoice, Choice
<1> QED BY <1>1, <1>7 DEF ValidateVote
-----------------------------------------------------------------------------
\* Nodes that follow the rule never decide different values in one election.
THEOREM AgreementHolds == Spec => []Agreement
BY Invariant, AgreementFollows, PTL

\* A decided value was the initial vote of more than F nodes.
THEOREM DecisionsSupported == Spec => []DecisionSupported
BY Invariant, SupportFollows, PTL

\* A Decide fixes what the nodes that follow the rule vote from its round on.
THEOREM DecisionsLock == Spec => []DecisionLocks
BY Invariant, LocksFollow, PTL

\* No node that follows the rule counts commits for both values in one round.
THEOREM CommitsNeverClash == Spec => []NoCommitClash
<1>1. Inv => NoCommitClash
  BY NoClashFollows DEF Inv
<1> QED BY <1>1, Invariant, PTL

\* No node, byzantine or not, casts two votes in one round of an election.
THEOREM OneVotePerRound == Spec => []NoEquivocation
<1>1. Inv => NoEquivocation
  BY DEF Inv
<1> QED BY <1>1, Invariant, PTL

\* The proof of a vote names exactly a quorum, its signer among it.
THEOREM ProofsNameQuorums == Spec => []ProofsAreQuorums
<1>1. Inv => ProofsAreQuorums
  BY DEF Inv, ViewInv, RoundsInv
<1> QED BY <1>1, Invariant, PTL

\* No node is left with a quorum of a round and no vote in the next.
THEOREM AdvancesNeverMissed == Spec => []NoMissedAdvance
<1>1. Inv => NoMissedAdvance
  BY DEF Inv, ViewInv, RoundsInv
<1> QED BY <1>1, Invariant, PTL

\* The tallies kept vote by vote are those of the validated votes.
THEOREM TalliesMatch == Spec => []TallyMatchesVotes
<1>1. Inv => TallyMatchesVotes
  BY DEF Inv, ViewInv, RoundsInv
<1> QED BY <1>1, Invariant, PTL

\* The Decide of a node is its last vote of the election.
THEOREM NothingAfterDecide == Spec => []DecideIsLastVote
<1>1. Inv => DecideIsLastVote
  BY DEF Inv, ViewInv, RoundsInv
<1> QED BY <1>1, Invariant, PTL

\* Between nodes that follow the rule, a vote whose proof the node can look up
\* and that rests on no Decide for Zero is never turned down, in any round.
THEOREM ProvenVotesNeverInvalid == Spec => []ProvenVotesAccepted
BY Invariant, ProvenFollows, PTL
-----------------------------------------------------------------------------
(***************************************************************************)
(* NeroCore implements Consensus for the nodes that follow the rule.       *)
(***************************************************************************)
\* What the nodes that follow the rule decided.
HonestDecided == [n \in Honest |-> decided[n]]

LEMMA AgreementAfter == Inv' => Agreement'
BY AgreementFollows, PTL

\* What a step may do to it: nothing, or one first decision, for the value of
\* the others.
LEMMA StepDecides ==
    ASSUME Inv, Inv', [Next]_vars
    PROVE  \/ HonestDecided' = HonestDecided
           \/ \E n \in Honest, e \in Election, x \in Value :
                 /\ HonestDecided[n][e] = None
                 /\ \A m \in Honest : HonestDecided[m][e] \in {None, x}
                 /\ HonestDecided' = [HonestDecided EXCEPT ![n][e] = x]
<1>1. CASE UNCHANGED vars
  BY <1>1 DEF vars, HonestDecided
<1>2. ASSUME NEW n, NEW e, NEW r, NEW heard, NEW own, NEW cast,
             Shape(n, e, r, heard, own, cast)
      PROVE  \/ HonestDecided' = HonestDecided
             \/ /\ n \in Honest
                /\ e \in Election
                /\ \E x \in Value :
                      /\ HonestDecided[n][e] = None
                      /\ \A m \in Honest : HonestDecided[m][e] \in {None, x}
                      /\ HonestDecided' = [HonestDecided EXCEPT ![n][e] = x]
  <2>1. /\ n \in Node /\ e \in Election
        /\ \A m \in Node, f \in Election :
              m # n \/ f # e => decided'[m][f] = decided[m][f]
        /\ \A w \in cast : w \in Vote
    BY <1>2, ShapeFacts DEF Shape, Frame
  <2>2. /\ \A m \in Node : decided[m] \in [Election -> Value \union {None}]
        /\ \A m \in Node : decided'[m] \in [Election -> Value \union {None}]
        /\ Honest \subseteq Node
    BY DEF Inv, ViewInv, VotesInv, TypeOK, Honest
  <2>3. \A m \in Node : m # n => decided'[m] = decided[m]
    BY <2>1, <2>2
  <2>4. CASE decided'[n][e] = decided[n][e]
    <3>1. decided'[n] = decided[n]
      BY <2>1, <2>2, <2>4
    <3>2. \A m \in Honest : decided'[m] = decided[m]
      BY <2>2, <2>3, <3>1
    <3> QED BY <3>2 DEF HonestDecided
  <2>5. CASE n \notin Honest
    <3>1. \A m \in Honest : decided'[m] = decided[m]
      BY <2>2, <2>3, <2>5
    <3> QED BY <3>1 DEF HonestDecided
  <2>6. CASE decided'[n][e] # decided[n][e] /\ n \in Honest
    <3>1. PICK v \in cast : v.vote_type = "Decide"
      BY <1>2, <2>6 DEF Shape, Decides
    <3>2. /\ decided'[n][e] = v.value /\ v.value \in Value
          /\ ~elections[n][e].is_decided
      <4>1. decided'[n][e] = v.value /\ ~elections[n][e].is_decided
        BY <1>2, <3>1 DEF Shape, Decides, CastOK
      <4> QED BY <2>1, <3>1, <4>1, VoteFacts
    <3>3. decided[n][e] = None
      BY <2>1, <3>2 DEF Inv, ViewInv, RoundsInv, DecidedByVote, DecideIsFinal
    <3>4. ASSUME NEW m \in Honest
          PROVE  decided[m][e] \in {None, v.value}
      <4>1. CASE m = n
        BY <3>3, <4>1
      <4>2. CASE m # n
        <5>1. Agreement'
          BY AgreementAfter
        <5>2. v.value # None
          BY <3>2 DEF Value, None
        <5>3. decided'[m][e] = decided[m][e]
          BY <2>1, <2>2, <4>2
        <5>4. \/ None \in {decided'[m][e], decided'[n][e]}
              \/ decided'[m][e] = decided'[n][e]
          BY <2>1, <2>6, <5>1 DEF Agreement
        <5> QED BY <3>2, <5>2, <5>3, <5>4
      <4> QED BY <4>1, <4>2
    <3>5. HonestDecided' = [HonestDecided EXCEPT ![n][e] = v.value]
      <4>1. decided'[n] = [decided[n] EXCEPT ![e] = v.value]
        BY <2>1, <2>2, <3>2
      <4>2. \A m \in Honest : m # n => decided'[m] = decided[m]
        BY <2>2, <2>3
      <4> QED BY <2>6, <4>1, <4>2 DEF HonestDecided
    <3> QED BY <2>1, <2>6, <3>2, <3>3, <3>4, <3>5 DEF HonestDecided
  <2> QED BY <2>4, <2>5, <2>6
<1> QED BY <1>1, <1>2, StepShape

\* The core implements Consensus: every step decides nothing, or decides one
\* election at one node for the first time, for the value of the others.
THEOREM CoreImplementsConsensus == Spec => ImplementsConsensus
<1>1. Init => Abstract!Init
  BY DEF Init, Abstract!Init, Honest
<1>2. Inv /\ Inv' /\ [Next]_vars =>
          [Abstract!Next]_([n \in Honest |-> decided[n]])
  BY StepDecides DEF HonestDecided, Abstract!Next, Abstract!Decide
<1> QED BY <1>1, <1>2, Invariant, PTL DEF Spec, ImplementsConsensus, Abstract!Spec
=============================================================================
