----------------------------- MODULE Simulation -----------------------------
(***************************************************************************)
(* The round simulator, node/src/consensus.rs: a stand-alone program that  *)
(* plays one consensus instance after another among NUMBER_OF_NODES nodes  *)
(* under a voting rule of its own.  One instance is modelled; the next     *)
(* starts from nothing.  A vote is 0, 1 or Delayed; votes[j][r + 1] is     *)
(* what node j sent each node in round r, so a node's round is the length  *)
(* of its history.  The honest nodes come first, as in the code.           *)
(*                                                                         *)
(* A byzantine node sends one vote to everybody, so the test that would    *)
(* exclude it (lines 177-180) never holds and excluded_nodes stays empty.  *)
(***************************************************************************)
EXTENDS Integers, Sequences, FiniteSets

CONSTANTS
    NUMBER_OF_NODES,   \* 4 in the code
    Delayable,         \* bound: the <<sender, recipient>> of votes that may be late
    ByzantineChoices,  \* what a byzantine node may send (-1 .. 1 in the code)
    MaxRound           \* bound: the last round of the byzantine nodes

NUMBER_OF_BYZANTINE_NODES == (NUMBER_OF_NODES - 1) \div 3
NUMBER_OF_HONEST_NODES    == NUMBER_OF_NODES - NUMBER_OF_BYZANTINE_NODES
\* Mutant: a quorum need not hold an honest majority.
Majority == NUMBER_OF_NODES \div 2
QUORUM == NUMBER_OF_BYZANTINE_NODES * 2 + 1

Nodes     == 0 .. NUMBER_OF_NODES - 1
Honest    == 0 .. NUMBER_OF_HONEST_NODES - 1
Byzantine == Nodes \ Honest
Delayed   == -1

ASSUME SimulationAssumption ==
    /\ NUMBER_OF_NODES \in Nat \ {0} /\ MaxRound \in Nat
    /\ Delayable \subseteq Honest \X Nodes
    /\ ByzantineChoices \subseteq {Delayed, 0, 1} /\ ByzantineChoices # {}

VARIABLES
    drawn,        \* the initial vote each honest node drew
    votes,        \* the history of votes of every node
    zero_quorum,  \* the rounds in which a node saw a quorum of zeros
    one_quorum,   \* and of ones
    decided,      \* what a node decided, if it has
    turn          \* the node of the loop at lines 69-160, or what follows it

vars == <<drawn, votes, zero_quorum, one_quorum, decided, turn>>

Undecided == -1
Same(v) == [i \in Nodes |-> v]
Round(j) == Len(votes[j]) - 1

TypeOK ==
    /\ drawn \in [Honest -> {0, 1}]
    /\ votes \in [Nodes -> Seq([Nodes -> {Delayed, 0, 1}])]
    /\ zero_quorum \in [Honest -> SUBSET (0 .. MaxRound)]
    /\ one_quorum \in [Honest -> SUBSET (0 .. MaxRound)]
    /\ decided \in [Honest -> {0, 1, Undecided}]
    /\ turn \in 0 .. NUMBER_OF_HONEST_NODES + 1

\* Initial votes: each recipient gets the vote drawn, or gets it later.
InitialVotes(late) ==
    [j \in Honest |-> << [i \in Nodes |-> IF <<j, i>> \in late THEN Delayed ELSE drawn[j]] >>]

Init ==
    /\ drawn \in [Honest -> {0, 1}]
    /\ \E late \in SUBSET Delayable, b \in [Byzantine -> ByzantineChoices] :
          votes = [j \in Nodes |-> IF j \in Honest THEN InitialVotes(late)[j]
                                                   ELSE << Same(b[j]) >>]
    /\ zero_quorum = [i \in Honest |-> {}] /\ one_quorum = [i \in Honest |-> {}]
    /\ decided = [i \in Honest |-> Undecided]
    /\ turn = 0
-----------------------------------------------------------------------------
\* The nodes whose vote of round r is v, as node i sees them.
Seen(i, r, v) == {j \in Nodes : r <= Round(j) /\ votes[j][r + 1][i] = v}
Zeros(i) == Cardinality(Seen(i, Round(i), 0))
Ones(i)  == Cardinality(Seen(i, Round(i), 1))

Cast(i, v) == votes' = [votes EXCEPT ![i] = Append(@, Same(v))]

\* Mutant: the round is noted in place of the value.
DecidesRound(i, quorums, v) ==
    decided' = [decided EXCEPT ![i] =
        IF Round(i) # 0 /\ Round(i) - 1 \in quorums THEN Round(i) ELSE @]

\* A second quorum for v in a row decides it.
Decides(i, quorums, v) ==
    decided' = [decided EXCEPT ![i] =
        IF Round(i) # 0 /\ Round(i) - 1 \in quorums THEN v ELSE @]

\* An undecided node with a quorum of ones.
AdvanceOnOnes(i) ==
    /\ decided[i] = Undecided /\ Ones(i) >= QUORUM
    /\ one_quorum' = [one_quorum EXCEPT ![i] = @ \union {Round(i)}]
    /\ Cast(i, 1)
    /\ Decides(i, one_quorum[i], 1)
    /\ UNCHANGED zero_quorum

AdvanceOnZeros(i) ==
    /\ decided[i] = Undecided /\ Ones(i) < QUORUM /\ Zeros(i) >= QUORUM
    /\ zero_quorum' = [zero_quorum EXCEPT ![i] = @ \union {Round(i)}]
    /\ Cast(i, 0)
    /\ Decides(i, zero_quorum[i], 0)
    /\ UNCHANGED one_quorum

\* No quorum for either: vote 0.
AdvanceOnNeither(i) ==
    /\ decided[i] = Undecided /\ Ones(i) < QUORUM /\ Zeros(i) < QUORUM
    /\ Cast(i, 0)
    /\ UNCHANGED <<zero_quorum, one_quorum, decided>>

\* A decided node votes what it decided.
AdvanceDecided(i) ==
    /\ decided[i] # Undecided
    /\ Cast(i, decided[i])
    /\ UNCHANGED <<zero_quorum, one_quorum, decided>>

\* The late votes of a node arrive: as ones if anyone got a one, else as zeros.
Arrived(v) ==
    [i \in Nodes |-> IF v[i] # Delayed THEN v[i]
                     ELSE IF \E k \in Nodes : v[k] = 1 THEN 1 ELSE 0]

\* Mutant: only the node's own late votes arrive.
ReceiveOwn(i) ==
    LET r == Round(i)
    IN  /\ votes' = [votes EXCEPT ![i][r + 1] = Arrived(@)]
        /\ UNCHANGED <<zero_quorum, one_quorum, decided>>

\* Too few votes to go on: what is late in this round arrives everywhere.
ReceiveDelayed(i) ==
    LET r == Round(i)
    IN  /\ votes' = [j \in Nodes |->
                        IF j \in Honest /\ r <= Round(j)
                        THEN [votes[j] EXCEPT ![r + 1] = Arrived(@)] ELSE votes[j]]
        /\ UNCHANGED <<zero_quorum, one_quorum, decided>>

\* One pass of the loop over the honest nodes.
Visit(i) ==
    /\ turn = i
    /\ IF Zeros(i) + Ones(i) >= QUORUM
       THEN \/ AdvanceOnOnes(i) \/ AdvanceOnZeros(i)
            \/ AdvanceOnNeither(i) \/ AdvanceDecided(i)
       ELSE ReceiveDelayed(i)
    /\ turn' = i + 1
    /\ UNCHANGED drawn

AllDecided == \A i \in Honest : decided[i] # Undecided

\* Try to conclude: the assertion, and the end of the instance.
Conclude ==
    /\ turn = NUMBER_OF_HONEST_NODES /\ AllDecided
    /\ turn' = NUMBER_OF_HONEST_NODES + 1
    /\ UNCHANGED <<drawn, votes, zero_quorum, one_quorum, decided>>

\* New byzantine votes, and round the loop again.
NewByzantineVotes ==
    /\ turn = NUMBER_OF_HONEST_NODES /\ ~AllDecided
    /\ \A j \in Byzantine : Round(j) < MaxRound
    /\ \E b \in [Byzantine -> ByzantineChoices] :
          votes' = [j \in Nodes |-> IF j \in Byzantine THEN Append(votes[j], Same(b[j]))
                                                       ELSE votes[j]]
    /\ turn' = 0
    /\ UNCHANGED <<drawn, zero_quorum, one_quorum, decided>>

Next == (\E i \in Honest : Visit(i)) \/ Conclude \/ NewByzantineVotes

\* The program is one thread and runs on.
Spec == Init /\ [][Next]_vars /\ WF_vars(Next)
-----------------------------------------------------------------------------
\* No round shows a quorum of zeros to one node and of ones to another, though
\* they look at different times and some votes are late (lines 92-126).
NoOpposedQuorums ==
    \A i, j \in Honest : one_quorum[i] \intersect zero_quorum[j] = {}

\* A node votes 1 after the first round only if enough nodes for an honest
\* majority drew a 1: no run of delays and byzantine votes, and no default,
\* makes ones out of zeros (lines 92-133).
OnesAreGrounded ==
    (\E i \in Honest, r \in 1 .. MaxRound + 1 :
        r <= Round(i) /\ votes[i][r + 1] = Same(1))
    => Cardinality({j \in Honest : drawn[j] = 1}) > NUMBER_OF_BYZANTINE_NODES

\* No byzantine node ever sent a vote.
Silence == \A j \in Byzantine : \A r \in DOMAIN votes[j] : votes[j][r] = Same(Delayed)

\* The assertion of line 165, assert!(decided.iter().all(|(a, b)| b == d)), where
\* the byzantine nodes are silent: whatever is late, and whatever arrives in the
\* place of it, the honest nodes decide alike.
AgreedInSilence ==
    turn = NUMBER_OF_HONEST_NODES /\ AllDecided /\ Silence
        => \A i, j \in Honest : decided[i] = decided[j]

\* Where they are silent, every instance ends.
ConcludesInSilence == []Silence => <>(turn = NUMBER_OF_HONEST_NODES + 1)
=============================================================================
