------------------------------ MODULE NeroFifo ------------------------------
(***************************************************************************)
(* The cores of NeroCore over the connections of the primaries.  A vote    *)
(* that a node casts is put, in the order of casting, into the connection  *)
(* to every peer (Core::broadcast_message, ReliableSender::broadcast); the *)
(* peer takes the votes of one connection in that order (one receiver task *)
(* for each connection, one channel to the core) and each of them once.    *)
(* As no receiver of a primary writes an ACK (primary.rs:139), a new       *)
(* connection starts again from the first vote ever sent.                  *)
(*                                                                         *)
(* A node casts its votes of an election in the order of their rounds      *)
(* (VotesInOrder), so a connection is known by the number of votes of each *)
(* election that were taken from it.  Votes of different elections are not *)
(* ordered here; elections share no state.  What the receiver still holds  *)
(* of a broken connection is dropped with it.                              *)
(***************************************************************************)
EXTENDS NeroCore

VARIABLE taken  \* taken[n][m][e]: the votes of m in e that n took from the
                \* connection of m to n that is up

fifoVars == <<elections, decided, msgs, taken>>

\* A core is never ahead of the votes it may handle (the bound on rounds).
FifoTypeOK == TypeOK /\ taken \in [Node -> [Node -> [Election -> 0 .. MaxRound]]]

FifoInit == Init /\ taken = [n \in Node |-> [m \in Node |-> [e \in Election |-> 0]]]

\* Mutant: votes overtake each other on a connection.
VotesAhead(n, m, e) ==
    {v \in msgs : /\ v.signer = m
                  /\ v.election_hash = e
                  /\ v.round >= taken[n][m][e]}

\* The vote of m in e that the connection of m to n gives n next, if m has cast it.
NextVotes(n, m, e) ==
    {v \in msgs : /\ v.signer = m
                  /\ v.election_hash = e
                  /\ v.round = taken[n][m][e]}

\* A transaction reaches a core.
TakeTransaction(n, e) == HandleTransaction(n, e) /\ UNCHANGED taken

\* The core of n takes the next vote of m from its channel and handles it,
\* whatever becomes of it: it does not come again on this connection.
Deliver(n, m, e) ==
    \E v \in NextVotes(n, m, e) :
        /\ HandleVote(n, v)
        /\ taken' = [taken EXCEPT ![n][m][e] = @ + 1]

\* The connection of m to n breaks and is made again: keep_alive puts all that
\* was sent on it back in front of its buffer, in order.
Reconnect(n, m) ==
    /\ \E e \in Election : taken[n][m][e] > 0
    /\ taken' = [taken EXCEPT ![n][m] = [e \in Election |-> 0]]
    /\ UNCHANGED vars

FifoNext ==
    \/ \E n \in Node, e \in Election : TakeTransaction(n, e)
    \/ \E n, m \in Node, e \in Election : Deliver(n, m, e)
    \/ \E n, m \in Node : Reconnect(n, m)

FifoSpec == FifoInit /\ [][FifoNext]_fifoVars

(***************************************************************************)
(* Fairness: the connection and receiver tasks and the loop of Core::run   *)
(* are scheduled again and again by the runtime, so a vote that waits on a *)
(* connection is taken.  Nothing makes a transaction arrive or a           *)
(* connection break.                                                       *)
(***************************************************************************)
Fairness == \A n, m \in Node, e \in Election : WF_fifoVars(Deliver(n, m, e))

FairFifoSpec == FifoSpec /\ Fairness

\* The behaviours in which no connection ever breaks.
SteadyNext ==
    \/ \E n \in Node, e \in Election : TakeTransaction(n, e)
    \/ \E n, m \in Node, e \in Election : Deliver(n, m, e)

SteadySpec == FifoInit /\ [][SteadyNext]_fifoVars /\ Fairness
-----------------------------------------------------------------------------
\* A vote of round 0 that was taken from a connection was counted, though a
\* node has no election when the first one arrives: a first vote is never lost.
FirstVotesCounted ==
    \A n, m \in Node, e \in Election :
        taken[n][m][e] > 0 => \E w \in Validated(n, e, 0) : w.signer = m

\* Where both ends follow the rule, the order of a connection keeps a vote of
\* round 1 from being Invalid, as it would be if it came before all of round 0
\* (core.rs:510): it is counted or Pending.
SecondVotesAccepted ==
    \A n, m \in Honest, e \in Election : \A v \in NextVotes(n, m, e) :
        v.round = 1 => "Invalid" \notin ValidateVote(n, v)

\* The nodes that run, and hear one another.
Running == {n \in Node : Hears[n] # {}}

HasVoted(n, e, r) == elections[n][e].state[r].voted

\* Once one transaction reached one node, every running node casts its votes of
\* round 0 and of round 1, whatever connections break: no first vote is missed
\* and the vote that makes the quorum is the one that makes a node advance.
FirstRoundPassed ==
    \A e \in Election :
        (\E v \in msgs : v.election_hash = e) ~> (\A n \in Running : HasVoted(n, e, 1))

\* Every connection breaks again and again, and again and again not before all
\* votes sent on it were taken.
Replays ==
    \A n \in Running : \A m \in Hears[n], e \in Election :
        /\ []<><<Reconnect(n, m)>>_fifoVars
        /\ []<>(\A v \in NextVotes(n, m, e) : v.round = MaxRound)

\* Where connections break and replay, all running nodes decide: what a node
\* dropped as Pending or Invalid comes again when it holds the proof.
DecidedAfterReplays ==
    Replays => \A e \in Election :
        (\E v \in msgs : v.election_hash = e) ~> (\A n \in Running : decided[n][e] # None)

\* A vote that was Pending is counted once the votes of its proof are there:
\* what validate_vote6 of primary/src/node.rs expects (lines 581 to 583).
PendingVotesCounted ==
    \A n, m \in Running, e \in Election, r \in Round :
        (\E v \in msgs : /\ v.signer = m /\ v.election_hash = e /\ v.round = r
                         /\ r < taken[n][m][e]
                         /\ ValidateVote(n, v) = {"Valid"})
        ~> (\E w \in Validated(n, e, r) : w.signer = m)
=============================================================================
