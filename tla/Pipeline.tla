------------------------------ MODULE Pipeline ------------------------------
(***************************************************************************)
(* The way from a client to the cores of the primaries, and between them.  *)
(* The client (node/src/benchmark_client.rs) waits until every primary     *)
(* listens and sends its own one batch of transactions.  The batch, and    *)
(* the votes of every primary, its own included, come over a connection;   *)
(* its runner (network/src/receiver.rs) hands each to the handler of       *)
(* primary/src/primary.rs, which waits for room in the channel of the      *)
(* core.  The core handles one input at a time, and each broadcast of it   *)
(* waits, address by address, for room in the channel of the connection    *)
(* there.                                                                  *)
(*                                                                         *)
(* Of a vote only what decides who sends what is kept: its signer, its     *)
(* election, its round and its proof.  Values are NeroCore's business; an  *)
(* election is decided in the last round.  Connections do not break here   *)
(* (ReliableSender).  The frame a connection task holds while it writes    *)
(* and the one a runner holds while it waits count as room of the wire.    *)
(***************************************************************************)
EXTENDS Committee, Sequences, SequencesExt

CONSTANTS
    QUORUM,      \* votes a round takes
    Batch,       \* Batch[c]: the transactions the client of primary c sends
    LastRound,   \* bound: the round an election is decided in
    CoreRoom,    \* room of rx_votes and rx_transactions (1_000 in the code)
    LinkRoom,    \* room of the channel of a connection (1_000 in the code)
    WireRoom     \* frames a connection holds outside the channels

Node   == DOMAIN authorities
Client == DOMAIN Batch  \* a client goes by the primary it sends to

ASSUME PipelineAssumption ==
    /\ QUORUM \in 1 .. size /\ LastRound \in Nat
    /\ {CoreRoom, LinkRoom, WireRoom} \subseteq Nat \ {0}
    /\ Client \subseteq Node
    /\ \A c \in Client : Batch[c] \in Seq(ToSet(Batch[c]))

Elections == UNION {ToSet(Batch[c]) : c \in Client}
Vote == [signer : Node, election : Elections, round : 0 .. LastRound,
         proof : SUBSET Node]

VARIABLES
    online,           \* the primaries that listen
    client,           \* client[c]: its step, and the primaries it has reached
    socket,           \* socket[c]: batches on the way from the client of c
    rx_transactions,  \* batches waiting for the core
    rx_votes,         \* votes waiting for the core
    batch,            \* the rest of the batch the core is working through
    todo,             \* the sends the handler under way has still to do
    validated_votes,  \* the votes the core has counted
    channel,          \* channel[n][m]: from the core of n to its connection to m
    wire              \* wire[n][m]: on that connection

outside == <<online, client, socket>>
core  == <<batch, todo, validated_votes>>
queue == <<rx_transactions, rx_votes>>
link  == <<channel, wire>>
vars  == <<outside, queue, core, link>>

TypeOK ==
    /\ online \subseteq Node
    /\ client \in [Client -> [step : {"waiting", "ready", "done"}, reached : SUBSET Node]]
    /\ socket \in [Client -> Seq(Seq(Elections))]
    /\ rx_transactions \in [Node -> Seq(Seq(Elections))]
    /\ rx_votes \in [Node -> Seq(Vote)]
    /\ batch \in [Node -> Seq(Elections)]
    /\ todo \in [Node -> Seq([vote : Vote, to : Node])]
    /\ {channel, wire} \subseteq [Node -> [Node -> Seq(Vote)]]
    /\ validated_votes \in [Node -> SUBSET Vote]

Init ==
    /\ online = {}
    /\ client = [c \in Client |-> [step |-> "waiting", reached |-> {}]]
    /\ socket = [c \in Client |-> <<>>]
    /\ rx_transactions = [n \in Node |-> <<>>] /\ rx_votes = [n \in Node |-> <<>>]
    /\ batch = [n \in Node |-> <<>>] /\ todo = [n \in Node |-> <<>>]
    /\ validated_votes = [n \in Node |-> {}]
    /\ channel = [n \in Node |-> [m \in Node |-> <<>>]]
    /\ wire = [n \in Node |-> [m \in Node |-> <<>>]]
-----------------------------------------------------------------------------
\* The votes of an election in a round among those of S.
Of(S, e, r)    == {v \in S : v.election = e /\ v.round = r}
Voted(S, n, e, r) == \E v \in Of(S, e, r) : v.signer = n
Signers(S)     == {v.signer : v \in S}

\* The core's own address is one of them (others_primaries keeps it).
Broadcast(n, v) ==
    LET to == SetToSeq(others_primaries(n))
    IN  [i \in DOMAIN to |-> [vote |-> v, to |-> to[i]]]

\* One own vote: counted at once, and sent to everyone.
Cast(n, e, r, proof) == [signer |-> n, election |-> e, round |-> r, proof |-> proof]

\* The initial vote of an election the core has not voted on.
InitialVote(S, n, e) ==
    IF Voted(S, n, e, 0) THEN {} ELSE {Cast(n, e, 0, {})}

\* validate_vote, but for the value of the vote.
Valid(S, v) ==
    v.round > 0 => v.proof \subseteq Signers(Of(S, v.election, v.round - 1))

\* Mutant: an election that is decided goes on.
NextVoteDecided(S, n, v) ==
    LET here == Signers(Of(S, v.election, v.round))
    IN  IF /\ Cardinality(here) >= QUORUM
           /\ ~Voted(S, n, v.election, v.round + 1)
        THEN {Cast(n, v.election, v.round + 1, here)}
        ELSE {}

\* Mutant: a quorum is not enough.
NextVoteLate(S, n, v) ==
    LET here == Signers(Of(S, v.election, v.round))
    IN  IF /\ Cardinality(here) > QUORUM
           /\ v.round < LastRound
           /\ ~Voted(S, n, v.election, v.round + 1)
        THEN {Cast(n, v.election, v.round + 1, here)}
        ELSE {}

\* The vote of the next round, once the round has a quorum.
NextVote(S, n, v) ==
    LET here == Signers(Of(S, v.election, v.round))
    IN  IF /\ Cardinality(here) >= QUORUM
           /\ v.round < LastRound
           /\ ~Voted(S, n, v.election, v.round + 1)
        THEN {Cast(n, v.election, v.round + 1, here)}
        ELSE {}

\* The at most one vote of V, sent to everyone.
Sends(n, V) == IF V = {} THEN <<>> ELSE Broadcast(n, CHOOSE v \in V : TRUE)
-----------------------------------------------------------------------------
\* A primary binds its address.
Start(n) ==
    /\ n \notin online
    /\ online' = online \union {n}
    /\ UNCHANGED <<client, socket, queue, core, link>>

\* One of the tasks that wait for a primary each connects to it.
Reach(c, n) ==
    /\ client[c].step = "waiting" /\ n \in online \ client[c].reached
    /\ client' = [client EXCEPT ![c].reached = @ \union {n}]
    /\ UNCHANGED <<online, socket, queue, core, link>>

\* Mutant: the first task that ends is enough.
JoinAny(c) ==
    /\ client[c].step = "waiting" /\ c \in client[c].reached
    /\ client' = [client EXCEPT ![c].step = "ready"]
    /\ UNCHANGED <<online, socket, queue, core, link>>

\* Client::wait ends when all of them have.
JoinAll(c) ==
    /\ client[c].step = "waiting" /\ client[c].reached = Node
    /\ client' = [client EXCEPT ![c].step = "ready"]
    /\ UNCHANGED <<online, socket, queue, core, link>>

\* Client::send connects to its primary and sends the batch.
Submit(c) ==
    /\ client[c].step = "ready" /\ c \in online
    /\ socket' = [socket EXCEPT ![c] = Append(@, Batch[c])]
    /\ client' = [client EXCEPT ![c].step = "done"]
    /\ UNCHANGED <<online, queue, core, link>>

Idle(n) == todo[n] = <<>> /\ batch[n] = <<>>

\* Core::run takes a batch of transactions.
TakeTransactions(n) ==
    /\ Idle(n) /\ rx_transactions[n] # <<>>
    /\ batch' = [batch EXCEPT ![n] = Head(rx_transactions[n])]
    /\ rx_transactions' = [rx_transactions EXCEPT ![n] = Tail(@)]
    /\ UNCHANGED <<outside, rx_votes, todo, validated_votes, link>>

\* handle_transaction on the next of the batch: no vote is taken in between.
HandleTransaction(n) ==
    /\ todo[n] = <<>> /\ batch[n] # <<>>
    /\ LET own == InitialVote(validated_votes[n], n, Head(batch[n]))
       IN  /\ validated_votes' = [validated_votes EXCEPT ![n] = @ \union own]
           /\ todo' = [todo EXCEPT ![n] = Sends(n, own)]
    /\ batch' = [batch EXCEPT ![n] = Tail(@)]
    /\ UNCHANGED <<outside, queue, link>>

\* Core::run takes a vote: handle_vote.
HandleVote(n) ==
    /\ Idle(n) /\ rx_votes[n] # <<>>
    /\ LET v     == Head(rx_votes[n])
           old   == validated_votes[n]
           first == IF v.round = 0 THEN InitialVote(old \union {v}, n, v.election) ELSE {}
           next  == NextVote(old \union {v} \union first, n, v)
       IN  IF v \notin old /\ Valid(old, v)
           THEN /\ validated_votes' =
                      [validated_votes EXCEPT ![n] = @ \union {v} \union first \union next]
                /\ todo' = [todo EXCEPT ![n] = Sends(n, first) \o Sends(n, next)]
           ELSE UNCHANGED <<validated_votes, todo>>
    /\ rx_votes' = [rx_votes EXCEPT ![n] = Tail(@)]
    /\ UNCHANGED <<outside, rx_transactions, batch, link>>

\* Mutant: a send to a full channel is given up.
SendOrForget(n) ==
    /\ todo[n] # <<>>
    /\ LET s == Head(todo[n])
       IN  channel' = IF Len(channel[n][s.to]) < LinkRoom
                      THEN [channel EXCEPT ![n][s.to] = Append(@, s.vote)]
                      ELSE channel
    /\ todo' = [todo EXCEPT ![n] = Tail(@)]
    /\ UNCHANGED <<outside, queue, batch, validated_votes, wire>>

\* ReliableSender::send to the next address waits for room.
Send(n) ==
    /\ todo[n] # <<>>
    /\ LET s == Head(todo[n])
       IN  /\ Len(channel[n][s.to]) < LinkRoom
           /\ channel' = [channel EXCEPT ![n][s.to] = Append(@, s.vote)]
    /\ todo' = [todo EXCEPT ![n] = Tail(@)]
    /\ UNCHANGED <<outside, queue, batch, validated_votes, wire>>

\* The connection task of n to m, once m listens, writes to the socket.
Write(n, m) ==
    /\ m \in online /\ channel[n][m] # <<>> /\ Len(wire[n][m]) < WireRoom
    /\ wire' = [wire EXCEPT ![n][m] = Append(@, Head(channel[n][m]))]
    /\ channel' = [channel EXCEPT ![n][m] = Tail(@)]
    /\ UNCHANGED <<outside, queue, core>>

\* The runner of the connection at m hands a vote to the handler, which waits.
Dispatch(n, m) ==
    /\ wire[n][m] # <<>> /\ Len(rx_votes[m]) < CoreRoom
    /\ rx_votes' = [rx_votes EXCEPT ![m] = Append(@, Head(wire[n][m]))]
    /\ wire' = [wire EXCEPT ![n][m] = Tail(@)]
    /\ UNCHANGED <<outside, rx_transactions, core, channel>>

\* The same for the batch of a client.
DispatchTransactions(n) ==
    /\ n \in Client /\ socket[n] # <<>> /\ Len(rx_transactions[n]) < CoreRoom
    /\ rx_transactions' = [rx_transactions EXCEPT ![n] = Append(@, Head(socket[n]))]
    /\ socket' = [socket EXCEPT ![n] = Tail(@)]
    /\ UNCHANGED <<online, client, rx_votes, core, link>>

CoreStep(n) ==
    TakeTransactions(n) \/ HandleTransaction(n) \/ HandleVote(n) \/ Send(n)

Next ==
    \/ \E c \in Client : JoinAll(c) \/ Submit(c) \/ \E n \in Node : Reach(c, n)
    \/ \E n \in Node : Start(n) \/ CoreStep(n) \/ DispatchTransactions(n)
    \/ \E n, m \in Node : Write(n, m) \/ Dispatch(n, m)

(***************************************************************************)
(* The core, the connection tasks and the runners are tasks of their own,  *)
(* and a channel wakes the one that waits on it.  The core's select takes  *)
(* a ready branch at random, so neither of its inputs is left for ever.    *)
(* A primary comes up some time; the client tries it again and again.      *)
(***************************************************************************)
Fairness ==
    /\ \A n \in Node : /\ SF_vars(TakeTransactions(n)) /\ SF_vars(HandleVote(n))
                       /\ WF_vars(HandleTransaction(n)) /\ WF_vars(Send(n))
                       /\ WF_vars(DispatchTransactions(n)) /\ WF_vars(Start(n))
    /\ \A c \in Client : /\ WF_vars(JoinAll(c)) /\ WF_vars(Submit(c))
                         /\ \A n \in Node : WF_vars(Reach(c, n))
    /\ \A n, m \in Node : WF_vars(Write(n, m)) /\ SF_vars(Dispatch(n, m))

Spec     == Init /\ [][Next]_vars
FairSpec == Spec /\ Fairness
-----------------------------------------------------------------------------
\* How often x is in the sequence s.
Times(x, s) == Cardinality({i \in DOMAIN s : s[i] = x})

\* The copies of a vote v of n on the way to m.
Copies(n, m, v) ==
    Times([vote |-> v, to |-> m], todo[n])
    + Times(v, channel[n][m]) + Times(v, wire[n][m]) + Times(v, rx_votes[m])

\* The votes n cast, which it counts before it sends them.
Own(n) == {v \in validated_votes[n] : v.signer = n}

Seen(n, m, v) == IF n # m /\ v \in validated_votes[m] THEN 1 ELSE 0

UnderWay(n, m, v) ==
    /\ Copies(n, m, v) + Seen(n, m, v) <= 1
    /\ n # m /\ v.round = 0 => Copies(n, m, v) + Seen(n, m, v) = 1

\* A vote its signer counts is, for every other primary, counted there or on
\* the way to it, never both and never twice; and it is one of the two unless
\* it may come before the votes its proof names, and be put away for good
\* (core.rs:411).  Waiting for room (core.rs:177, primary.rs:145) is what keeps
\* a full channel from losing or doubling it.
VotesUnderWay == \A n, m \in Node : \A v \in Own(n) : UnderWay(n, m, v)

\* No vote is for a primary that does not listen yet, whoever cast it: each
\* client "Wait[s] for all nodes to be online and synchronized"
\* (node/src/benchmark_client.rs:71, 166-177), and nothing else starts a vote.
VotesFindListeners ==
    \A n, m \in Node : channel[n][m] # <<>> => m \in online

\* With room for the batch, every transaction of a client is decided by every
\* primary: nobody waits for room for ever ("Drain the channel into the buffer
\* to not saturate the channel and block the caller task.",
\* network/src/reliable_sender.rs:171-172).
EveryoneDecides ==
    \A n \in Node, e \in Elections : <>Voted(validated_votes[n], n, e, LastRound)
=============================================================================
