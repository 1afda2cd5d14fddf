--------------------------- MODULE ReliableSender ---------------------------
(***************************************************************************)
(* One connection of the reliable sender (network/src/reliable_sender.rs): *)
(* a caller that hands over messages and may cancel them, the task of the  *)
(* Connection with its buffer, the socket, and a peer that reads a frame,  *)
(* answers it with an ACK if it is one that does, and reads the next.      *)
(*                                                                         *)
(* A message is its number in the order of sending; an ACK is the number   *)
(* of the message it answers, which the sender cannot see.  The length of  *)
(* the retry delay is left out; that the delay passes is TimerFires.  What *)
(* is on its way to the peer when a connection breaks is lost; what the    *)
(* task owns when it panics is dropped with it.                            *)
(***************************************************************************)
EXTENDS Naturals, Sequences, FiniteSets

CONSTANTS
    Messages,        \* bound: the messages the caller sends
    Cancellable,     \* those it may cancel
    ChannelSize,     \* the room of the channel (1_000 in the code)
    WireSize,        \* frames the socket holds on the way to the peer
    AckSize,         \* frames it holds on the way back
    Acking,          \* the peers there are: one that answers (TRUE), one that does not
    MaxBreaks,       \* bound: how often a connection breaks
    MaxRetry         \* the largest retry number (65_535 in the code: a u16)

ASSUME SenderAssumption ==
    /\ Messages \in Nat /\ Cancellable \subseteq 1 .. Messages
    /\ ChannelSize \in Nat \ {0} /\ WireSize \in Nat \ {0} /\ AckSize \in Nat \ {0}
    /\ MaxBreaks \in Nat /\ MaxRetry \in Nat
    /\ Acking \subseteq BOOLEAN

Message == 1 .. Messages

VARIABLES
    calling,   \* whether the caller is there: not panicked itself
    acking,    \* whether the peer answers what it reads
    sent,      \* the messages 1 .. sent were handed over
    handlers,  \* handlers[m]: the caller's end of the cancel handler
    channel,   \* from the caller to the connection task
    phase,     \* where the connection task is
    retry,     \* failed attempts to connect in a row
    buffer,    \* to be written, or written again
    pending,   \* pending_replies: written, not answered
    socket,    \* whether the connection is sound
    wire,      \* frames on the way to the peer
    acks,      \* answers on the way back
    got,       \* what the peer read from the connection that is up
    owes,      \* the message the peer has read and still has to answer, if any
    reached,   \* the messages the peer ever read
    breaks     \* connections broken so far

caller == <<calling, sent, handlers>>
task   == <<phase, retry, buffer, pending>>
net    == <<socket, wire, acks, breaks>>
peer   == <<acking, got, owes, reached>>
vars   == <<caller, channel, task, net, peer>>

\* down: about to connect; waiting: for the retry timer; writing: the buffer;
\* selecting: idle on a connection; dead: panicked.
Phase == {"down", "waiting", "writing", "selecting", "dead"}

\* waiting: for the answer; acked: it came; cancelled: the caller dropped the
\* handler; lost: the task dropped its end, and the caller reads an error.
Handler == {"waiting", "acked", "cancelled", "lost"}

TypeOK ==
    /\ calling \in BOOLEAN /\ acking \in BOOLEAN
    /\ sent \in 0 .. Messages
    /\ handlers \in [Message -> Handler]
    /\ {channel, buffer, pending, wire, acks, got} \subseteq Seq(Message)
    /\ phase \in Phase
    /\ retry \in 0 .. MaxRetry
    /\ socket \in {"none", "sound", "broken"}
    /\ owes \in Message \union {0}
    /\ reached \subseteq Message
    /\ breaks \in 0 .. MaxBreaks

Init ==
    /\ acking \in Acking
    /\ calling = TRUE /\ sent = 0
    /\ handlers = [m \in Message |-> "waiting"]
    /\ phase = "down" /\ retry = 0 /\ breaks = 0
    /\ channel = <<>> /\ buffer = <<>> /\ pending = <<>>
    /\ socket = "none" /\ wire = <<>> /\ acks = <<>>
    /\ got = <<>> /\ owes = 0 /\ reached = {}

Closed(m)  == handlers[m] = "cancelled"
Settled(m) == handlers[m] \in {"acked", "cancelled"}

\* The elements of s at the places of K, in their order.
Retained(s, K) ==
    [k \in 1 .. Cardinality(K) |->
        s[CHOOSE i \in K : Cardinality({j \in K : j <= i}) = k]]
-----------------------------------------------------------------------------
\* ReliableSender::send: the caller waits for room in the channel.
Send ==
    /\ calling /\ sent < Messages /\ phase # "dead"
    /\ Len(channel) < ChannelSize
    /\ sent' = sent + 1
    /\ channel' = Append(channel, sent + 1)
    /\ UNCHANGED <<calling, handlers, task, net, peer>>

\* Nobody receives from the channel any more: the caller panics.
SendPanics ==
    /\ calling /\ sent < Messages /\ phase = "dead"
    /\ calling' = FALSE
    /\ UNCHANGED <<sent, handlers, channel, task, net, peer>>

\* The caller drops a cancel handler.
Cancel(m) ==
    /\ m \in Cancellable /\ m <= sent /\ handlers[m] = "waiting"
    /\ handlers' = [handlers EXCEPT ![m] = "cancelled"]
    /\ UNCHANGED <<calling, sent, channel, task, net, peer>>
-----------------------------------------------------------------------------
\* Connection::run: the peer accepts; keep_alive starts.
Connect ==
    /\ phase = "down"
    /\ phase' = "writing" /\ retry' = 0
    /\ socket' = "sound" /\ wire' = <<>> /\ acks' = <<>>
    /\ got' = <<>> /\ owes' = 0
    /\ UNCHANGED <<caller, channel, buffer, pending, breaks, acking, reached>>

\* Connection::run: the peer does not accept.
ConnectFails ==
    /\ phase = "down"
    /\ phase' = "waiting"
    /\ UNCHANGED <<caller, channel, retry, buffer, pending, net, peer>>

\* Mutant: the number of the attempt has no width.
TimerCounts ==
    /\ phase = "waiting"
    /\ retry' = retry + 1 /\ phase' = "down"
    /\ UNCHANGED <<caller, channel, buffer, pending, net, peer>>

\* The retry delay passes, and the failed attempt is counted.  In a build that
\* does not check for overflow the largest number is followed by 0.
TimerFires ==
    /\ phase = "waiting"
    /\ retry' = IF retry = MaxRetry THEN 0 ELSE retry + 1
    /\ phase' = "down"
    /\ UNCHANGED <<caller, channel, buffer, pending, net, peer>>

\* In a build that checks the task panics instead: its buffer and its end of the
\* channel are dropped, and with them the other end of every handler that waits.
TimerPanics ==
    /\ phase = "waiting" /\ retry = MaxRetry
    /\ phase' = "dead"
    /\ buffer' = <<>> /\ channel' = <<>>
    /\ handlers' = [m \in Message |->
                       IF m <= sent /\ handlers[m] = "waiting" THEN "lost" ELSE handlers[m]]
    /\ UNCHANGED <<calling, sent, retry, pending, net, peer>>

\* While it waits, the task empties the channel into the buffer and drops what
\* was cancelled.
Drain ==
    /\ phase = "waiting" /\ channel # <<>>
    /\ channel' = Tail(channel)
    /\ LET all == Append(buffer, Head(channel))
       IN  buffer' = Retained(all, {i \in DOMAIN all : ~Closed(all[i])})
    /\ UNCHANGED <<caller, phase, retry, pending, net, peer>>
-----------------------------------------------------------------------------
\* keep_alive pops a cancelled message from the buffer.
SkipCancelled ==
    /\ phase = "writing" /\ buffer # <<>> /\ Closed(Head(buffer))
    /\ buffer' = Tail(buffer)
    /\ UNCHANGED <<caller, channel, phase, retry, pending, net, peer>>

\* Mutant: a message is taken for done once it is written.
WriteForgets ==
    /\ phase = "writing" /\ buffer # <<>> /\ ~Closed(Head(buffer))
    /\ socket = "broken" \/ Len(wire) < WireSize
    /\ buffer' = Tail(buffer)
    /\ pending' = pending
    /\ wire' = IF socket = "broken" THEN wire ELSE Append(wire, Head(buffer))
    /\ UNCHANGED <<caller, channel, phase, retry, socket, acks, breaks, peer>>

\* It writes a message, waiting for room in the socket.  On a connection that
\* is broken the write may still succeed, into nothing.
Write ==
    /\ phase = "writing" /\ buffer # <<>> /\ ~Closed(Head(buffer))
    /\ socket = "broken" \/ Len(wire) < WireSize
    /\ buffer' = Tail(buffer)
    /\ pending' = Append(pending, Head(buffer))
    /\ wire' = IF socket = "broken" THEN wire ELSE Append(wire, Head(buffer))
    /\ UNCHANGED <<caller, channel, phase, retry, socket, acks, breaks, peer>>

\* Mutants: what was written is not sent again; it is queued behind the rest.
DropPending(bs, ps)  == bs
QueueBehind(bs, ps)  == bs \o ps

\* The end of keep_alive: what was not answered goes back in front.
PutBack(bs, ps) == ps \o bs

\* Mutant: what was written counts as written on the next connection, too.
FailKeeps ==
    /\ phase' = "down" /\ socket' = "none"
    /\ wire' = <<>> /\ acks' = <<>>
    /\ UNCHANGED <<caller, channel, retry, buffer, pending, breaks, peer>>

\* keep_alive returns with an error.
Fail ==
    /\ phase' = "down" /\ socket' = "none"
    /\ buffer' = PutBack(buffer, pending) /\ pending' = <<>>
    /\ wire' = <<>> /\ acks' = <<>>
    /\ UNCHANGED <<caller, channel, retry, breaks, peer>>

\* A write fails: the message is put back before the rest.
WriteFails ==
    /\ phase = "writing" /\ buffer # <<>> /\ ~Closed(Head(buffer))
    /\ socket = "broken"
    /\ Fail

\* The buffer is empty: wait for a message or an answer.
Written ==
    /\ phase = "writing" /\ buffer = <<>>
    /\ phase' = "selecting"
    /\ UNCHANGED <<caller, channel, retry, buffer, pending, net, peer>>

\* A message comes from the caller.
Accept ==
    /\ phase = "selecting" /\ channel # <<>>
    /\ channel' = Tail(channel)
    /\ buffer' = Append(buffer, Head(channel))
    /\ phase' = "writing"
    /\ UNCHANGED <<caller, retry, pending, net, peer>>

\* Mutant: the answer is taken for the message written last.
ResolveLast(ps) == ps[Len(ps)]

\* The message an answer is taken to be for: the one written first.
Resolved(ps) == Head(ps)

\* An answer comes; if the handler was dropped nobody is notified.
TakeAck ==
    /\ phase = "selecting" /\ acks # <<>> /\ pending # <<>>
    /\ LET m == Resolved(pending)
       IN  handlers' = [handlers EXCEPT ![m] = IF Closed(m) THEN @ ELSE "acked"]
    /\ pending' = Tail(pending)
    /\ acks' = Tail(acks)
    /\ phase' = "writing"
    /\ UNCHANGED <<calling, sent, channel, retry, buffer, socket, wire, breaks, peer>>

\* The stream ends, whether an answer was due (FailedToReceiveAck) or not
\* (UnexpectedAck), or an answer comes that none was due for.
ReadFails ==
    /\ phase = "selecting"
    /\ \/ socket = "broken" /\ acks = <<>>
       \/ acks # <<>> /\ pending = <<>>
    /\ Fail
-----------------------------------------------------------------------------
\* The connection breaks: frames to the peer are lost, answers may be.
Break ==
    /\ socket = "sound" /\ breaks < MaxBreaks
    /\ socket' = "broken" /\ breaks' = breaks + 1
    /\ wire' = <<>> /\ owes' = 0
    /\ \E k \in 0 .. Len(acks) : acks' = SubSeq(acks, 1, k)
    /\ UNCHANGED <<caller, channel, task, acking, got, reached>>

\* The runner of the peer reads a frame.
PeerReads ==
    /\ socket = "sound" /\ wire # <<>> /\ owes = 0
    /\ wire' = Tail(wire)
    /\ got' = Append(got, Head(wire))
    /\ reached' = reached \union {Head(wire)}
    /\ owes' = IF acking THEN Head(wire) ELSE 0
    /\ UNCHANGED <<caller, channel, task, socket, acks, breaks, acking>>

\* Its handler answers, waiting for room in the socket.
PeerAnswers ==
    /\ socket = "sound" /\ owes # 0 /\ Len(acks) < AckSize
    /\ acks' = Append(acks, owes)
    /\ owes' = 0
    /\ UNCHANGED <<caller, channel, task, socket, wire, breaks, acking, got, reached>>

TaskNext ==
    \/ TimerFires \/ TimerPanics \/ Drain
    \/ SkipCancelled \/ Write \/ WriteFails \/ Written
    \/ Accept \/ TakeAck \/ ReadFails

PeerNext == PeerReads \/ PeerAnswers

Next ==
    \/ Send \/ SendPanics \/ \E m \in Message : Cancel(m)
    \/ Connect \/ ConnectFails \/ TaskNext
    \/ Break \/ PeerNext

Spec == Init /\ [][Next]_vars

(***************************************************************************)
(* Fairness: the runtime schedules both tasks, the timer fires, and a peer *)
(* that is tried again and again accepts at some time.  While selecting,   *)
(* select! polls its two branches in random order, so a stream of messages *)
(* does not keep answers from being read for ever.                         *)
(***************************************************************************)
Fairness ==
    /\ SF_vars(Connect)
    /\ WF_vars(TaskNext) /\ SF_vars(TakeAck)
    /\ WF_vars(PeerNext)

FairSpec == Spec /\ Fairness
-----------------------------------------------------------------------------
\* What the task holds, in the order in which it is going to be written again.
Held == pending \o buffer \o channel

\* Nothing is lost, doubled or put out of order: the task holds every message
\* whose handler waits once, in the order of sending; when it panics, and drops
\* what it holds, nobody waits any more.
NothingLost ==
    /\ \A i, j \in 1 .. Len(Held) : i < j => Held[i] < Held[j]
    /\ \A m \in 1 .. sent :
          handlers[m] = "waiting" => \E i \in 1 .. Len(Held) : Held[i] = m
    /\ phase = "dead" => Held = <<>>

\* As answers carry no name, the order is all that ties them to messages: an
\* answer on its way is for the message that was written first of those pending.
AcksMatch ==
    \A i \in 1 .. Len(acks) : i <= Len(pending) /\ acks[i] = pending[i]

\* To its caller and its peer the connection is a reliable link until the number
\* of attempts overflows: in particular each connection gives a peer that answers
\* nothing the whole history again.
Link == INSTANCE ReliableLink WITH up <- phase # "dead"
ImplementsLink == Link!Spec

\* A message the caller does not cancel is answered by a peer that answers,
\* whatever breaks: it is sent again until it succeeds (lines 29 and 30 of
\* reliable_sender.rs).  Only if the number of attempts overflows is it lost, and
\* the caller told; and the socket must have room for the answers while the
\* buffer is written.
EveryMessageAnswered ==
    \A m \in Message :
        acking /\ sent >= m ~> Settled(m) \/ (phase = "dead" /\ handlers[m] = "lost")

\* However long the peer is away, every message reaches it in the end, answered
\* or not, unless the number of attempts overflows before.
EveryMessageArrives ==
    \A m \in Message \ Cancellable :
        sent >= m ~> m \in reached \/ handlers[m] = "lost"
=============================================================================
