---------------------------- MODULE ReliableLink ----------------------------
(***************************************************************************)
(* What a reliable connection promises: each connection gives the peer, in *)
(* the order of sending, the messages that were neither answered nor       *)
(* cancelled, and the handler of a message is notified only after the peer *)
(* has read the message on the connection that is up.  Towards a peer that *)
(* answers nothing, as between primaries, each connection starts from the  *)
(* first message ever sent: this is the connection of NeroFifo.  A link    *)
(* may give up, for good: then every handler that waits is told so.        *)
(***************************************************************************)
EXTENDS Naturals, Sequences

CONSTANT Messages   \* messages are numbered in the order of sending

VARIABLES
    sent,      \* the messages 1 .. sent were handed over
    up,        \* whether the link has not given up
    handlers,  \* the state of the caller's end of each cancel handler
    got        \* what the peer read from the connection that is up

Init ==
    /\ up = TRUE /\ sent = 0
    /\ handlers = [m \in 1 .. Messages |-> "waiting"]
    /\ got = <<>>

Send ==
    /\ sent < Messages
    /\ sent' = sent + 1
    /\ UNCHANGED <<up, handlers, got>>

Cancel(m) ==
    /\ m <= sent /\ handlers[m] = "waiting"
    /\ handlers' = [handlers EXCEPT ![m] = "cancelled"]
    /\ UNCHANGED <<up, sent, got>>

\* The message read last on this connection, 0 before the first.
Last == IF got = <<>> THEN 0 ELSE got[Len(got)]

\* Only what is settled may be left out.
Deliver(m) ==
    /\ m <= sent /\ Last < m
    /\ \A j \in Last + 1 .. m - 1 : handlers[j] # "waiting"
    /\ got' = Append(got, m)
    /\ UNCHANGED <<up, sent, handlers>>

Resolve(m) ==
    /\ handlers[m] = "waiting" /\ \E i \in 1 .. Len(got) : got[i] = m
    /\ handlers' = [handlers EXCEPT ![m] = "acked"]
    /\ UNCHANGED <<up, sent, got>>

Reconnect == got' = <<>> /\ UNCHANGED <<up, sent, handlers>>

\* What waits is lost.
GiveUp ==
    /\ up' = FALSE
    /\ handlers' = [m \in 1 .. Messages |->
                       IF m <= sent /\ handlers[m] = "waiting" THEN "lost" ELSE handlers[m]]
    /\ UNCHANGED <<sent, got>>

Next ==
    /\ up
    /\ \/ Send \/ Reconnect \/ GiveUp
       \/ \E m \in 1 .. Messages : Cancel(m) \/ Deliver(m) \/ Resolve(m)

Spec == Init /\ [][Next]_<<up, sent, handlers, got>>
=============================================================================
