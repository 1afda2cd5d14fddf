---------------------------- MODULE NeroRestart ----------------------------
(***************************************************************************)
(* The cores of NeroCore with primaries that stop and are started again.   *)
(* Core::spawn begins with empty maps and nothing of an election is read   *)
(* from the store, which the primary opens and does not use, so a node     *)
(* that was restarted takes part in the elections it voted in before as if *)
(* it never had: it draws a new initial vote, and its new votes carry the  *)
(* hashes of the old ones.                                                 *)
(*                                                                         *)
(* Its peers make their connections to it again and send it all they have; *)
(* what it sent before may still arrive anywhere but at itself, as its own *)
(* connection to itself is gone with it.                                   *)
(***************************************************************************)
EXTENDS NeroCore

CONSTANTS
    Restarting,  \* the nodes that may be restarted
    MaxRestarts  \* bound: how often in all

ASSUME RestartAssumption == Restarting \subseteq Node /\ MaxRestarts \in Nat

VARIABLES
    restarts,  \* restarts so far
    earlier    \* earlier[n][e]: the values n decided in e before it was restarted

restartVars == <<elections, decided, msgs, restarts, earlier>>

RestartInit ==
    /\ Init
    /\ restarts = 0
    /\ earlier = [n \in Node |-> [e \in Election |-> {}]]

\* A core at work, the echo of its own votes left out: the node knows them,
\* or they were lost with the connection.
Work ==
    /\ \/ \E n \in Node, e \in Election : HandleTransaction(n, e)
       \/ \E n \in Node : \E v \in {w \in msgs : w.signer # n} : HandleVote(n, v)
    /\ UNCHANGED <<restarts, earlier>>

\* Primary::spawn of a node that ran before.
Restart(n) ==
    /\ restarts < MaxRestarts
    /\ restarts' = restarts + 1
    /\ elections' = [elections EXCEPT ![n] = [e \in Election |-> NewElection]]
    /\ decided' = [decided EXCEPT ![n] = [e \in Election |-> None]]
    /\ earlier' = [earlier EXCEPT ![n] = [e \in Election |-> @[e] \union ({decided[n][e]} \ {None})]]
    /\ UNCHANGED msgs

RestartNext == Work \/ \E n \in Restarting : Restart(n)

RestartSpec == RestartInit /\ [][RestartNext]_restartVars
-----------------------------------------------------------------------------
\* The values n ever decided in e.
EverDecided(n, e) == earlier[n][e] \union ({decided[n][e]} \ {None})

\* No two decisions of an election ever differ, those a node made before it was
\* restarted and those it made afterwards included: as long as at most F nodes
\* are restarted, the two faces of such a node are not in enough quorums.
AgreementOverTime ==
    \A n, m \in Honest, e \in Election :
        \A x \in EverDecided(n, e), y \in EverDecided(m, e) : x = y

\* A vote a restarted node casts again does not displace the one counted: in
\* no round does a node count two votes of one signer.
OneVoteCounted ==
    \A n \in Node, e \in Election : \A r \in Round :
        \A v, w \in Validated(n, e, r) : v.signer = w.signer => v = w
=============================================================================
