----------------------------- MODULE Consensus -----------------------------
(***************************************************************************)
(* What the primaries promise their clients: in every election each node   *)
(* decides at most once, never revises it, and no two nodes decide         *)
(* different values.                                                       *)
(***************************************************************************)
CONSTANTS
    Node,       \* the nodes that promise it
    Election,   \* the transactions voted upon
    Value,      \* the values that can be decided
    None        \* not one of the values: no decision yet

VARIABLE decided    \* decided[n][e]: what n decided in election e, or None

TypeOK == decided \in [Node -> [Election -> Value \union {None}]]

Init == decided = [n \in Node |-> [e \in Election |-> None]]

Decide(n, e, x) ==
    /\ decided[n][e] = None
    /\ \A m \in Node : decided[m][e] \in {None, x}
    /\ decided' = [decided EXCEPT ![n][e] = x]

Next == \E n \in Node, e \in Election, x \in Value : Decide(n, e, x)

Spec == Init /\ [][Next]_decided
=============================================================================
