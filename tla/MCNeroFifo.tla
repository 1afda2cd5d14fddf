---------------------------- MODULE MCNeroFifo -----------------------------
(***************************************************************************)
(* Instances of NeroFifo for TLC: four primaries, one election.            *)
(***************************************************************************)
EXTENDS NeroFifo, TLC

CONSTANTS n1, n2, n3, n4

Nodes == {n1, n2, n3, n4}

\* n4 was never started.
Three == {n1, n2, n3}
ThreeHear == [n \in Nodes |-> IF n \in Three THEN Three \ {n} ELSE {}]
ThreeOne  == [n \in Nodes |-> IF n \in Three THEN {"One"} ELSE {}]
=============================================================================
