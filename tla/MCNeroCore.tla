---------------------------- MODULE MCNeroCore -----------------------------
(***************************************************************************)
(* Instances of NeroCore for TLC: four primaries, one election.            *)
(***************************************************************************)
EXTENDS NeroInvariant, TLC

CONSTANTS n1, n2, n3, n4

Nodes == {n1, n2, n3, n4}

\* Every node draws what it likes, and every vote may reach every node.
FreeCoin == [n \in Nodes |-> Value]
AllHear  == [n \in Nodes |-> Nodes]

Interchangeable == Permutations(Nodes)

(***************************************************************************)
(* n1 and n4 hear everyone, n2 and n3 do not hear n4 before the horizon:   *)
(* the quorums of n1 differ from those of n2 and n3.  The echo of a node's *)
(* own votes, which handle_vote ignores, is left to the instance above.    *)
(***************************************************************************)
LateHear == n1 :> {n2, n3, n4} @@ n2 :> {n1, n3} @@ n3 :> {n1, n2} @@ n4 :> {n1, n2, n3}

\* n3 and n4 do not hear each other.
SplitHear == n1 :> {n2, n3, n4} @@ n2 :> {n1, n3, n4} @@ n3 :> {n1, n2} @@ n4 :> {n1, n2}

\* Three or two of the nodes start from One.
MostlyOne == n1 :> {"One"} @@ n2 :> {"One"} @@ n3 :> Value @@ n4 :> {"Zero"}

\* One or two start from Zero.
EvenlySplit == n1 :> {"Zero"} @@ n2 :> Value @@ n3 :> {"One"} @@ n4 :> {"One"}

\* Three nodes start from Zero.
MostlyZero == n1 :> {"Zero"} @@ n2 :> {"Zero"} @@ n3 :> {"Zero"} @@ n4 :> {"One"}
=============================================================================
