--------------------------- MODULE MCNeroRestart ---------------------------
(***************************************************************************)
(* Instances of NeroRestart for TLC: four primaries, one election.         *)
(***************************************************************************)
EXTENDS NeroRestart, TLC

CONSTANTS n1, n2, n3, n4

Nodes == {n1, n2, n3, n4}

\* n4 draws what it likes, each time it starts; the others start from One, Zero
\* and Zero.
RestartCoin == n1 :> {"One"} @@ n2 :> {"Zero"} @@ n3 :> {"Zero"} @@ n4 :> Value

\* n1 and n3 do not hear each other in time.  With a Zero of n4 before it was
\* restarted n3 may commit to Zero, with a One of n4 afterwards n1, n2 and n4 to
\* One; n2 hears both sides.
RestartHear == n1 :> {n2, n4} @@ n2 :> {n1, n3, n4} @@ n3 :> {n2, n4} @@ n4 :> {n1, n2}
=============================================================================
