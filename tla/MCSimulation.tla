---------------------------- MODULE MCSimulation -----------------------------
EXTENDS Simulation

\* Any honest vote late at any node, the byzantine one included: a vote that is
\* late at every recipient arrives as a zero, whatever was drawn.
HonestLate == Honest \X Nodes
AnyChoice  == {Delayed, 0, 1}
=============================================================================
