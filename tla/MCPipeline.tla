----------------------------- MODULE MCPipeline ------------------------------
EXTENDS Pipeline

\* Two primaries of one stake each.
Two == <<1, 1>>

\* The client of the first sends a batch of two transactions.
OneBatch == [c \in {1} |-> <<"e", "f">>]
=============================================================================
