---------------------- MODULE MCProjectTransactionLock ----------------------
(* Small instances of the project transaction lock for TLC. *)
EXTENDS ProjectTransactionLock

CONSTANTS c1, c2, c3, p1, p2, p3

\* A holder and two that wait for it, each in a process of its own.
MCCall == {c1, c2, c3}
MCPid == [c \in MCCall |-> CASE c = c1 -> p1 [] c = c2 -> p2 [] c = c3 -> p3]
=============================================================================
