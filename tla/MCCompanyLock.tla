----------------------------- MODULE MCCompanyLock -----------------------------
(* Small instances of the company locks for TLC. *)
EXTENDS CompanyLock

CONSTANTS c1, c2, c3, c4, p1, p2, p3

\* Four calls in three processes: a dead owner, two that recover it, and a
\* bystander; two of the calls share a process.
MCCall == {c1, c2, c3, c4}
MCPid == [c \in MCCall |-> CASE c \in {c1, c4} -> p1
                             [] c = c2 -> p2
                             [] c = c3 -> p3]
=============================================================================
