---------------------- MODULE MCCredentialWriterLock ----------------------
(* Small instances of the credential writer lock for TLC. *)
EXTENDS CredentialWriterLock

CONSTANTS p1, p2

\* Three calls in two processes: calls 1 and 3 share a pid.
MCWriter == 1..3
MCPid == [w \in 1..3 |-> IF w = 2 THEN p2 ELSE p1]

=============================================================================
