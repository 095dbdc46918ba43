----------------------------- MODULE MCCompanySync -----------------------------
(* The small instance of CompanySync for TLC. *)
EXTENDS CompanySync

CONSTANTS v1, v2, v3, p1, p2

MCResult == [p \in Proposal |-> IF p = p1 THEN v2 ELSE v3]

(* The first content is v1: from there every other may be published. *)
MCInit == Init /\ source = v1 /\ subject = p1

MCSpec == MCInit /\ [][Next]_vars

=============================================================================
