------------------------------- MODULE Exclusion -------------------------------
(***************************************************************************)
(* What the locks of the system promise, and what a component that runs    *)
(* under one relies on: at most one call is inside, and the next one       *)
(* enters when it has left or died.                                        *)
(***************************************************************************)
CONSTANT Caller

VARIABLE inside   \* the calls inside

Init == inside = {}

Enter(c) == inside = {} /\ inside' = {c}

Leave == inside # {} /\ inside' = {}

Next == Leave \/ \E c \in Caller : Enter(c)

Spec == Init /\ [][Next]_inside

=============================================================================
