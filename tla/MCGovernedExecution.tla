-------------------------- MODULE MCGovernedExecution --------------------------
EXTENDS GovernedExecution, TLC

CONSTANTS c1, c2, c3, x1, x2, y1, y2, e1, e2, r1, r2, r3, p1, p2, a1, a2, t1, t2

MCParent == [r \in Rollback |-> e1]
MCPlanOf == [r \in Rollback |-> IF r = r3 THEN p2 ELSE p1]

(* One call for e1; the other two repeat it in the same or in the other    *)
(* runtime, execute e2, or roll e1 back: the same rollback twice, two of   *)
(* one plan, or two of two plans.  Pairs that only swap the two executions *)
(* or the two runtimes are left out.                                       *)
MCJobs == <<<<e1, x1>>, <<e1, x2>>, <<e2, x2>>,
            <<r1, y1>>, <<r2, y2>>, <<r3, y2>>>>
MCPairs == {<<1, 1>>, <<1, 2>>, <<1, 3>>, <<1, 4>>, <<2, 3>>, <<2, 4>>,
            <<3, 4>>, <<4, 4>>, <<4, 5>>, <<4, 6>>}

(* Both executions for one Action, for two on one target, or unrelated;    *)
(* the last where nothing but the checkpoint is between them.              *)
MCChoices(p) ==
  {<<a1, t1>>, <<a2, t1>>} \union IF p = <<1, 3>> THEN {<<a2, t2>>} ELSE {}

MCInit ==
  /\ Init
  /\ actionOf[e1] = a1 /\ targetOf[a1] = t1
  /\ op[c1] = e1 /\ at[c1] = x1
  /\ \E p \in MCPairs :
       /\ <<op[c2], at[c2]>> = MCJobs[p[1]]
       /\ <<op[c3], at[c3]>> = MCJobs[p[2]]
       /\ <<actionOf[e2], targetOf[a2]>> \in
            IF \E c \in Call : op[c] = e2 THEN MCChoices(p) ELSE {<<a2, t2>>}

(* Only plans that some call carries out are made, the first one first.    *)
MCNext ==
  /\ Next
  /\ \A p \in Plan : Has(log', "planned", p) =>
       /\ \E c \in Call : op[c] \in Rollback /\ planOf[op[c]] = p
       /\ p = p2 => Has(log, "planned", p1)

MCSpec == MCInit /\ [][MCNext]_vars

=============================================================================
