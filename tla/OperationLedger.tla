---------------------------- MODULE OperationLedger ----------------------------
(***************************************************************************)
(* What governed execution promises of its operations, whatever runtimes   *)
(* work on them: an operation is dispatched before its effect, at most one *)
(* per Action and one per rollback plan; it ends once, and as succeeded    *)
(* only if the effect took place.  Several plans may be carried out for an *)
(* execution; one of these rollbacks at most takes effect.                 *)
(***************************************************************************)
CONSTANTS Execution, Rollback, parent, planOf

VARIABLES
  actionOf,   \* actionOf[e]: the Action that execution e is for
  status,     \* status[o]: none, dispatching, succeeded or uncertain
  effected    \* the operations whose effect took place

vars == <<actionOf, status, effected>>

Operation == Execution \union Rollback

Init ==
  /\ status = [o \in Operation |-> "none"]
  /\ effected = {}

Rivals(o) ==
  IF o \in Execution THEN {e \in Execution : actionOf[e] = actionOf[o]}
                     ELSE {r \in Rollback : planOf[r] = planOf[o]}

Dispatch(o) ==
  /\ status[o] = "none"
  /\ \A p \in Rivals(o) : status[p] = "none"
  /\ o \in Rollback => status[parent[o]] = "succeeded"
  /\ status' = [status EXCEPT ![o] = "dispatching"]
  /\ UNCHANGED <<actionOf, effected>>

(* Another runtime may have given the operation up by then. *)
Effect(o) ==
  /\ o \notin effected
  /\ status[o] \in {"dispatching", "uncertain"}
  /\ o \in Rollback =>
       \A r \in Rollback : parent[r] = parent[o] => r \notin effected
  /\ effected' = effected \union {o}
  /\ UNCHANGED <<actionOf, status>>

Succeed(o) ==
  /\ o \in effected
  /\ status[o] = "dispatching"
  /\ status' = [status EXCEPT ![o] = "succeeded"]
  /\ UNCHANGED <<actionOf, effected>>

Doubt(o) ==
  /\ status[o] = "dispatching"
  /\ status' = [status EXCEPT ![o] = "uncertain"]
  /\ UNCHANGED <<actionOf, effected>>

(* A step changes something: TLC need not look into one that does not. *)
Next ==
  /\ vars' # vars
  /\ \E o \in Operation : Dispatch(o) \/ Effect(o) \/ Succeed(o) \/ Doubt(o)

Spec == Init /\ [][Next]_vars

=============================================================================
