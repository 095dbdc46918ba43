--------------------------- MODULE GovernedExecution ---------------------------
(***************************************************************************)
(* The governed execution runtime and its rollback counterpart             *)
(* (packages/operate/lib/operate/governed-execution-v2.mjs,                *)
(* governed-recovery-v2.mjs) over one durable checkpoint store, with the   *)
(* contained targets of reference-governed-executors-v2.mjs.               *)
(*                                                                         *)
(* A call records its dispatch intent by compare-and-swap, calls the       *)
(* contained host, and records a terminal result the same way, rebasing it *)
(* when another event wins.  A call that finds an intent without a result  *)
(* asks the host what became of it, and dispatches again only if nothing   *)
(* did.  Between two awaits a call runs alone in its process, so every     *)
(* action here ends where the code awaits.                                 *)
(*                                                                         *)
(* The state of a checkpoint stands for its events, here reduced to those  *)
(* that govern an operation; the hash chain makes equal heads equal logs.  *)
(***************************************************************************)
EXTENDS Integers, Sequences

CONSTANTS
  Call,              \* the calls of execute and rollback
  Runtime,           \* execution runtimes
  RecoveryRuntime,   \* recovery runtimes
  Execution,         \* execute operations
  Rollback,          \* rollback operations
  Plan,              \* rollback plans
  parent,            \* parent[r]: the execution that rollback r undoes
  planOf,            \* planOf[r]: the plan that rollback r carries out
  Action,            \* Actions, approved at the first revision of their target
  Target,            \* contained targets
  Initial,           \* the first revision of a target
  Overlap,           \* whether calls for several operations share a runtime
  MaxRebase,         \* attempts to record a success (16 in the code)
  MaxDoubt,          \* attempts to record an uncertainty (3 in the code)
  Revocable,         \* bound: the Actions whose approval may be withdrawn
  MaxFault           \* bound: lost answers, failed stagings and restarts

Operation == Execution \union Rollback
Host == Runtime \union RecoveryRuntime

ASSUME OperationAssumption ==
  /\ Execution \intersect Rollback = {}
  /\ Initial \notin Operation
  /\ parent \in [Rollback -> Execution] /\ planOf \in [Rollback -> Plan]
ASSUME PlanAssumption ==   \* a plan is for one execution, and refused for another
  \A r, s \in Rollback : planOf[r] = planOf[s] => parent[r] = parent[s]
ASSUME RuntimeAssumption == Runtime \intersect RecoveryRuntime = {}
ASSUME BoundAssumption ==
  /\ Overlap \in BOOLEAN
  /\ MaxRebase \in Nat \ {0} /\ MaxDoubt \in Nat \ {0}
  /\ Revocable \subseteq Action /\ MaxFault \in Nat

VARIABLES
  actionOf,   \* actionOf[e]: the Action that execution e is for
  targetOf,   \* targetOf[a]: the target of Action a
  log,        \* the events of the durable checkpoint
  cur,        \* cur[h]: currentState of runtime h
  proven,     \* proven[h]: provenTerminalOperations of runtime h
  custody,    \* the results whose bytes the artifact store holds
  target,     \* target[t]: the operation that made t's revision, or Initial
  receipts,   \* the operations whose receipt their target holds
  effected,   \* the operations whose effect ever took place
  op, at,     \* op[c], at[c]: the operation of call c and its runtime
  pc,         \* pc[c]: where call c is
  leader,     \* leader[c]: the call whose promise c awaits, or c
  base,       \* base[c]: the state c builds on, or was answered with
  expect,     \* expect[c]: the state whose head c expects to be current
  goal,       \* goal[c]: the event c is to record
  tries,      \* tries[c]: failed attempts to record a terminal result
  out,        \* out[c]: what the call answered
  faults      \* the faults so far

choice == <<actionOf, targetOf, op, at>>
world == <<target, receipts, effected>>
local == <<base, expect, goal, tries, out>>
vars == <<choice, log, cur, proven, custody, world, pc, leader, local, faults>>

Kind == {"intent", "succeeded", "uncertain"}
Event == [kind : Kind, of : Operation] \union [kind : {"planned"}, of : Plan]
           \union [kind : {"withdrawn"}, of : Action]

Has(l, k, o) == \E i \in DOMAIN l : l[i].of = o /\ l[i].kind = k
Status(l, o) == IF Has(l, "succeeded", o) THEN "succeeded"
                ELSE IF Has(l, "uncertain", o) THEN "uncertain"
                ELSE IF Has(l, "intent", o) THEN "dispatching" ELSE "none"
Extends(l, m) == Len(m) <= Len(l) /\ \A i \in DOMAIN m : l[i] = m[i]

ActionOf(o) == actionOf[IF o \in Execution THEN o ELSE parent[o]]
TargetOf(o) == targetOf[ActionOf(o)]
HostsOf(o) == IF o \in Execution THEN Runtime ELSE RecoveryRuntime

Busy == {"reading", "casing", "won", "stale", "lost", "dispatched", "refused",
         "redispatched", "applied", "absent", "unknown", "staging"}
Active(c) == pc[c] \in Busy

Init ==
  /\ actionOf \in [Execution -> Action]
  /\ targetOf \in [Action -> Target]
  /\ log = <<>>
  /\ cur = [h \in Host |-> <<>>]
  /\ proven = [h \in Host |-> {}]
  /\ custody = {}
  /\ target = [t \in Target |-> Initial]
  /\ receipts = {} /\ effected = {}
  /\ pc = [c \in Call |-> "idle"]
  /\ op \in [Call -> Operation]
  /\ at \in [Call -> Host]
  /\ \A c \in Call : at[c] \in HostsOf(op[c])
  /\ leader = [c \in Call |-> c]
  /\ base = [c \in Call |-> <<>>] /\ expect = [c \in Call |-> <<>>]
  /\ goal = [c \in Call |-> "intent"]
  /\ tries = [c \in Call |-> 0]
  /\ out = [c \in Call |-> "none"]
  /\ faults = 0

Fault == faults < MaxFault /\ faults' = faults + 1

(* The locals of a call go with it. *)
Answer(c, answer) ==
  /\ pc' = [pc EXCEPT ![c] = "done"]
  /\ out' = [out EXCEPT ![c] = answer]
  /\ base' = [base EXCEPT ![c] = <<>>]
  /\ expect' = [expect EXCEPT ![c] = <<>>]
  /\ goal' = [goal EXCEPT ![c] = "intent"]
  /\ tries' = [tries EXCEPT ![c] = 0]

Fail(c) == Answer(c, "failed")

Replay(c, status) ==
  Answer(c, IF op[c] \in Rollback /\ <<op[c], status>> \notin custody
            THEN "failed" ELSE status)

-----------------------------------------------------------------------------
(* Recording a terminal result: commitProvenSuccess, terminalizeUncertain  *)
(* and the two loops of rollbackOnce.                                      *)

Bound(g) == IF g = "succeeded" THEN MaxRebase ELSE MaxDoubt

VerdictLate(c, g, n, status) ==
  IF n <= Bound(g) /\ status = "dispatching" THEN "record" ELSE "failed"
VerdictTrusting(c, g, n, status) ==
  IF g = "succeeded" /\ n > 0 THEN "succeeded"
  ELSE IF n < Bound(g) /\ status = "dispatching" THEN "record" ELSE "failed"
Verdict(c, g, n, status) ==
  IF n < Bound(g) /\ status = "dispatching" THEN "record"
  ELSE IF /\ status = "succeeded"
          /\ \/ g = "succeeded" /\ n < Bound(g)
             \/ g = "uncertain" /\ op[c] \in Execution
       THEN "succeeded"
       ELSE "failed"

(* The (n+1)st attempt to record g, on top of state s. *)
Attempt(c, g, n, s) ==
  LET verdict == Verdict(c, g, n, Status(s, op[c])) IN
  IF verdict = "record"
  THEN /\ pc' = [pc EXCEPT ![c] = "staging"]
       /\ goal' = [goal EXCEPT ![c] = g]
       /\ tries' = [tries EXCEPT ![c] = n]
       /\ base' = [base EXCEPT ![c] = s]
       /\ UNCHANGED <<expect, out>>
  ELSE Answer(c, verdict)

(* Staging failed, and the caller goes on to commit regardless. *)
UnstagedAlwaysSuffices(c) == TRUE
UnstagedSuffices(c) == goal[c] = "uncertain" /\ op[c] \in Execution

(* commitCheckpoint takes currentState as it is after staging; only the    *)
(* uncertain path of a rollback builds its proposal on it anew.            *)
ExpectedDurable(c) == log
Expected(c) == cur[at[c]]

GoOn(c) ==
  /\ pc' = [pc EXCEPT ![c] = "casing"]
  /\ expect' = [expect EXCEPT ![c] = Expected(c)]
  /\ base' = IF goal[c] = "uncertain" /\ op[c] \in Rollback
             THEN [base EXCEPT ![c] = cur[at[c]]] ELSE base
  /\ UNCHANGED <<goal, tries, out>>

Stage(c) ==
  /\ pc[c] = "staging"
  /\ \/ /\ custody' = custody \union {<<op[c], goal[c]>>}
        /\ GoOn(c)
        /\ UNCHANGED faults
     \/ /\ Fault
        /\ IF UnstagedSuffices(c) THEN GoOn(c) ELSE Fail(c)
        /\ UNCHANGED custody
  /\ UNCHANGED <<choice, log, cur, proven, world, leader>>

(* The store compares heads and stores the proposed state; its answer may  *)
(* get lost either way.                                                    *)
Proposal(c) == Append(base[c], [kind |-> goal[c], of |-> op[c]])

Cas(c) ==
  /\ pc[c] = "casing"
  /\ \/ /\ log = expect[c]
        /\ log' = Proposal(c)
        /\ \/ /\ pc' = [pc EXCEPT ![c] = "won"]
              /\ base' = [base EXCEPT ![c] = log']
              /\ UNCHANGED faults
           \/ /\ Fault
              /\ pc' = [pc EXCEPT ![c] = "lost"]
              /\ UNCHANGED base
     \/ /\ log # expect[c]
        /\ pc' = [pc EXCEPT ![c] = "stale"]
        /\ base' = [base EXCEPT ![c] = log]
        /\ UNCHANGED <<log, faults>>
     \/ /\ Fault
        /\ pc' = [pc EXCEPT ![c] = "lost"]
        /\ UNCHANGED <<log, base>>
  /\ UNCHANGED <<choice, cur, proven, custody, world, leader, expect, goal,
                 tries, out>>

Adopt(c) == cur' = [cur EXCEPT ![at[c]] = base[c]]

ResultWon(c) ==
  /\ pc[c] = "won" /\ goal[c] # "intent"
  /\ Adopt(c)
  /\ Answer(c, IF goal[c] = "succeeded" THEN "succeeded" ELSE "failed")
  /\ UNCHANGED <<choice, log, proven, custody, world, leader, faults>>

ResultStale(c) ==
  /\ pc[c] = "stale" /\ goal[c] # "intent"
  /\ Adopt(c)
  /\ Attempt(c, goal[c], tries[c] + 1, base[c])
  /\ UNCHANGED <<choice, log, proven, custody, world, leader, faults>>

ResultLost(c) ==
  /\ pc[c] = "lost" /\ goal[c] # "intent"
  /\ Attempt(c, goal[c], tries[c] + 1, cur[at[c]])
  /\ UNCHANGED <<choice, log, cur, proven, custody, world, leader, faults>>

-----------------------------------------------------------------------------
(* The contained target.                                                   *)

(* It answers a repeated execution with its receipt, and applies an        *)
(* operation only to the revision it is meant for.                         *)
Repeats(o) == o \in Execution /\ o \in receipts
AppliesUnlessLast(o) == target[TargetOf(o)] # o
Applies(o) ==
  /\ ~Repeats(o)
  /\ target[TargetOf(o)] = IF o \in Execution THEN Initial ELSE parent[o]

HostCall(c, performed) ==
  LET o == op[c] IN
  IF Applies(o)
  THEN /\ target' = [target EXCEPT ![TargetOf(o)] = o]
       /\ receipts' = receipts \union {o}
       /\ effected' = effected \union {o}
       /\ pc' = [pc EXCEPT ![c] = performed]
  ELSE /\ pc' = [pc EXCEPT ![c] = IF Repeats(o) THEN performed ELSE "refused"]
       /\ UNCHANGED world

-----------------------------------------------------------------------------
(* execute and rollback.                                                   *)

(* A call for an operation in flight in its runtime waits for that one.    *)
Begin(c) ==
  LET mates == {d \in Call : Active(d) /\ at[d] = at[c]}
      leaders == {d \in mates : op[d] = op[c]} IN
  /\ pc[c] = "idle"
  /\ Overlap \/ mates = leaders
  /\ IF leaders = {}
     THEN /\ pc' = [pc EXCEPT ![c] = "reading"]
          /\ base' = [base EXCEPT ![c] = log]
          /\ expect' = [expect EXCEPT ![c] = cur[at[c]]]
          /\ UNCHANGED leader
     ELSE /\ pc' = [pc EXCEPT ![c] = "joined"]
          /\ \E d \in leaders : leader' = [leader EXCEPT ![c] = d]
          /\ UNCHANGED <<base, expect>>
  /\ UNCHANGED <<choice, log, cur, proven, custody, world, goal, tries, out,
                 faults>>

Joined(c) ==
  LET status == Status(cur[at[c]], op[c]) IN
  /\ pc[c] = "joined"
  /\ pc[leader[c]] = "done"
  /\ IF out[leader[c]] # "failed" /\ status \in {"succeeded", "uncertain"}
     THEN Replay(c, status) ELSE Fail(c)
  /\ leader' = [leader EXCEPT ![c] = c]
  /\ UNCHANGED <<choice, log, cur, proven, custody, world, faults>>

(* The operation has an intent and no result.  A rollback is not resumed,  *)
(* nor an execution this runtime has seen done; for others the host looks  *)
(* for a receipt, if the call brings a host that can.                      *)
NotResumedRollback(o, h) == o \in Rollback
NotResumed(o, h) == o \in Rollback \/ o \in proven[h]

Reconciled(o) ==
  IF o \in receipts THEN "applied"
  ELSE IF target[TargetOf(o)] = Initial THEN "absent" ELSE "unknown"

Resume(c) ==
  IF NotResumed(op[c], at[c])
  THEN Fail(c)
  ELSE /\ \E found \in {Reconciled(op[c]), "unknown"} : pc' = [pc EXCEPT ![c] = found]
       /\ UNCHANGED local

(* Preflight: the Action is free and approved and its target where the     *)
(* review saw it; or the parent succeeded, the plan for it is there and no *)
(* other rollback took that plan, and the target is as the parent left it. *)
FreeOfParent(l, o) ==
  o \in Rollback => Has(l, "succeeded", parent[o]) /\ Has(l, "planned", planOf[o])
PlanFree(l, o) ==
  /\ Has(l, "succeeded", parent[o])
  /\ Has(l, "planned", planOf[o])
  /\ \A r \in Rollback : planOf[r] = planOf[o] => ~Has(l, "intent", r)
Free(l, o) ==
  IF o \in Execution
  THEN \A e \in Execution : actionOf[e] = actionOf[o] => ~Has(l, "intent", e)
  ELSE PlanFree(l, o)
AuthorisedAnyway(l, o) == TRUE
Authorised(l, o) == ~Has(l, "withdrawn", ActionOf(o))
InPlace(o) == target[TargetOf(o)] = IF o \in Execution THEN Initial ELSE parent[o]

Preflight(c) ==
  IF Free(base[c], op[c]) /\ Authorised(base[c], op[c]) /\ InPlace(op[c])
  THEN /\ pc' = [pc EXCEPT ![c] = "casing"]
       /\ goal' = [goal EXCEPT ![c] = "intent"]
       /\ expect' = [expect EXCEPT ![c] = base[c]]
       /\ UNCHANGED <<base, tries, out>>
  ELSE Fail(c)

(* readCheckpoint refuses a snapshot that does not extend what the runtime *)
(* knows.                                                                  *)
Refresh(c) ==
  LET status == Status(base[c], op[c]) IN
  /\ pc[c] = "reading"
  /\ IF Extends(base[c], expect[c])
     THEN /\ Adopt(c)
          /\ CASE status = "none" -> Preflight(c)
               [] status = "dispatching" -> Resume(c)
               [] OTHER -> Replay(c, status)
     ELSE Fail(c) /\ UNCHANGED cur
  /\ UNCHANGED <<choice, log, proven, custody, world, leader, faults>>

(* The intent is durable: the host is called in the same turn. *)
Dispatch(c) ==
  /\ pc[c] = "won" /\ goal[c] = "intent"
  /\ Adopt(c)
  /\ HostCall(c, "dispatched")
  /\ UNCHANGED <<choice, log, proven, custody, leader, local, faults>>

(* Another event won.  If it was this operation's own intent, the loser    *)
(* records it uncertain.                                                   *)
IntentStale(c) ==
  LET status == Status(base[c], op[c]) IN
  /\ pc[c] = "stale" /\ goal[c] = "intent"
  /\ Adopt(c)
  /\ CASE status \in {"succeeded", "uncertain"} -> Replay(c, status)
       [] status = "dispatching" /\ op[c] \in Execution ->
            Attempt(c, "uncertain", 0, base[c])
       [] OTHER -> Fail(c)
  /\ UNCHANGED <<choice, log, proven, custody, world, leader, faults>>

IntentLost(c) ==
  /\ pc[c] = "lost" /\ goal[c] = "intent"
  /\ Fail(c)
  /\ UNCHANGED <<choice, log, cur, proven, custody, world, leader, faults>>

(* The receipt is there.  One from a second dispatch is not remembered.    *)
Proved(c) ==
  /\ pc[c] \in {"dispatched", "applied", "redispatched"}
  /\ proven' = IF pc[c] = "redispatched" THEN proven
               ELSE [proven EXCEPT ![at[c]] = @ \union {op[c]}]
  /\ Attempt(c, "succeeded", 0, cur[at[c]])
  /\ UNCHANGED <<choice, log, cur, custody, world, leader, faults>>

Doubt(c) ==
  /\ pc[c] \in {"refused", "unknown"}
  /\ Attempt(c, "uncertain", 0, cur[at[c]])
  /\ UNCHANGED <<choice, log, cur, proven, custody, world, leader, faults>>

Redispatch(c) ==
  /\ pc[c] = "absent"
  /\ \/ HostCall(c, "redispatched") /\ UNCHANGED local
     \/ ~Authorised(cur[at[c]], op[c]) /\ Fail(c) /\ UNCHANGED world
  /\ UNCHANGED <<choice, log, cur, proven, custody, leader, faults>>

-----------------------------------------------------------------------------
(* What other components write to the checkpoint, and the process.         *)

Record(k, x) ==
  /\ ~Has(log, k, x)
  /\ log' = Append(log, [kind |-> k, of |-> x])
  /\ UNCHANGED <<choice, cur, proven, custody, world, pc, leader, local, faults>>

Withdraw(a) == a \in Revocable /\ Record("withdrawn", a)

(* An execution may get several plans. *)
PlanRollback(r) == Has(log, "succeeded", parent[r]) /\ Record("planned", planOf[r])

(* Calls and contained targets go with the process; the stores stay. *)
Restart ==
  /\ Fault
  /\ cur' = [h \in Host |-> log]
  /\ proven' = [h \in Host |-> {}]
  /\ target' = [t \in Target |-> Initial]
  /\ receipts' = {}
  /\ pc' = [c \in Call |-> IF pc[c] = "idle" THEN "idle" ELSE "done"]
  /\ out' = [c \in Call |-> IF pc[c] \in {"idle", "done"} THEN out[c] ELSE "died"]
  /\ leader' = [c \in Call |-> c]
  /\ base' = [c \in Call |-> <<>>]
  /\ expect' = [c \in Call |-> <<>>]
  /\ goal' = [c \in Call |-> "intent"]
  /\ tries' = [c \in Call |-> 0]
  /\ UNCHANGED <<choice, log, custody, effected>>

Step(c) ==
  \/ Begin(c) \/ Joined(c) \/ Refresh(c) \/ Cas(c)
  \/ Dispatch(c) \/ IntentStale(c) \/ IntentLost(c)
  \/ Proved(c) \/ Doubt(c) \/ Redispatch(c)
  \/ Stage(c) \/ ResultWon(c) \/ ResultStale(c) \/ ResultLost(c)

Next ==
  \/ \E c \in Call : Step(c)
  \/ \E a \in Action : Withdraw(a)
  \/ \E r \in Rollback : PlanRollback(r)
  \/ Restart

Spec == Init /\ [][Next]_vars

-----------------------------------------------------------------------------
(* The types; a call joined another of its operation and runtime, and      *)
(* never outruns the attempts of what it records.                          *)
TypeOK ==
  /\ actionOf \in [Execution -> Action] /\ targetOf \in [Action -> Target]
  /\ op \in [Call -> Operation] /\ at \in [Call -> Host]
  /\ \A c \in Call : at[c] \in HostsOf(op[c])
  /\ log \in Seq(Event)
  /\ cur \in [Host -> Seq(Event)]
  /\ proven \in [Host -> SUBSET Operation]
  /\ custody \subseteq Operation \X {"succeeded", "uncertain"}
  /\ target \in [Target -> Operation \union {Initial}]
  /\ receipts \subseteq effected /\ effected \subseteq Operation
  /\ pc \in [Call -> Busy \union {"idle", "joined", "done"}]
  /\ leader \in [Call -> Call]
  /\ base \in [Call -> Seq(Event)] /\ expect \in [Call -> Seq(Event)]
  /\ goal \in [Call -> Kind]
  /\ tries \in [Call -> Nat]
  /\ \A c \in Call : goal[c] # "intent" => tries[c] < Bound(goal[c])
  /\ out \in [Call -> {"none", "succeeded", "uncertain", "failed", "died"}]
  /\ faults \in 0 .. MaxFault

(* commitCheckpoint replaces the whole durable state, and a runtime that   *)
(* lost a compare-and-swap rebases: an event once durable, above all the   *)
(* intent or the result of another operation, is never lost.               *)
HistoryOnlyGrows == [][Extends(log', log)]_log

(* The log, with the effects, is a ledger of operations: intent before     *)
(* effect, one owner per Action and per plan, one end, success only with   *)
(* the effect, and one rollback of an execution in effect, however many    *)
(* plans for it are carried out.                                           *)
Ledger == INSTANCE OperationLedger WITH
            status <- [o \in Operation |-> Status(log, o)]
ImplementsLedger == Ledger!Spec

(* A result is recorded only when its bytes are in custody, but for an     *)
(* execution given up as uncertain.                                        *)
RecordedInCustody ==
  \A o \in Operation, k \in {"succeeded", "uncertain"} :
    Has(log, k, o) => <<o, k>> \in custody \/ (k = "uncertain" /\ o \in Execution)

(* A runtime that has proved an effect never again sets out to record it   *)
(* as uncertain: the reserved identities may already carry the success.    *)
ProvenNeverDoubted ==
  \A c \in Call : goal[c] = "uncertain" => op[c] \notin proven[at[c]]

(* A rollback that succeeded holds: no late or repeated dispatch brings    *)
(* the rolled-back effect back to the target.                              *)
RollbackHolds ==
  \A r \in Rollback :
    Has(log, "succeeded", r) => target[TargetOf(r)] # parent[r]

(* No intent follows the withdrawal of its Action's approval, whichever    *)
(* snapshot the preflight judged.                                          *)
IntentsAuthorised ==
  \A i, j \in DOMAIN log :
    (i < j /\ log[i].kind = "withdrawn" /\ log[j].kind = "intent")
      => ActionOf(log[j].of) # log[i].of

(* What a call answers is durable, whatever answers of the store got lost. *)
AnswersAreDurable ==
  \A c \in Call :
    out[c] \in {"succeeded", "uncertain"} => Status(log, op[c]) = out[c]

=============================================================================
