------------------------ MODULE GovernedExecutionProofs ------------------------
(***************************************************************************)
(* Proofs about GovernedExecution, for every number of calls, runtimes and *)
(* operations.                                                             *)
(*                                                                         *)
(* TypeCorrect and CustodyHolds hold whether or not operations overlap in  *)
(* a runtime.  The others assume one operation at a time in each runtime   *)
(* (~Overlap): with overlap a runtime's currentState moves under a call    *)
(* that is about to commit, and HistoryOnlyGrows fails.                    *)
(*                                                                         *)
(* First each action is reduced to what it does, value by value, to its    *)
(* call, its runtime and the stores (Move); the invariants are then proved *)
(* over moves, each on top of those before it:                             *)
(*   SyncInv   what a call builds on is what its runtime knows             *)
(*   GrowInv   what a runtime knows is a part of the log                   *)
(*   PhaseInv  what a call knows of its operation where it is              *)
(*   FactInv   what the log says of an operation hangs together            *)
(* ProvenInv and RollInv strengthen ProvenNeverDoubted and RollbackHolds.  *)
(***************************************************************************)
EXTENDS GovernedExecution, TLAPS

USE OperationAssumption, RuntimeAssumption, BoundAssumption

-----------------------------------------------------------------------------
(* Logs.                                                                   *)

LEMMA HasAppend ==
  ASSUME NEW l \in Seq(Event), NEW e \in Event, NEW k, NEW o
  PROVE  Has(Append(l, e), k, o) <=> Has(l, k, o) \/ (e.of = o /\ e.kind = k)
<1>1. DOMAIN Append(l, e) = DOMAIN l \union {Len(l) + 1}
  OBVIOUS
<1>2. \A i \in DOMAIN l : Append(l, e)[i] = l[i]
  OBVIOUS
<1>3. Append(l, e)[Len(l) + 1] = e
  OBVIOUS
<1> QED BY <1>1, <1>2, <1>3 DEF Has

LEMMA ExtendsAppend ==
  ASSUME NEW l \in Seq(Event), NEW e \in Event
  PROVE  Append(l, e) \in Seq(Event) /\ Extends(Append(l, e), l)
BY DEF Extends

LEMMA ExtendsRefl ==
  ASSUME NEW l \in Seq(Event) PROVE Extends(l, l)
BY DEF Extends

LEMMA ExtendsTrans ==
  ASSUME NEW l \in Seq(Event), NEW m \in Seq(Event), NEW n \in Seq(Event),
         Extends(l, m), Extends(m, n)
  PROVE  Extends(l, n)
BY DEF Extends

LEMMA ExtendsHas ==
  ASSUME NEW l \in Seq(Event), NEW m \in Seq(Event), Extends(l, m), NEW k, NEW o,
         Has(m, k, o)
  PROVE  Has(l, k, o)
<1>1. DOMAIN m \subseteq DOMAIN l
  BY DEF Extends
<1> QED BY <1>1 DEF Extends, Has

LEMMA EmptyHas == \A k, o : ~Has(<<>>, k, o)
BY DEF Has

LEMMA EmptyExtended == \A l \in Seq(Event) : Extends(l, <<>>)
BY DEF Extends

AuthorisedLog(l) ==
  \A i, j \in DOMAIN l :
    (i < j /\ l[i].kind = "withdrawn" /\ l[j].kind = "intent")
      => ActionOf(l[j].of) # l[i].of

LEMMA AuthorisedAppend ==
  ASSUME NEW l \in Seq(Event), NEW e \in Event, AuthorisedLog(l),
         e.kind = "intent" => Authorised(l, e.of)
  PROVE  AuthorisedLog(Append(l, e))
<1>1. DOMAIN Append(l, e) = DOMAIN l \union {Len(l) + 1} /\ DOMAIN l = 1 .. Len(l)
  OBVIOUS
<1>2. \A i \in DOMAIN l : Append(l, e)[i] = l[i]
  OBVIOUS
<1>3. Append(l, e)[Len(l) + 1] = e
  OBVIOUS
<1> SUFFICES ASSUME NEW i \in DOMAIN Append(l, e), NEW j \in DOMAIN Append(l, e), i < j,
                    Append(l, e)[i].kind = "withdrawn", Append(l, e)[j].kind = "intent"
             PROVE  ActionOf(Append(l, e)[j].of) # Append(l, e)[i].of
  BY DEF AuthorisedLog
<1>4. i \in DOMAIN l
  BY <1>1
<1>5. CASE j \in DOMAIN l
  BY <1>2, <1>4, <1>5 DEF AuthorisedLog
<1>6. CASE j = Len(l) + 1
  BY <1>2, <1>3, <1>4, <1>6 DEF Authorised, Has
<1> QED BY <1>1, <1>5, <1>6

-----------------------------------------------------------------------------
(* Types, with or without overlap.                                         *)

Outcome == {"none", "succeeded", "uncertain", "failed", "died"}
Place == Busy \union {"idle", "joined", "done"}

LocalsOK ==
  /\ pc \in [Call -> Place]
  /\ base \in [Call -> Seq(Event)] /\ expect \in [Call -> Seq(Event)]
  /\ goal \in [Call -> Kind]
  /\ tries \in [Call -> Nat]
  /\ \A c \in Call : goal[c] # "intent" => tries[c] < Bound(goal[c])
  /\ \A c \in Call : pc[c] = "staging" => goal[c] # "intent"
  /\ out \in [Call -> Outcome]

SharedOK ==
  /\ actionOf \in [Execution -> Action] /\ targetOf \in [Action -> Target]
  /\ op \in [Call -> Operation] /\ at \in [Call -> Host]
  /\ \A c \in Call : at[c] \in HostsOf(op[c])
  /\ log \in Seq(Event)
  /\ cur \in [Host -> Seq(Event)]
  /\ proven \in [Host -> SUBSET Operation]
  /\ custody \subseteq Operation \X {"succeeded", "uncertain"}
  /\ target \in [Target -> Operation \union {Initial}]
  /\ receipts \subseteq effected /\ effected \subseteq Operation
  /\ leader \in [Call -> Call]
  /\ faults \in 0 .. MaxFault

LEMMA TypeParts == SharedOK /\ LocalsOK => TypeOK
BY DEF TypeOK, SharedOK, LocalsOK, Outcome, Place

LEMMA Statuses == \A l, o : Status(l, o) \in {"none", "dispatching", "succeeded", "uncertain"}
BY DEF Status

LEMMA Verdicts == \A c, g, n, status : Verdict(c, g, n, status) \in {"record", "succeeded", "failed"}
BY DEF Verdict

LEMMA TargetTypes ==
  ASSUME SharedOK, NEW o \in Operation
  PROVE  ActionOf(o) \in Action /\ TargetOf(o) \in Target
BY DEF SharedOK, ActionOf, TargetOf, Operation

LEMMA AnswerType ==
  ASSUME LocalsOK, NEW c \in Call, NEW a \in Outcome, Answer(c, a)
  PROVE  LocalsOK'
<1>1. <<>> \in Seq(Event) /\ "intent" \in Kind /\ "done" \in Place
  BY DEF Kind, Place
<1>2. /\ pc' \in [Call -> Place] /\ base' \in [Call -> Seq(Event)]
      /\ expect' \in [Call -> Seq(Event)] /\ goal' \in [Call -> Kind]
      /\ tries' \in [Call -> Nat] /\ out' \in [Call -> Outcome]
  BY <1>1 DEF LocalsOK, Answer
<1>3. \A d \in Call :
        /\ goal'[d] # "intent" => tries'[d] < Bound(goal'[d])
        /\ pc'[d] = "staging" => goal'[d] # "intent"
  BY DEF LocalsOK, Answer
<1> QED BY <1>2, <1>3 DEF LocalsOK

LEMMA FailType ==
  ASSUME LocalsOK, NEW c \in Call, Fail(c) PROVE LocalsOK'
BY AnswerType DEF Fail, Outcome

LEMMA ReplayType ==
  ASSUME LocalsOK, NEW c \in Call, NEW a \in Outcome, Replay(c, a)
  PROVE  LocalsOK'
<1>1. "failed" \in Outcome
  BY DEF Outcome
<1> QED BY <1>1, AnswerType DEF Replay

LEMMA AttemptType ==
  ASSUME LocalsOK, NEW c \in Call, NEW g \in {"succeeded", "uncertain"},
         NEW n \in Nat, NEW s \in Seq(Event), Attempt(c, g, n, s)
  PROVE  LocalsOK'
<1> DEFINE verdict == Verdict(c, g, n, Status(s, op[c]))
<1>1. CASE verdict = "record"
  <2>1. n < Bound(g)
    BY <1>1 DEF Verdict
  <2>2. "staging" \in Place /\ g \in Kind
    BY DEF Place, Busy, Kind
  <2>3. /\ pc' = [pc EXCEPT ![c] = "staging"] /\ goal' = [goal EXCEPT ![c] = g]
        /\ tries' = [tries EXCEPT ![c] = n] /\ base' = [base EXCEPT ![c] = s]
        /\ expect' = expect /\ out' = out
    BY <1>1 DEF Attempt
  <2>4. \A d \in Call :
          /\ goal'[d] # "intent" => tries'[d] < Bound(goal'[d])
          /\ pc'[d] = "staging" => goal'[d] # "intent"
    BY <2>1, <2>3 DEF LocalsOK
  <2> QED BY <2>2, <2>3, <2>4 DEF LocalsOK
<1>2. CASE verdict # "record"
  <2>1. verdict \in Outcome
    BY <1>2, Verdicts DEF Outcome
  <2>2. Answer(c, verdict)
    BY <1>2 DEF Attempt
  <2> QED BY <2>1, <2>2, AnswerType
<1> QED BY <1>1, <1>2

LEMMA GoType ==
  ASSUME LocalsOK, SharedOK, NEW c \in Call, GoOn(c) PROVE LocalsOK'
<1>1. "casing" \in Place /\ Expected(c) \in Seq(Event) /\ cur[at[c]] \in Seq(Event)
  BY DEF Place, Busy, Expected, SharedOK
<1> QED BY <1>1 DEF LocalsOK, GoOn

LEMMA HostType ==
  ASSUME LocalsOK, SharedOK, NEW c \in Call, NEW p \in Place, HostCall(c, p)
  PROVE  /\ pc' \in [Call -> Place]
         /\ \E q \in Place : pc' = [pc EXCEPT ![c] = q] /\ q \in {p, "refused"}
         /\ target' \in [Target -> Operation \union {Initial}]
         /\ receipts' \subseteq effected' /\ effected' \subseteq Operation
<1>1. op[c] \in Operation /\ TargetOf(op[c]) \in Target /\ "refused" \in Place
  BY TargetTypes DEF SharedOK, Place, Busy
<1>2. CASE Applies(op[c])
  <2>1. /\ target' = [target EXCEPT ![TargetOf(op[c])] = op[c]]
        /\ receipts' = receipts \union {op[c]} /\ effected' = effected \union {op[c]}
        /\ pc' = [pc EXCEPT ![c] = p]
    BY <1>2 DEF HostCall
  <2> QED BY <1>1, <2>1 DEF LocalsOK, SharedOK
<1>3. CASE ~Applies(op[c])
  <2>1. /\ target' = target /\ receipts' = receipts /\ effected' = effected
        /\ pc' = [pc EXCEPT ![c] = IF Repeats(op[c]) THEN p ELSE "refused"]
    BY <1>3 DEF HostCall, world
  <2> QED BY <1>1, <2>1 DEF LocalsOK, SharedOK
<1> QED BY <1>2, <1>3

LEMMA StepType ==
  ASSUME SharedOK, LocalsOK, NEW c \in Call, Step(c) PROVE SharedOK' /\ LocalsOK'
<1> USE DEF choice, world, local
<1>0. SharedOK /\ LocalsOK /\ op[c] \in Operation /\ at[c] \in Host
  BY DEF SharedOK
<1>a. cur[at[c]] \in Seq(Event) /\ base[c] \in Seq(Event) /\ tries[c] \in Nat
      /\ goal[c] \in Kind /\ log \in Seq(Event)
  BY <1>0 DEF SharedOK, LocalsOK
<1>b. Adopt(c) => cur' \in [Host -> Seq(Event)]
  BY <1>0, <1>a DEF Adopt, SharedOK
<1>1. CASE Begin(c)
  <2>1. /\ \E q \in {"reading", "joined"} : pc' = [pc EXCEPT ![c] = q]
        /\ base' = [base EXCEPT ![c] = log] \/ base' = base
        /\ expect' = [expect EXCEPT ![c] = cur[at[c]]] \/ expect' = expect
        /\ leader' = leader \/ \E d \in Call : leader' = [leader EXCEPT ![c] = d]
        /\ goal' = goal /\ tries' = tries /\ out' = out
        /\ UNCHANGED <<actionOf, targetOf, op, at, log, cur, proven, custody>>
        /\ UNCHANGED <<target, receipts, effected, faults>>
    BY <1>1 DEF Begin
  <2>2. leader' \in [Call -> Call]
    BY <1>0, <2>1 DEF SharedOK
  <2>3. SharedOK'
    BY <1>0, <2>1, <2>2 DEF SharedOK, HostsOf
  <2>4. "reading" \in Place /\ "joined" \in Place
    BY DEF Place, Busy
  <2>5. pc' \in [Call -> Place] /\ \A d \in Call : pc'[d] = "staging" => pc[d] = "staging"
    BY <1>0, <2>1, <2>4 DEF LocalsOK
  <2>6. base' \in [Call -> Seq(Event)] /\ expect' \in [Call -> Seq(Event)]
    BY <1>0, <1>a, <2>1 DEF LocalsOK
  <2>7. LocalsOK'
    BY <1>0, <2>1, <2>5, <2>6 DEF LocalsOK, Bound
  <2> QED BY <2>3, <2>7
<1>2. CASE Joined(c)
  <2>1. SharedOK'
    BY <1>0, <1>2 DEF Joined, SharedOK
  <2>2. LocalsOK'
    BY <1>0, <1>2, ReplayType, FailType DEF Joined, Outcome
  <2> QED BY <2>1, <2>2
<1>3. CASE Refresh(c)
  <2>1. SharedOK'
    BY <1>0, <1>3, <1>b DEF Refresh, SharedOK
  <2>2. ASSUME Preflight(c) PROVE LocalsOK'
    <3>1. "casing" \in Place /\ "intent" \in Kind
      BY DEF Place, Busy, Kind
    <3>2. CASE Fail(c)
      BY <1>0, <3>2, FailType
    <3>3. CASE /\ pc' = [pc EXCEPT ![c] = "casing"]
               /\ goal' = [goal EXCEPT ![c] = "intent"]
               /\ expect' = [expect EXCEPT ![c] = base[c]]
               /\ UNCHANGED <<base, tries, out>>
      BY <1>0, <1>a, <3>1, <3>3 DEF LocalsOK
    <3> QED BY <2>2, <3>2, <3>3 DEF Preflight
  <2>3. ASSUME Resume(c) PROVE LocalsOK'
    <3>1. {Reconciled(op[c]), "unknown"} \subseteq Place \ {"staging"}
      BY DEF Reconciled, Place, Busy
    <3>2. CASE Fail(c)
      BY <1>0, <3>2, FailType
    <3>3. CASE /\ \E found \in {Reconciled(op[c]), "unknown"} : pc' = [pc EXCEPT ![c] = found]
               /\ UNCHANGED local
      BY <1>0, <3>1, <3>3 DEF LocalsOK
    <3> QED BY <2>3, <3>2, <3>3 DEF Resume
  <2>4. ASSUME Status(base[c], op[c]) \notin {"none", "dispatching"},
               Replay(c, Status(base[c], op[c]))
        PROVE  LocalsOK'
    <3>1. Status(base[c], op[c]) \in Outcome
      BY <2>4, Statuses DEF Outcome
    <3> QED BY <1>0, <2>4, <3>1, ReplayType
  <2>5. LocalsOK'
    BY <1>0, <1>3, <2>2, <2>3, <2>4, FailType DEF Refresh
  <2> QED BY <2>1, <2>5
<1>4. CASE Cas(c)
  <2>1. [kind |-> goal[c], of |-> op[c]] \in Event
    BY <1>0, <1>a DEF Event
  <2>2. Proposal(c) \in Seq(Event)
    BY <1>a, <2>1 DEF Proposal
  <2>3. {"won", "stale", "lost"} \subseteq Place
    BY DEF Place, Busy
  <2>4. SharedOK'
    BY <1>0, <1>4, <2>2 DEF Cas, Fault, SharedOK
  <2>a. /\ \E q \in {"won", "stale", "lost"} : pc' = [pc EXCEPT ![c] = q]
        /\ \/ base' = [base EXCEPT ![c] = Proposal(c)]
           \/ base' = [base EXCEPT ![c] = log] \/ base' = base
        /\ expect' = expect /\ goal' = goal /\ tries' = tries /\ out' = out
    BY <1>4 DEF Cas
  <2>5. base' \in [Call -> Seq(Event)]
    BY <1>0, <1>a, <2>2, <2>a DEF LocalsOK
  <2>6. pc' \in [Call -> Place] /\ \A d \in Call : pc'[d] = "staging" => pc[d] = "staging"
    BY <1>0, <2>3, <2>a DEF LocalsOK
  <2>7. LocalsOK'
    BY <1>0, <2>5, <2>6, <2>a DEF LocalsOK, Bound
  <2> QED BY <2>4, <2>7
<1>5. CASE Dispatch(c)
  <2>1. "dispatched" \in Place
    BY DEF Place, Busy
  <2>2. /\ HostCall(c, "dispatched") /\ cur' \in [Host -> Seq(Event)]
        /\ UNCHANGED <<actionOf, targetOf, op, at, log, proven, custody, leader>>
        /\ UNCHANGED <<base, expect, goal, tries, out, faults>>
    BY <1>5, <1>b DEF Dispatch
  <2>3. SharedOK'
    BY <1>0, <2>1, <2>2, HostType DEF SharedOK, HostsOf
  <2>4. /\ pc' \in [Call -> Place]
        /\ \E q \in Place : pc' = [pc EXCEPT ![c] = q] /\ q \in {"dispatched", "refused"}
    BY <1>0, <2>1, <2>2, HostType
  <2>5. \A d \in Call : pc'[d] = "staging" => pc[d] = "staging"
    BY <1>0, <2>4 DEF LocalsOK
  <2>6. LocalsOK'
    BY <1>0, <2>2, <2>4, <2>5 DEF LocalsOK, Bound
  <2> QED BY <2>3, <2>6
<1>6. CASE IntentStale(c)
  <2>1. SharedOK'
    BY <1>0, <1>6, <1>b DEF IntentStale, SharedOK
  <2>2. LocalsOK'
    BY <1>0, <1>6, <1>a, ReplayType, AttemptType, FailType DEF IntentStale, Outcome
  <2> QED BY <2>1, <2>2
<1>7. CASE IntentLost(c)
  BY <1>0, <1>7, FailType DEF IntentLost, SharedOK
<1>8. CASE Proved(c)
  <2>1. SharedOK'
    BY <1>0, <1>8 DEF Proved, SharedOK
  <2>2. LocalsOK'
    BY <1>0, <1>8, <1>a, AttemptType DEF Proved
  <2> QED BY <2>1, <2>2
<1>9. CASE Doubt(c)
  BY <1>0, <1>9, <1>a, AttemptType DEF Doubt, SharedOK
<1>10. CASE Redispatch(c)
  <2>1. "redispatched" \in Place
    BY DEF Place, Busy
  <2>2. SharedOK'
    BY <1>0, <1>10, <2>1, HostType DEF Redispatch, SharedOK
  <2>3. CASE HostCall(c, "redispatched") /\ UNCHANGED local
    <3>1. /\ pc' \in [Call -> Place]
          /\ \E q \in Place : pc' = [pc EXCEPT ![c] = q] /\ q \in {"redispatched", "refused"}
      BY <1>0, <2>1, <2>3, HostType
    <3>2. \A d \in Call : pc'[d] = "staging" => pc[d] = "staging"
      BY <1>0, <3>1 DEF LocalsOK
    <3> QED BY <1>0, <2>2, <2>3, <3>1, <3>2 DEF LocalsOK, Bound
  <2>4. CASE Fail(c)
    BY <1>0, <2>2, <2>4, FailType
  <2> QED BY <1>10, <2>3, <2>4 DEF Redispatch
<1>11. CASE Stage(c)
  <2>1. goal[c] \in {"succeeded", "uncertain"}
    BY <1>0, <1>11 DEF Stage, LocalsOK, Kind
  <2>2. SharedOK'
    BY <1>0, <1>11, <2>1 DEF Stage, Fault, SharedOK
  <2>3. LocalsOK'
    BY <1>0, <1>11, GoType, FailType DEF Stage
  <2> QED BY <2>2, <2>3
<1>12. CASE ResultWon(c)
  <2>1. SharedOK'
    BY <1>0, <1>12, <1>b DEF ResultWon, SharedOK
  <2>2. "succeeded" \in Outcome /\ "failed" \in Outcome
    BY DEF Outcome
  <2>3. LocalsOK'
    BY <1>0, <1>12, <2>2, AnswerType DEF ResultWon
  <2> QED BY <2>1, <2>3
<1>13. CASE ResultStale(c) \/ ResultLost(c)
  <2>1. SharedOK'
    BY <1>0, <1>13, <1>b DEF ResultStale, ResultLost, SharedOK
  <2>2. goal[c] # "intent" => goal[c] \in {"succeeded", "uncertain"}
    BY <1>a DEF Kind
  <2>3. tries[c] + 1 \in Nat
    BY <1>a
  <2>4. LocalsOK'
    BY <1>0, <1>13, <1>a, <2>2, <2>3, AttemptType DEF ResultStale, ResultLost
  <2> QED BY <2>1, <2>4
<1> QED BY <1>1, <1>2, <1>3, <1>4, <1>5, <1>6, <1>7, <1>8, <1>9, <1>10, <1>11,
     <1>12, <1>13 DEF Step

-----------------------------------------------------------------------------
(* What a step does to its call, to its runtime and to the stores, one     *)
(* operator per kind of step.                                              *)

Apart(c) ==
  \A d \in Call \ {c} : /\ pc'[d] = pc[d] /\ goal'[d] = goal[d] /\ out'[d] = out[d]
                        /\ base'[d] = base[d] /\ expect'[d] = expect[d]

Frame(c) ==
  /\ UNCHANGED choice
  /\ Apart(c)
  /\ \A h \in Host \ {at[c]} : cur'[h] = cur[h] /\ proven'[h] = proven[h]
  /\ custody \subseteq custody'

Adopts(c) == cur'[at[c]] = base[c] /\ (pc[c] = "reading" => Extends(base[c], expect[c]))

Reads(c) ==
  /\ pc[c] = "idle" /\ pc'[c] = "reading"
  /\ Overlap \/ \A d \in Call : Active(d) => at[d] # at[c]
  /\ base'[c] = log /\ expect'[c] = cur[at[c]]
  /\ goal'[c] = goal[c] /\ out'[c] = out[c]
  /\ UNCHANGED <<log, cur, proven, custody, target, receipts, effected>>

Waits(c) ==
  /\ pc[c] = "idle" /\ pc'[c] = "joined"
  /\ base'[c] = base[c] /\ goal'[c] = goal[c] /\ out'[c] = out[c]
  /\ UNCHANGED <<log, cur, proven, custody, target, receipts, effected>>

Answered(c) ==
  out'[c] \in {"succeeded", "uncertain"} =>
    \/ Status(cur[at[c]], op[c]) = out'[c]
    \/ Status(base[c], op[c]) = out'[c] /\ Active(c)
    \/ pc[c] = "won" /\ goal[c] = "succeeded" /\ out'[c] = "succeeded"

Ends(c) ==
  /\ pc[c] \in Busy \union {"joined"} /\ pc'[c] = "done"
  /\ goal'[c] = "intent" /\ base'[c] = <<>>
  /\ Answered(c)
  /\ cur' = cur \/ (pc[c] \in {"reading", "won", "stale"} /\ Adopts(c))
  /\ \/ proven' = proven
     \/ /\ pc[c] \in {"dispatched", "applied"}
        /\ proven'[at[c]] = proven[at[c]] \union {op[c]}
  /\ UNCHANGED <<log, custody, target, receipts, effected>>

Intends(c) ==
  /\ pc[c] = "reading" /\ pc'[c] = "casing"
  /\ Adopts(c)
  /\ Status(base[c], op[c]) = "none" /\ Free(base[c], op[c]) /\ Authorised(base[c], op[c])
  /\ goal'[c] = "intent" /\ expect'[c] = base[c]
  /\ base'[c] = base[c] /\ out'[c] = out[c]
  /\ UNCHANGED <<log, proven, custody, target, receipts, effected>>

Resumes(c) ==
  /\ pc[c] = "reading" /\ pc'[c] \in {"applied", "absent", "unknown"}
  /\ Adopts(c)
  /\ Status(base[c], op[c]) = "dispatching"
  /\ op[c] \in Execution /\ op[c] \notin proven[at[c]]
  /\ pc'[c] = "applied" => op[c] \in receipts
  /\ goal'[c] = goal[c] /\ base'[c] = base[c] /\ out'[c] = out[c]
  /\ UNCHANGED <<log, proven, custody, target, receipts, effected>>

Attempts(c) ==
  /\ pc'[c] = "staging" /\ base'[c] = cur'[at[c]]
  /\ Status(base'[c], op[c]) = "dispatching"
  /\ out'[c] = out[c]
  /\ \/ /\ pc[c] = "stale" /\ goal[c] = "intent" /\ goal'[c] = "uncertain"
        /\ Adopts(c) /\ UNCHANGED proven
     \/ /\ pc[c] = "stale" /\ goal[c] # "intent" /\ goal'[c] = goal[c]
        /\ Adopts(c) /\ UNCHANGED proven
     \/ /\ pc[c] = "lost" /\ goal[c] # "intent" /\ goal'[c] = goal[c]
        /\ UNCHANGED <<cur, proven>>
     \/ /\ pc[c] \in {"dispatched", "applied", "redispatched"} /\ goal'[c] = "succeeded"
        /\ \/ proven' = proven
           \/ /\ pc[c] # "redispatched"
              /\ proven'[at[c]] = proven[at[c]] \union {op[c]}
        /\ UNCHANGED cur
     \/ /\ pc[c] \in {"refused", "unknown"} /\ goal'[c] = "uncertain"
        /\ UNCHANGED <<cur, proven>>
  /\ UNCHANGED <<log, custody, target, receipts, effected>>

GoesOn(c) ==
  /\ pc[c] = "staging" /\ pc'[c] = "casing"
  /\ expect'[c] = cur[at[c]] /\ base'[c] \in {base[c], cur[at[c]]}
  /\ goal'[c] = goal[c] /\ out'[c] = out[c]
  /\ \/ <<op[c], goal[c]>> \in custody'
     \/ goal[c] = "uncertain" /\ op[c] \in Execution
  /\ UNCHANGED <<log, cur, proven, target, receipts, effected>>

Swaps(c) ==
  /\ pc[c] = "casing" /\ pc'[c] \in {"won", "stale", "lost"}
  /\ \/ /\ log = expect[c] /\ log' = Proposal(c)
        /\ pc'[c] = "won" /\ base'[c] = log'
     \/ /\ log = expect[c] /\ log' = Proposal(c)
        /\ pc'[c] = "lost" /\ base'[c] = base[c]
     \/ /\ log' = log
        /\ pc'[c] = "stale" /\ base'[c] = log
     \/ /\ log' = log
        /\ pc'[c] = "lost" /\ base'[c] = base[c]
  /\ goal'[c] = goal[c] /\ out'[c] = out[c]
  /\ UNCHANGED <<cur, proven, custody, target, receipts, effected>>

Hosts(c) ==
  /\ \/ pc[c] = "won" /\ goal[c] = "intent" /\ Adopts(c) /\ pc'[c] \in {"dispatched", "refused"}
     \/ pc[c] = "absent" /\ cur' = cur /\ pc'[c] \in {"redispatched", "refused"}
  /\ base'[c] = base[c] /\ goal'[c] = goal[c] /\ out'[c] = out[c]
  /\ \/ /\ Applies(op[c])
        /\ target' = [target EXCEPT ![TargetOf(op[c])] = op[c]]
        /\ receipts' = receipts \union {op[c]} /\ effected' = effected \union {op[c]}
        /\ pc'[c] # "refused"
     \/ /\ pc'[c] # "refused" => Repeats(op[c])
        /\ UNCHANGED <<target, receipts, effected>>
  /\ UNCHANGED <<log, proven, custody>>

Move(c) ==
  /\ Frame(c)
  /\ \/ Reads(c) \/ Waits(c) \/ Ends(c) \/ Intends(c) \/ Resumes(c)
     \/ Attempts(c) \/ GoesOn(c) \/ Swaps(c) \/ Hosts(c)

LEMMA AnswerMove ==
  ASSUME LocalsOK, NEW c \in Call, NEW a, Answer(c, a)
  PROVE  /\ Apart(c)
         /\ pc'[c] = "done" /\ goal'[c] = "intent" /\ base'[c] = <<>> /\ out'[c] = a
BY DEF Answer, LocalsOK, Apart

LEMMA FailMove ==
  ASSUME LocalsOK, NEW c \in Call, Fail(c)
  PROVE  /\ Apart(c)
         /\ pc'[c] = "done" /\ goal'[c] = "intent" /\ base'[c] = <<>> /\ out'[c] = "failed"
BY AnswerMove DEF Fail

LEMMA ReplayMove ==
  ASSUME LocalsOK, NEW c \in Call, NEW a, Replay(c, a)
  PROVE  /\ Apart(c)
         /\ pc'[c] = "done" /\ goal'[c] = "intent" /\ base'[c] = <<>>
         /\ out'[c] \in {a, "failed"}
<1> DEFINE b == IF op[c] \in Rollback /\ <<op[c], a>> \notin custody THEN "failed" ELSE a
<1>1. Answer(c, b)
  BY DEF Replay
<1> QED BY <1>1, AnswerMove

LEMMA AttemptMove ==
  ASSUME LocalsOK, NEW c \in Call, NEW g, NEW n, NEW s, Attempt(c, g, n, s)
  PROVE  /\ Apart(c)
         /\ \/ /\ pc'[c] = "done" /\ goal'[c] = "intent" /\ base'[c] = <<>>
               /\ out'[c] = "failed" \/ (out'[c] = "succeeded" /\ Status(s, op[c]) = "succeeded")
            \/ /\ pc'[c] = "staging" /\ goal'[c] = g /\ base'[c] = s /\ out'[c] = out[c]
               /\ Status(s, op[c]) = "dispatching"
<1> DEFINE verdict == Verdict(c, g, n, Status(s, op[c]))
<1>1. CASE verdict = "record"
  <2>1. Status(s, op[c]) = "dispatching"
    BY <1>1 DEF Verdict
  <2>2. /\ pc' = [pc EXCEPT ![c] = "staging"] /\ goal' = [goal EXCEPT ![c] = g]
        /\ base' = [base EXCEPT ![c] = s] /\ expect' = expect /\ out' = out
    BY <1>1 DEF Attempt
  <2> QED BY <2>1, <2>2 DEF LocalsOK, Apart
<1>2. CASE verdict # "record"
  <2>1. Answer(c, verdict)
    BY <1>2 DEF Attempt
  <2>2. verdict = "failed" \/ (verdict = "succeeded" /\ Status(s, op[c]) = "succeeded")
    BY <1>2 DEF Verdict
  <2> QED BY <2>1, <2>2, AnswerMove
<1> QED BY <1>1, <1>2

LEMMA AdoptMove ==
  ASSUME SharedOK, NEW c \in Call, Adopt(c)
  PROVE  cur'[at[c]] = base[c] /\ \A h \in Host \ {at[c]} : cur'[h] = cur[h]
BY DEF Adopt, SharedOK

LEMMA StepMove ==
  ASSUME SharedOK, LocalsOK, NEW c \in Call, Step(c) PROVE Move(c)
<1> USE DEF choice, world, local
<1>0. /\ pc \in [Call -> Place] /\ at[c] \in Host /\ op[c] \in Operation
      /\ proven \in [Host -> SUBSET Operation] /\ goal \in [Call -> Kind]
  BY DEF SharedOK, LocalsOK
<1>1. CASE Begin(c)
  <2> DEFINE mates == {d \in Call : Active(d) /\ at[d] = at[c]}
             leaders == {d \in mates : op[d] = op[c]}
  <2>1. /\ pc[c] = "idle" /\ (Overlap \/ mates = leaders)
        /\ UNCHANGED <<choice, log, cur, proven, custody, world, goal, out>>
    BY <1>1 DEF Begin
  <2>2. CASE leaders = {}
    <3>1. /\ pc' = [pc EXCEPT ![c] = "reading"] /\ base' = [base EXCEPT ![c] = log]
          /\ expect' = [expect EXCEPT ![c] = cur[at[c]]]
      BY <1>1, <2>2 DEF Begin
    <3>2. Overlap \/ \A d \in Call : Active(d) => at[d] # at[c]
      BY <2>1, <2>2
    <3>3. Reads(c)
      BY <2>1, <3>1, <3>2 DEF Reads, LocalsOK
    <3>4. Frame(c)
      BY <2>1, <3>1 DEF Frame, Apart, LocalsOK
    <3> QED BY <3>3, <3>4 DEF Move
  <2>3. CASE leaders # {}
    <3>1. pc' = [pc EXCEPT ![c] = "joined"] /\ base' = base /\ expect' = expect
      BY <1>1, <2>3 DEF Begin
    <3>2. Waits(c)
      BY <2>1, <3>1 DEF Waits, LocalsOK
    <3>3. Frame(c)
      BY <2>1, <3>1 DEF Frame, Apart, LocalsOK
    <3> QED BY <3>2, <3>3 DEF Move
  <2> QED BY <2>2, <2>3
<1>2. CASE Joined(c)
  <2> DEFINE status == Status(cur[at[c]], op[c])
  <2>1. /\ pc[c] = "joined" /\ (Replay(c, status) \/ Fail(c))
        /\ UNCHANGED <<choice, log, cur, proven, custody, world>>
    BY <1>2 DEF Joined
  <2>2. /\ Apart(c) /\ pc'[c] = "done" /\ goal'[c] = "intent" /\ base'[c] = <<>>
        /\ out'[c] \in {status, "failed"}
    BY <2>1, ReplayMove, FailMove
  <2>3. Ends(c)
    BY <2>1, <2>2 DEF Ends, Answered
  <2> QED BY <2>1, <2>2, <2>3 DEF Move, Frame
<1>3. CASE Refresh(c)
  <2> DEFINE status == Status(base[c], op[c])
  <2>1. pc[c] = "reading" /\ UNCHANGED <<choice, log, proven, custody, world>>
    BY <1>3 DEF Refresh
  <2>2. CASE ~Extends(base[c], expect[c])
    <3>1. Fail(c) /\ cur' = cur
      BY <1>3, <2>2 DEF Refresh
    <3>2. Ends(c) /\ Apart(c)
      BY <2>1, <3>1, FailMove DEF Ends, Answered, Busy
    <3> QED BY <2>1, <3>1, <3>2 DEF Move, Frame
  <2>3. CASE Extends(base[c], expect[c])
    <3>1. /\ Adopt(c)
          /\ \/ status = "none" /\ Preflight(c)
             \/ status = "dispatching" /\ Resume(c)
             \/ Replay(c, status)
      BY <1>3, <2>3 DEF Refresh
    <3>2. Adopts(c) /\ UNCHANGED choice /\ custody \subseteq custody'
          /\ \A h \in Host \ {at[c]} : cur'[h] = cur[h] /\ proven'[h] = proven[h]
      BY <2>1, <2>3, <3>1, AdoptMove DEF Adopts
    <3>3. CASE Replay(c, status) \/ Fail(c)
      <4>1. /\ Apart(c) /\ pc'[c] = "done" /\ goal'[c] = "intent" /\ base'[c] = <<>>
            /\ out'[c] \in {status, "failed"}
        BY <3>3, ReplayMove, FailMove
      <4>2. Ends(c)
        BY <2>1, <3>2, <4>1 DEF Ends, Answered, Busy, Active
      <4> QED BY <3>2, <4>1, <4>2 DEF Move, Frame
    <3>4. CASE status = "none" /\ Preflight(c) /\ ~Fail(c)
      <4>1. /\ Free(base[c], op[c]) /\ Authorised(base[c], op[c])
            /\ pc' = [pc EXCEPT ![c] = "casing"] /\ goal' = [goal EXCEPT ![c] = "intent"]
            /\ expect' = [expect EXCEPT ![c] = base[c]]
            /\ base' = base /\ out' = out
        BY <3>4 DEF Preflight
      <4>2. Intends(c)
        BY <2>1, <3>2, <3>4, <4>1 DEF Intends, LocalsOK
      <4>3. Apart(c)
        BY <4>1 DEF Apart, LocalsOK
      <4> QED BY <3>2, <4>2, <4>3 DEF Move, Frame
    <3>5. CASE status = "dispatching" /\ Resume(c) /\ ~Fail(c)
      <4>1. /\ ~NotResumed(op[c], at[c])
            /\ \E found \in {Reconciled(op[c]), "unknown"} : pc' = [pc EXCEPT ![c] = found]
            /\ base' = base /\ expect' = expect /\ goal' = goal /\ out' = out
        BY <3>5 DEF Resume
      <4>2. op[c] \in Execution /\ op[c] \notin proven[at[c]]
        BY <1>0, <4>1 DEF NotResumed, Operation
      <4>3. /\ pc'[c] \in {"applied", "absent", "unknown"} /\ Apart(c)
            /\ pc'[c] = "applied" => op[c] \in receipts
        BY <1>0, <4>1 DEF Reconciled, Apart
      <4>4. Resumes(c)
        BY <2>1, <3>2, <3>5, <4>1, <4>2, <4>3 DEF Resumes
      <4> QED BY <3>2, <4>3, <4>4 DEF Move, Frame
    <3> QED BY <3>1, <3>3, <3>4, <3>5
  <2> QED BY <2>2, <2>3
<1>4. CASE Cas(c)
  <2>1. /\ pc[c] = "casing"
        /\ UNCHANGED <<choice, cur, proven, custody, world, expect, goal, out>>
    BY <1>4 DEF Cas
  <2>2. \/ /\ log = expect[c] /\ log' = Proposal(c)
           /\ pc' = [pc EXCEPT ![c] = "won"] /\ base' = [base EXCEPT ![c] = log']
        \/ /\ log = expect[c] /\ log' = Proposal(c)
           /\ pc' = [pc EXCEPT ![c] = "lost"] /\ base' = base
        \/ /\ log' = log
           /\ pc' = [pc EXCEPT ![c] = "stale"] /\ base' = [base EXCEPT ![c] = log]
        \/ /\ log' = log
           /\ pc' = [pc EXCEPT ![c] = "lost"] /\ base' = base
    BY <1>4 DEF Cas
  <2>3. Swaps(c)
    BY <2>1, <2>2 DEF Swaps, LocalsOK
  <2>4. Frame(c)
    BY <2>1, <2>2 DEF Frame, Apart, LocalsOK
  <2> QED BY <2>3, <2>4 DEF Move
<1>5. ASSUME NEW p \in {"dispatched", "redispatched"}, HostCall(c, p), UNCHANGED local
      PROVE  /\ Apart(c) /\ pc'[c] \in {p, "refused"}
             /\ \/ /\ Applies(op[c])
                   /\ target' = [target EXCEPT ![TargetOf(op[c])] = op[c]]
                   /\ receipts' = receipts \union {op[c]}
                   /\ effected' = effected \union {op[c]}
                   /\ pc'[c] # "refused"
                \/ /\ pc'[c] # "refused" => Repeats(op[c])
                   /\ UNCHANGED <<target, receipts, effected>>
  BY <1>0, <1>5 DEF HostCall, Apart
<1>6. CASE Dispatch(c)
  <2>1. /\ pc[c] = "won" /\ goal[c] = "intent" /\ Adopt(c) /\ HostCall(c, "dispatched")
        /\ UNCHANGED <<choice, log, proven, custody, local>>
    BY <1>6 DEF Dispatch
  <2>2. Adopts(c) /\ \A h \in Host \ {at[c]} : cur'[h] = cur[h]
    BY <2>1, AdoptMove DEF Adopts
  <2>3. Hosts(c) /\ Apart(c)
    BY <2>1, <2>2, <1>5 DEF Hosts
  <2> QED BY <2>1, <2>2, <2>3 DEF Move, Frame
<1>7. CASE Redispatch(c)
  <2>1. pc[c] = "absent" /\ UNCHANGED <<choice, log, cur, proven, custody>>
    BY <1>7 DEF Redispatch
  <2>2. CASE HostCall(c, "redispatched") /\ UNCHANGED local
    <3>1. Hosts(c) /\ Apart(c)
      BY <2>1, <2>2, <1>5 DEF Hosts
    <3> QED BY <2>1, <3>1 DEF Move, Frame
  <2>3. CASE Fail(c) /\ UNCHANGED world
    <3>1. Ends(c) /\ Apart(c)
      BY <2>1, <2>3, FailMove DEF Ends, Answered, Busy
    <3> QED BY <2>1, <3>1 DEF Move, Frame
  <2> QED BY <1>7, <2>2, <2>3 DEF Redispatch
<1>8. CASE IntentStale(c)
  <2> DEFINE status == Status(base[c], op[c])
  <2>1. /\ pc[c] = "stale" /\ goal[c] = "intent" /\ Adopt(c)
        /\ UNCHANGED <<choice, log, proven, custody, world>>
        /\ Replay(c, status) \/ Fail(c) \/ Attempt(c, "uncertain", 0, base[c])
    BY <1>8 DEF IntentStale
  <2>2. Adopts(c) /\ \A h \in Host \ {at[c]} : cur'[h] = cur[h]
    BY <2>1, AdoptMove DEF Adopts
  <2>3. CASE Replay(c, status) \/ Fail(c)
    <3>1. /\ Apart(c) /\ pc'[c] = "done" /\ goal'[c] = "intent" /\ base'[c] = <<>>
          /\ out'[c] \in {status, "failed"}
      BY <2>3, ReplayMove, FailMove
    <3>2. Ends(c)
      BY <2>1, <2>2, <3>1 DEF Ends, Answered, Busy, Active
    <3> QED BY <2>1, <2>2, <3>1, <3>2 DEF Move, Frame
  <2>4. CASE Attempt(c, "uncertain", 0, base[c])
    <3>1. Apart(c) /\ (Ends(c) \/ Attempts(c))
      <4>1. cur'[at[c]] = base[c] /\ pc[c] \in Busy /\ "stale" \in {"reading", "won", "stale"}
        BY <2>1, <2>2 DEF Adopts, Busy
      <4> QED BY <2>1, <2>2, <2>4, <4>1, AttemptMove DEF Ends, Attempts, Answered, Active
    <3> QED BY <2>1, <2>2, <3>1 DEF Move, Frame
  <2> QED BY <2>1, <2>3, <2>4
<1>9. CASE IntentLost(c)
  <2>1. /\ pc[c] = "lost" /\ Fail(c)
        /\ UNCHANGED <<choice, log, cur, proven, custody, world>>
    BY <1>9 DEF IntentLost
  <2>2. Ends(c) /\ Apart(c)
    BY <2>1, FailMove DEF Ends, Answered, Busy
  <2> QED BY <2>1, <2>2 DEF Move, Frame
<1>10. CASE Proved(c)
  <2>1. /\ pc[c] \in {"dispatched", "applied", "redispatched"}
        /\ Attempt(c, "succeeded", 0, cur[at[c]])
        /\ UNCHANGED <<choice, log, cur, custody, world>>
    BY <1>10 DEF Proved
  <2>2. /\ \/ proven' = proven
           \/ /\ pc[c] # "redispatched"
              /\ proven'[at[c]] = proven[at[c]] \union {op[c]}
        /\ \A h \in Host \ {at[c]} : proven'[h] = proven[h]
    BY <1>0, <1>10 DEF Proved
  <2>3. Apart(c) /\ (Ends(c) \/ Attempts(c))
    BY <2>1, <2>2, AttemptMove DEF Ends, Attempts, Answered, Busy
  <2> QED BY <2>1, <2>2, <2>3 DEF Move, Frame
<1>11. CASE Doubt(c)
  <2>1. /\ pc[c] \in {"refused", "unknown"} /\ Attempt(c, "uncertain", 0, cur[at[c]])
        /\ UNCHANGED <<choice, log, cur, proven, custody, world>>
    BY <1>11 DEF Doubt
  <2>2. Apart(c) /\ (Ends(c) \/ Attempts(c))
    BY <2>1, AttemptMove DEF Ends, Attempts, Answered, Busy
  <2> QED BY <2>1, <2>2 DEF Move, Frame
<1>12. CASE Stage(c)
  <2>1. /\ pc[c] = "staging" /\ custody \subseteq custody'
        /\ UNCHANGED <<choice, log, cur, proven, world>>
    BY <1>12 DEF Stage
  <2>2. CASE GoOn(c)
    <3>1. /\ pc' = [pc EXCEPT ![c] = "casing"] /\ expect' = [expect EXCEPT ![c] = cur[at[c]]]
          /\ base' = [base EXCEPT ![c] = cur[at[c]]] \/ base' = base
          /\ goal' = goal /\ out' = out
      BY <2>2 DEF GoOn, Expected
    <3>2. \/ <<op[c], goal[c]>> \in custody'
          \/ goal[c] = "uncertain" /\ op[c] \in Execution
      <4>1. CASE custody' = custody \union {<<op[c], goal[c]>>}
        BY <4>1
      <4>2. CASE UnstagedSuffices(c)
        BY <4>2 DEF UnstagedSuffices
      <4>3. CASE Fail(c)
        BY <3>1, <4>3, <1>0, FailMove
      <4> QED BY <1>12, <4>1, <4>2, <4>3 DEF Stage
    <3>3. GoesOn(c)
      BY <2>1, <3>1, <3>2 DEF GoesOn, LocalsOK
    <3>4. Apart(c)
      BY <3>1 DEF Apart, LocalsOK
    <3> QED BY <2>1, <3>3, <3>4 DEF Move, Frame
  <2>3. CASE Fail(c) /\ custody' = custody
    <3>1. Ends(c) /\ Apart(c)
      BY <2>1, <2>3, FailMove DEF Ends, Answered, Busy
    <3> QED BY <2>1, <3>1 DEF Move, Frame
  <2> QED BY <1>12, <2>2, <2>3 DEF Stage
<1>13. CASE ResultWon(c)
  <2>1. /\ pc[c] = "won" /\ goal[c] # "intent" /\ Adopt(c)
        /\ Answer(c, IF goal[c] = "succeeded" THEN "succeeded" ELSE "failed")
        /\ UNCHANGED <<choice, log, proven, custody, world>>
    BY <1>13 DEF ResultWon
  <2>2. Adopts(c) /\ \A h \in Host \ {at[c]} : cur'[h] = cur[h]
    BY <2>1, AdoptMove DEF Adopts
  <2>3. Ends(c) /\ Apart(c)
    BY <2>1, <2>2, AnswerMove DEF Ends, Answered, Busy
  <2> QED BY <2>1, <2>2, <2>3 DEF Move, Frame
<1>14. CASE ResultStale(c)
  <2>1. /\ pc[c] = "stale" /\ goal[c] # "intent" /\ Adopt(c)
        /\ Attempt(c, goal[c], tries[c] + 1, base[c])
        /\ UNCHANGED <<choice, log, proven, custody, world>>
    BY <1>14 DEF ResultStale
  <2>2. Adopts(c) /\ \A h \in Host \ {at[c]} : cur'[h] = cur[h]
    BY <2>1, AdoptMove DEF Adopts
  <2>3. Apart(c) /\ (Ends(c) \/ Attempts(c))
    <3>1. cur'[at[c]] = base[c] /\ pc[c] \in Busy /\ "stale" \in {"reading", "won", "stale"}
      BY <2>1, <2>2 DEF Adopts, Busy
    <3> QED BY <2>1, <2>2, <3>1, AttemptMove DEF Ends, Attempts, Answered, Active
  <2> QED BY <2>1, <2>2, <2>3 DEF Move, Frame
<1>15. CASE ResultLost(c)
  <2>1. /\ pc[c] = "lost" /\ goal[c] # "intent"
        /\ Attempt(c, goal[c], tries[c] + 1, cur[at[c]])
        /\ UNCHANGED <<choice, log, cur, proven, custody, world>>
    BY <1>15 DEF ResultLost
  <2>2. Apart(c) /\ (Ends(c) \/ Attempts(c))
    BY <2>1, AttemptMove DEF Ends, Attempts, Answered, Busy
  <2> QED BY <2>1, <2>2 DEF Move, Frame
<1> QED BY <1>1, <1>2, <1>3, <1>4, <1>6, <1>7, <1>8, <1>9, <1>10, <1>11, <1>12,
     <1>13, <1>14, <1>15 DEF Step

-----------------------------------------------------------------------------
(* A step of the system: a move of a call, an event of another component,  *)
(* a restart, or none.                                                     *)

Records(k, x) ==
  /\ k \in {"planned", "withdrawn"} /\ [kind |-> k, of |-> x] \in Event
  /\ log' = Append(log, [kind |-> k, of |-> x])
  /\ UNCHANGED <<choice, cur, proven, custody, world, pc, leader, local, faults>>

Tick ==
  \/ \E c \in Call : Move(c)
  \/ \E k \in {"planned", "withdrawn"} : \E x : Records(k, x)
  \/ Restart
  \/ UNCHANGED vars

LEMMA NextTick ==
  ASSUME SharedOK, LocalsOK, [Next]_vars
  PROVE  SharedOK' /\ LocalsOK' /\ Tick
<1>1. ASSUME NEW c \in Call, Step(c) PROVE SharedOK' /\ LocalsOK' /\ Tick
  BY <1>1, StepType, StepMove DEF Tick
<1>2. ASSUME NEW k \in {"planned", "withdrawn"}, NEW x, Records(k, x)
      PROVE  SharedOK' /\ LocalsOK' /\ Tick
  <2>1. log' \in Seq(Event)
    BY <1>2 DEF Records, SharedOK
  <2> QED BY <1>2, <2>1 DEF Records, SharedOK, LocalsOK, Tick, choice, world, local, HostsOf, Bound
<1>3. ASSUME NEW a \in Action, Withdraw(a) PROVE SharedOK' /\ LocalsOK' /\ Tick
  <2>1. [kind |-> "withdrawn", of |-> a] \in Event
    BY DEF Event
  <2>2. Records("withdrawn", a)
    BY <1>3, <2>1 DEF Withdraw, Record, Records
  <2> QED BY <1>2, <2>2
<1>4. ASSUME NEW r \in Rollback, PlanRollback(r) PROVE SharedOK' /\ LocalsOK' /\ Tick
  <2>1. [kind |-> "planned", of |-> planOf[r]] \in Event
    BY DEF Event
  <2>2. Records("planned", planOf[r])
    BY <1>4, <2>1 DEF PlanRollback, Record, Records
  <2> QED BY <1>2, <2>2
<1>5. ASSUME Restart PROVE SharedOK' /\ LocalsOK' /\ Tick
  <2>1. /\ \A q : [c \in Call |-> IF pc[c] = "idle" THEN "idle" ELSE "done"][q]
                    = [c \in Call |-> IF pc[c] = "idle" THEN "idle" ELSE "done"][q]
        /\ <<>> \in Seq(Event) /\ "intent" \in Kind /\ {"idle", "done"} \subseteq Place
    BY DEF Kind, Place
  <2>2. SharedOK'
    <3>1. /\ UNCHANGED <<actionOf, targetOf, op, at, log, custody, effected>>
          /\ cur' = [h \in Host |-> log] /\ proven' = [h \in Host |-> {}]
          /\ target' = [t \in Target |-> Initial] /\ receipts' = {}
          /\ leader' = [c \in Call |-> c] /\ faults' \in 0 .. MaxFault
      BY <1>5 DEF Restart, Fault, choice, SharedOK
    <3> QED BY <3>1 DEF SharedOK, HostsOf
  <2>3. pc' \in [Call -> Place] /\ \A c \in Call : pc'[c] # "staging"
    BY <1>5, <2>1 DEF Restart
  <2>4. out' \in [Call -> Outcome]
    BY <1>5 DEF Restart, LocalsOK, Outcome
  <2>5. LocalsOK'
    BY <1>5, <2>1, <2>3, <2>4 DEF Restart, LocalsOK
  <2> QED BY <1>5, <2>2, <2>5 DEF Tick
<1>6. CASE UNCHANGED vars
  BY <1>6 DEF vars, choice, world, local, SharedOK, LocalsOK, Tick, HostsOf, Bound
<1> QED BY <1>1, <1>3, <1>4, <1>5, <1>6 DEF Next

LEMMA InitType == Init => SharedOK /\ LocalsOK
<1> SUFFICES ASSUME Init PROVE SharedOK /\ LocalsOK
  OBVIOUS
<1>1. <<>> \in Seq(Event) /\ "intent" \in Kind /\ "idle" \in Place /\ "none" \in Outcome
  BY DEF Kind, Place, Outcome
<1>2. SharedOK
  BY <1>1 DEF Init, SharedOK
<1>3. LocalsOK
  BY <1>1 DEF Init, LocalsOK
<1> QED BY <1>2, <1>3

LEMMA Base == Spec => [](SharedOK /\ LocalsOK)
<1>1. SharedOK /\ LocalsOK /\ [Next]_vars => (SharedOK /\ LocalsOK)'
  BY NextTick
<1> QED BY InitType, <1>1, PTL DEF Spec

(* The type invariant, for every number of calls, runtimes and operations, *)
(* with operations in any one runtime overlapping or not.                  *)
THEOREM TypeCorrect == Spec => []TypeOK
BY Base, TypeParts, PTL

-----------------------------------------------------------------------------
(* Results and the bytes behind them.                                      *)

Custodied(l) ==
  \A o \in Operation, k \in {"succeeded", "uncertain"} :
    Has(l, k, o) => <<o, k>> \in custody \/ (k = "uncertain" /\ o \in Execution)

CustodyInv ==
  /\ Custodied(log)
  /\ \A h \in Host : Custodied(cur[h])
  /\ \A c \in Call : Custodied(base[c])
  /\ \A c \in Call : pc[c] = "casing" /\ goal[c] # "intent" =>
       <<op[c], goal[c]>> \in custody \/ (goal[c] = "uncertain" /\ op[c] \in Execution)

LEMMA CustodyMove ==
  ASSUME SharedOK, LocalsOK, CustodyInv, NEW c \in Call, Move(c)
  PROVE  CustodyInv'
<1>0. /\ op' = op /\ at' = at /\ custody \subseteq custody' /\ Apart(c) /\ op[c] \in Operation
      /\ at[c] \in Host /\ goal[c] \in Kind /\ base[c] \in Seq(Event) /\ log \in Seq(Event)
      /\ \A h \in Host \ {at[c]} : cur'[h] = cur[h]
  BY DEF Move, Frame, choice, SharedOK, LocalsOK
<1> DEFINE Held(l) == \A o \in Operation, k \in {"succeeded", "uncertain"} :
             Has(l, k, o) => <<o, k>> \in custody' \/ (k = "uncertain" /\ o \in Execution)
<1>1. \A l : Custodied(l) => Held(l)
  BY <1>0 DEF Custodied
<1>2. Held(<<>>) /\ Held(log) /\ Held(base[c]) /\ Held(cur[at[c]])
  BY <1>0, <1>1, EmptyHas DEF CustodyInv
<1>3. Held(log') /\ (log' # log => pc[c] = "casing" /\ log' = Proposal(c))
  <2>1. CASE log' = log
    BY <1>2, <2>1
  <2>2. CASE log' # log
    <3>1. pc[c] = "casing" /\ log' = Proposal(c)
      BY <2>2 DEF Move, Reads, Waits, Ends, Intends, Resumes, Attempts, GoesOn, Swaps, Hosts
    <3>2. [kind |-> goal[c], of |-> op[c]] \in Event
      BY <1>0 DEF Event
    <3>3. \A k, o : Has(log', k, o) <=> Has(base[c], k, o) \/ (op[c] = o /\ goal[c] = k)
      BY <1>0, <3>1, <3>2, HasAppend DEF Proposal
    <3>4. goal[c] # "intent" =>
            <<op[c], goal[c]>> \in custody' \/ (goal[c] = "uncertain" /\ op[c] \in Execution)
      BY <1>0, <3>1 DEF CustodyInv
    <3> QED BY <1>2, <3>1, <3>3, <3>4
  <2> QED BY <2>1, <2>2
<1>4. cur'[at[c]] \in {cur[at[c]], base[c]}
  BY DEF Move, Reads, Waits, Ends, Intends, Resumes, Attempts, GoesOn, Swaps, Hosts, Adopts
<1>5. base'[c] \in {<<>>, log, log', base[c], cur[at[c]]}
  BY <1>4 DEF Move, Reads, Waits, Ends, Intends, Resumes, Attempts, GoesOn, Swaps, Hosts
<1>6. pc'[c] = "casing" /\ goal'[c] # "intent" =>
        <<op[c], goal'[c]>> \in custody' \/ (goal'[c] = "uncertain" /\ op[c] \in Execution)
  BY DEF Move, Reads, Waits, Ends, Intends, Resumes, Attempts, GoesOn, Swaps, Hosts
<1>h. (\A h \in Host : Held(cur[h])) /\ (\A d \in Call : Held(base[d]))
  BY <1>1 DEF CustodyInv
<1>7. \A h \in Host : Held(cur'[h])
  <2> HIDE DEF Held
  <2> QED BY <1>0, <1>h, <1>4
<1>8. \A d \in Call : Held(base'[d])
  <2> HIDE DEF Held
  <2> QED BY <1>0, <1>h, <1>2, <1>3, <1>5 DEF Apart
<1>9. \A d \in Call : pc'[d] = "casing" /\ goal'[d] # "intent" =>
        <<op[d], goal'[d]>> \in custody' \/ (goal'[d] = "uncertain" /\ op[d] \in Execution)
  BY <1>0, <1>6 DEF CustodyInv, Apart
<1>10. Custodied(log)' /\ (\A h \in Host : Custodied(cur[h]))' /\ (\A d \in Call : Custodied(base[d]))'
  BY <1>3, <1>7, <1>8 DEF Custodied
<1> QED BY <1>0, <1>9, <1>10 DEF CustodyInv

(* No result reaches the durable log before its bytes are in custody, even *)
(* when operations overlap in a runtime: a proposal is staged first, and   *)
(* what a call builds on was durable or custodied before.                  *)
THEOREM CustodyHolds == Spec => []RecordedInCustody
<1>1. Init => CustodyInv
  <2> SUFFICES ASSUME Init PROVE CustodyInv
    OBVIOUS
  <2>1. Custodied(<<>>)
    BY EmptyHas DEF Custodied
  <2> QED BY <2>1 DEF Init, CustodyInv
<1>2. SharedOK /\ LocalsOK /\ CustodyInv /\ [Next]_vars => CustodyInv'
  <2> SUFFICES ASSUME SharedOK, LocalsOK, CustodyInv, [Next]_vars PROVE CustodyInv'
    OBVIOUS
  <2>1. ASSUME NEW c \in Call, Move(c) PROVE CustodyInv'
    BY <2>1, CustodyMove
  <2>2. ASSUME NEW k \in {"planned", "withdrawn"}, NEW x, Records(k, x) PROVE CustodyInv'
    <3>1. \A j, o : Has(log', j, o) <=> Has(log, j, o) \/ (x = o /\ k = j)
      BY <2>2, HasAppend DEF Records, SharedOK
    <3>2. UNCHANGED <<op, cur, custody, pc, base, goal>>
      BY <2>2 DEF Records, choice, local
    <3>3. Custodied(log)'
      BY <2>2, <3>1, <3>2 DEF CustodyInv, Custodied
    <3> QED BY <3>2, <3>3 DEF CustodyInv, Custodied
  <2>3. CASE Restart
    <3>1. /\ cur' = [h \in Host |-> log] /\ base' = [d \in Call |-> <<>>]
          /\ goal' = [d \in Call |-> "intent"] /\ log' = log /\ custody' = custody
      BY <2>3 DEF Restart
    <3>2. Custodied(log)' /\ (\A h \in Host : Custodied(cur[h]))'
      BY <3>1 DEF CustodyInv, Custodied
    <3>3. (\A d \in Call : Custodied(base[d]))'
      BY <3>1, EmptyHas DEF Custodied
    <3> QED BY <3>1, <3>2, <3>3 DEF CustodyInv
  <2>4. CASE UNCHANGED vars
    BY <2>4 DEF vars, choice, world, local, CustodyInv, Custodied
  <2> QED BY <2>1, <2>2, <2>3, <2>4, NextTick DEF Tick
<1>3. CustodyInv => RecordedInCustody
  BY DEF CustodyInv, Custodied, RecordedInCustody
<1> QED BY <1>1, <1>2, <1>3, Base, PTL DEF Spec

-----------------------------------------------------------------------------
(* One operation at a time in a runtime: what a call builds on.            *)

Synced(c) ==
  /\ pc[c] = "reading" => expect[c] = cur[at[c]]
  /\ pc[c] \in Busy \ {"reading", "won", "stale"} => base[c] = cur[at[c]]
  /\ pc[c] = "casing" => expect[c] = base[c]

SyncInv ==
  /\ \A c, d \in Call : c # d /\ Active(c) /\ Active(d) => at[c] # at[d]
  /\ \A c \in Call : Synced(c)

LEMMA Bystanders ==
  ASSUME SharedOK, LocalsOK, SyncInv, NEW c \in Call, Move(c),
         NEW d \in Call, d # c, Active(d)
  PROVE  cur'[at[d]] = cur[at[d]] /\ proven'[at[d]] = proven[at[d]]
<1>1. CASE at[d] # at[c]
  BY <1>1 DEF Move, Frame, SharedOK
<1>2. CASE at[d] = at[c]
  <2>1. ~Active(c)
    BY <1>2 DEF SyncInv
  <2>2. cur' = cur /\ proven' = proven
    BY <2>1 DEF Active, Busy, Move, Reads, Waits, Ends, Intends, Resumes, Attempts, GoesOn, Swaps, Hosts
  <2> QED BY <2>2
<1> QED BY <1>1, <1>2

LEMMA SyncMove ==
  ASSUME ~Overlap, SharedOK, LocalsOK, SyncInv, NEW c \in Call, Move(c)
  PROVE  SyncInv'
<1>0. op' = op /\ at' = at /\ Apart(c) /\ Synced(c)
  BY DEF Move, Frame, choice, SyncInv
<1>1. Active(c)' /\ ~Active(c) => \A d \in Call : Active(d) => at[d] # at[c]
  BY DEF Active, Busy, Move, Reads, Waits, Ends, Intends, Resumes, Attempts, GoesOn, Swaps, Hosts
<1>2. \A d, e \in Call : d # e /\ Active(d)' /\ Active(e)' => at[d] # at[e]
  BY <1>0, <1>1 DEF SyncInv, Apart, Active
<1>3. ASSUME NEW d \in Call, d # c PROVE Synced(d)'
  <2>1. CASE Active(d)
    BY <1>0, <1>3, <2>1, Bystanders DEF SyncInv, Synced, Apart
  <2>2. CASE ~Active(d)
    BY <1>0, <1>3, <2>2 DEF Synced, Apart, Active, Busy
  <2> QED BY <2>1, <2>2
<1>4. Synced(c)'
  <2>1. CASE Reads(c)
    BY <1>0, <2>1 DEF Reads, Synced, Busy
  <2>2. CASE Waits(c) \/ Ends(c)
    BY <1>0, <2>2 DEF Waits, Ends, Synced, Busy
  <2>3. CASE Intends(c)
    BY <1>0, <2>3 DEF Intends, Adopts, Synced, Busy
  <2>4. CASE Resumes(c)
    BY <1>0, <2>4 DEF Resumes, Adopts, Synced, Busy
  <2>5. CASE Attempts(c)
    BY <1>0, <2>5 DEF Attempts, Synced, Busy
  <2>6. CASE GoesOn(c)
    BY <1>0, <2>6 DEF GoesOn, Synced, Busy
  <2>7. CASE Swaps(c)
    BY <1>0, <2>7 DEF Swaps, Synced, Busy
  <2>8. CASE Hosts(c)
    <3>1. cur'[at[c]] = base[c]
      BY <1>0, <2>8 DEF Hosts, Adopts, Synced, Busy
    <3> QED BY <1>0, <2>8, <3>1 DEF Hosts, Synced, Busy
  <2> QED BY <2>1, <2>2, <2>3, <2>4, <2>5, <2>6, <2>7, <2>8 DEF Move
<1> QED BY <1>0, <1>2, <1>3, <1>4 DEF SyncInv

(* Who writes the log, and on top of what.                                 *)
LEMMA LogMove ==
  ASSUME SharedOK, LocalsOK, SyncInv, NEW c \in Call, Move(c)
  PROVE  /\ log' \in Seq(Event) /\ Extends(log', log)
         /\ \/ log' = log
            \/ /\ pc[c] = "casing" /\ log = base[c] /\ pc'[c] \in {"won", "lost"}
               /\ log' = Append(log, [kind |-> goal[c], of |-> op[c]])
               /\ [kind |-> goal[c], of |-> op[c]] \in Event
<1>0. op[c] \in Operation /\ goal[c] \in Kind /\ log \in Seq(Event)
  BY DEF SharedOK, LocalsOK
<1>1. CASE log' = log
  BY <1>0, <1>1, ExtendsRefl
<1>2. CASE log' # log
  <2>1. /\ pc[c] = "casing" /\ log = expect[c] /\ log' = Proposal(c)
        /\ pc'[c] \in {"won", "lost"}
    BY <1>2 DEF Move, Reads, Waits, Ends, Intends, Resumes, Attempts, GoesOn, Swaps, Hosts
  <2>2. log = base[c]
    BY <2>1 DEF SyncInv, Synced
  <2>3. [kind |-> goal[c], of |-> op[c]] \in Event
    BY <1>0 DEF Event
  <2> QED BY <1>0, <2>1, <2>2, <2>3, ExtendsAppend DEF Proposal
<1> QED BY <1>1, <1>2

LEMMA SyncOthers ==
  ASSUME SharedOK, LocalsOK, SyncInv,
         Restart \/ UNCHANGED vars \/ \E k \in {"planned", "withdrawn"} : \E x : Records(k, x)
  PROVE  SyncInv'
<1>1. CASE Restart
  <2>1. \A c \in Call : ~Active(c)'
    BY <1>1 DEF Restart, Active, Busy
  <2> QED BY <2>1 DEF SyncInv, Synced, Active, Busy
<1>2. CASE ~Restart
  <2>1. UNCHANGED <<pc, at, base, expect, cur>>
    BY <1>2 DEF Records, vars, choice, local
  <2> QED BY <2>1 DEF SyncInv, Synced, Active
<1> QED BY <1>1, <1>2

LEMMA InitSync == Init => SyncInv
BY DEF Init, SyncInv, Synced, Active, Busy

LEMMA Sync == ASSUME ~Overlap PROVE Spec => []SyncInv
<1>1. SharedOK /\ LocalsOK /\ SyncInv /\ [Next]_vars => SyncInv'
  BY NextTick, SyncMove, SyncOthers DEF Tick
<1> QED BY InitSync, <1>1, Base, PTL DEF Spec

(* A durable event is never lost: a call proposes only extensions of what  *)
(* its runtime knows, and the store takes only an extension of what it     *)
(* holds.                                                                  *)
THEOREM HistoryHolds == ASSUME ~Overlap PROVE Spec => HistoryOnlyGrows
<1>1. SharedOK /\ LocalsOK /\ SyncInv /\ [Next]_vars => [Extends(log', log)]_log
  <2> SUFFICES ASSUME SharedOK, LocalsOK, SyncInv, [Next]_vars PROVE [Extends(log', log)]_log
    OBVIOUS
  <2>1. ASSUME NEW c \in Call, Move(c) PROVE [Extends(log', log)]_log
    BY <2>1, LogMove
  <2>2. ASSUME NEW k \in {"planned", "withdrawn"}, NEW x, Records(k, x)
        PROVE  [Extends(log', log)]_log
    BY <2>2, ExtendsAppend DEF Records, SharedOK
  <2>3. CASE Restart \/ UNCHANGED vars
    BY <2>3 DEF Restart, vars
  <2> QED BY <2>1, <2>2, <2>3, NextTick DEF Tick
<1> QED BY <1>1, Base, Sync, PTL DEF Spec, HistoryOnlyGrows

-----------------------------------------------------------------------------
(* Every snapshot is a part of the durable log, and a runtime only learns. *)

GrowInv ==
  /\ \A h \in Host : Extends(log, cur[h])
  /\ \A c \in Call : Active(c) => Extends(log, base[c])
  /\ \A c \in Call : pc[c] \in {"won", "stale"} => Extends(base[c], cur[at[c]])

LEMMA GrowMove ==
  ASSUME SharedOK, LocalsOK, SyncInv, GrowInv, NEW c \in Call, Move(c)
  PROVE  GrowInv'
<1>0. /\ op' = op /\ at' = at /\ Apart(c) /\ at[c] \in Host /\ at \in [Call -> Host]
      /\ log \in Seq(Event) /\ log' \in Seq(Event) /\ Extends(log', log)
      /\ cur \in [Host -> Seq(Event)] /\ base \in [Call -> Seq(Event)]
      /\ \A h \in Host \ {at[c]} : cur'[h] = cur[h]
  BY LogMove DEF Move, Frame, choice, SharedOK, LocalsOK
<1>1. ASSUME NEW m \in Seq(Event), Extends(log, m) PROVE Extends(log', m)
  BY <1>0, <1>1, ExtendsTrans
<1>2. \/ cur'[at[c]] = cur[at[c]]
      \/ cur'[at[c]] = base[c] /\ pc[c] \in {"reading", "won", "stale", "absent"}
  BY DEF Move, Reads, Waits, Ends, Intends, Resumes, Attempts, GoesOn, Swaps, Hosts, Adopts
<1>3. Extends(log, cur'[at[c]]) /\ cur'[at[c]] \in Seq(Event)
  BY <1>0, <1>2 DEF GrowInv, Active, Busy
<1>4. \A h \in Host : Extends(log', cur'[h])
  BY <1>0, <1>1, <1>3 DEF GrowInv
<1>5. Active(c)' => Extends(log', base'[c])
  <2>1. Active(c)' => base'[c] \in {log, log', cur[at[c]], cur'[at[c]]} \/ (base'[c] = base[c] /\ Active(c))
    BY DEF Active, Busy, Move, Reads, Waits, Ends, Intends, Resumes, Attempts, GoesOn, Swaps, Hosts
  <2>2. Extends(log', log') /\ Extends(log', log) /\ Extends(log', cur[at[c]])
        /\ Extends(log', cur'[at[c]])
    BY <1>0, <1>1, <1>3, ExtendsRefl DEF GrowInv
  <2>3. Active(c) => Extends(log', base[c])
    BY <1>0, <1>1 DEF GrowInv
  <2> QED BY <2>1, <2>2, <2>3
<1>6. pc'[c] \in {"won", "stale"} => Extends(base'[c], cur'[at[c]])
  <2>1. pc'[c] \in {"won", "stale"} => cur' = cur /\ base'[c] \in {log, log'}
    BY <1>0 DEF Move, Reads, Waits, Ends, Intends, Resumes, Attempts, GoesOn, Swaps, Hosts
  <2>2. Extends(log, cur[at[c]]) /\ Extends(log', cur[at[c]])
    BY <1>0, <1>1 DEF GrowInv
  <2> QED BY <2>1, <2>2
<1>7. ASSUME NEW d \in Call, d # c
      PROVE  /\ Active(d)' => Extends(log', base'[d])
             /\ pc'[d] \in {"won", "stale"} => Extends(base'[d], cur'[at[d]])
  <2>1. pc'[d] = pc[d] /\ base'[d] = base[d] /\ base[d] \in Seq(Event)
    BY <1>0, <1>7 DEF Apart
  <2>2. Active(d) => Extends(log', base[d])
    BY <1>0, <1>1, <2>1 DEF GrowInv
  <2>3. pc[d] \in {"won", "stale"} => cur'[at[d]] = cur[at[d]]
    BY <1>7, Bystanders DEF Active, Busy
  <2> QED BY <2>1, <2>2, <2>3 DEF GrowInv, Active
<1> QED BY <1>0, <1>4, <1>5, <1>6, <1>7 DEF GrowInv

LEMMA GrowRecords ==
  ASSUME SharedOK, LocalsOK, GrowInv, NEW k, NEW x, Records(k, x)
  PROVE  GrowInv'
<1>1. /\ UNCHANGED <<pc, at, base, cur>> /\ log \in Seq(Event) /\ log' \in Seq(Event)
      /\ Extends(log', log) /\ cur \in [Host -> Seq(Event)] /\ base \in [Call -> Seq(Event)]
  BY ExtendsAppend DEF Records, choice, local, SharedOK, LocalsOK
<1>2. \A h \in Host : Extends(log', cur[h])
  BY <1>1, ExtendsTrans DEF GrowInv
<1>3. \A c \in Call : Active(c) => Extends(log', base[c])
  BY <1>1, ExtendsTrans DEF GrowInv
<1> QED BY <1>1, <1>2, <1>3 DEF GrowInv, Active

LEMMA GrowRestart ==
  ASSUME SharedOK, LocalsOK, Restart PROVE GrowInv'
<1>1. \A c \in Call : pc'[c] \notin Busy
  BY DEF Restart, Busy
<1>2. log' = log /\ log \in Seq(Event) /\ \A h \in Host : cur'[h] = log
  BY DEF Restart, SharedOK
<1> QED BY <1>1, <1>2, ExtendsRefl DEF GrowInv, Active, Busy

(* What has become of an operation, whoever learns it from whom.           *)
LEMMA StatusAppend ==
  ASSUME NEW l \in Seq(Event), NEW e \in Event
  PROVE  /\ \A o : o # e.of \/ e.kind \notin Kind => Status(Append(l, e), o) = Status(l, o)
         /\ Status(l, e.of) = "none" /\ e.kind = "intent"
              => Status(Append(l, e), e.of) = "dispatching"
         /\ Status(l, e.of) = "dispatching" /\ e.kind \in {"succeeded", "uncertain"}
              => Status(Append(l, e), e.of) = e.kind
<1>1. \A k, o : Has(Append(l, e), k, o) <=> Has(l, k, o) \/ (e.of = o /\ e.kind = k)
  BY HasAppend
<1> QED BY <1>1 DEF Status, Kind

LEMMA StatusHas ==
  \A l, o : /\ Status(l, o) = "succeeded" => Has(l, "succeeded", o)
            /\ Status(l, o) = "uncertain" => Has(l, "uncertain", o)
            /\ Status(l, o) = "dispatching" =>
                 Has(l, "intent", o) /\ ~Has(l, "succeeded", o) /\ ~Has(l, "uncertain", o)
            /\ Status(l, o) = "none" =>
                 ~Has(l, "intent", o) /\ ~Has(l, "succeeded", o) /\ ~Has(l, "uncertain", o)
BY DEF Status

-----------------------------------------------------------------------------
(* What a call knows of its operation where it is.                         *)

Hosted == {"dispatched", "refused", "redispatched", "applied", "absent", "unknown"}

Phase(c) ==
  /\ pc[c] \in Hosted \union {"idle", "joined", "done", "reading"} => goal[c] = "intent"
  /\ pc[c] = "casing" /\ goal[c] = "intent" =>
       /\ Status(base[c], op[c]) = "none"
       /\ Free(base[c], op[c]) /\ Authorised(base[c], op[c])
  /\ pc[c] \in {"casing", "staging"} /\ goal[c] # "intent" =>
       Status(base[c], op[c]) = "dispatching"
  /\ pc[c] = "won" =>
       /\ Has(base[c], goal[c], op[c])
       /\ goal[c] = "intent" => Status(base[c], op[c]) = "dispatching"
  /\ pc[c] \in Hosted => Status(base[c], op[c]) = "dispatching"
  /\ pc[c] \in Hosted \ {"dispatched", "refused"} => op[c] \in Execution
  /\ pc[c] \in {"dispatched", "redispatched", "applied"} \/ goal[c] = "succeeded" =>
       op[c] \in effected

PhaseInv == \A c \in Call : Phase(c)

LEMMA PhaseMove ==
  ASSUME SharedOK, LocalsOK, SyncInv, PhaseInv, NEW c \in Call, Move(c)
  PROVE  PhaseInv'
<1>0. /\ op' = op /\ at' = at /\ actionOf' = actionOf /\ Apart(c) /\ Phase(c) /\ Synced(c)
      /\ op[c] \in Operation /\ goal[c] \in Kind
      /\ receipts \subseteq effected /\ effected \subseteq effected'
  BY DEF Move, Frame, choice, SyncInv, PhaseInv, SharedOK, LocalsOK, Reads, Waits,
         Ends, Intends, Resumes, Attempts, GoesOn, Swaps, Hosts
<1>1. ASSUME NEW d \in Call, d # c PROVE Phase(d)'
  <2>1. /\ pc'[d] = pc[d] /\ goal'[d] = goal[d] /\ base'[d] = base[d] /\ op'[d] = op[d]
        /\ Phase(d)
    BY <1>0, <1>1 DEF Apart, PhaseInv
  <2>3. /\ Free(base[d], op[d])' <=> Free(base[d], op[d])
        /\ Authorised(base[d], op[d])' <=> Authorised(base[d], op[d])
    BY <1>0, <2>1 DEF Free, PlanFree, Authorised, ActionOf
  <2> QED BY <1>0, <2>1, <2>3 DEF Phase
<1>2. Phase(c)'
  <2>1. CASE Reads(c) \/ Waits(c)
    BY <1>0, <2>1 DEF Reads, Waits, Phase, Hosted
  <2>2. CASE Ends(c)
    BY <1>0, <2>2 DEF Ends, Phase, Hosted
  <2>3. CASE Intends(c)
    <3>1. Free(base[c], op[c])' /\ Authorised(base[c], op[c])'
      <4>1. base'[c] = base[c] /\ Free(base[c], op[c]) /\ Authorised(base[c], op[c])
        BY <2>3 DEF Intends
      <4> QED BY <1>0, <4>1 DEF Free, PlanFree, Authorised, ActionOf
    <3> QED BY <1>0, <2>3, <3>1 DEF Intends, Phase, Hosted
  <2>4. CASE Resumes(c)
    BY <1>0, <2>4 DEF Resumes, Phase, Hosted
  <2>5. CASE Attempts(c)
    <3>1. goal'[c] # "intent" /\ (goal'[c] = "succeeded" => op[c] \in effected)
      BY <1>0, <2>5 DEF Attempts, Phase
    <3> QED BY <1>0, <2>5, <3>1 DEF Attempts, Phase, Hosted
  <2>6. CASE GoesOn(c)
    <3>1. base'[c] = base[c] /\ goal[c] # "intent"
      BY <1>0, <2>6 DEF GoesOn, Synced, Busy, LocalsOK
    <3> QED BY <1>0, <2>6, <3>1 DEF GoesOn, Phase, Hosted
  <2>7. CASE Swaps(c)
    <3>1. pc'[c] = "won" =>
            /\ Has(base'[c], goal[c], op[c])
            /\ goal[c] = "intent" => Status(base'[c], op[c]) = "dispatching"
      <4>1. SUFFICES ASSUME pc'[c] = "won"
                     PROVE  /\ Has(base'[c], goal[c], op[c])
                            /\ goal[c] = "intent" => Status(base'[c], op[c]) = "dispatching"
        OBVIOUS
      <4>2. base'[c] = Proposal(c)
        BY <2>7, <4>1 DEF Swaps
      <4>3. [kind |-> goal[c], of |-> op[c]] \in Event /\ base[c] \in Seq(Event)
        BY <1>0 DEF Event, LocalsOK
      <4>4. Has(base'[c], goal[c], op[c])
        BY <4>2, <4>3, HasAppend DEF Proposal
      <4>5. goal[c] = "intent" => Status(base[c], op[c]) = "none"
        BY <1>0, <2>7 DEF Swaps, Phase
      <4> QED BY <4>2, <4>3, <4>4, <4>5, StatusAppend DEF Proposal
    <3> QED BY <1>0, <2>7, <3>1 DEF Swaps, Phase, Hosted
  <2>8. CASE Hosts(c)
    <3>1. pc'[c] # "refused" => op[c] \in effected'
      BY <1>0, <2>8 DEF Hosts, Repeats
    <3>2. goal[c] = "intent" /\ Status(base[c], op[c]) = "dispatching"
      BY <1>0, <2>8 DEF Hosts, Phase, Hosted
    <3>3. pc'[c] = "redispatched" => op[c] \in Execution
      BY <1>0, <2>8 DEF Hosts, Phase, Hosted
    <3>4. pc'[c] \in {"dispatched", "redispatched", "refused"} /\ base'[c] = base[c]
          /\ goal'[c] = goal[c]
      BY <2>8 DEF Hosts
    <3> QED BY <1>0, <3>1, <3>2, <3>3, <3>4 DEF Phase, Hosted
  <2> QED BY <2>1, <2>2, <2>3, <2>4, <2>5, <2>6, <2>7, <2>8 DEF Move
<1> QED BY <1>1, <1>2 DEF PhaseInv

LEMMA PhaseRecords ==
  ASSUME PhaseInv, NEW k, NEW x, Records(k, x) PROVE PhaseInv'
<1>1. UNCHANGED <<pc, op, base, goal, effected, actionOf>>
  BY DEF Records, choice, world, local
<1> QED BY <1>1 DEF PhaseInv, Phase, Free, PlanFree, Authorised, ActionOf

LEMMA PhaseRestart ==
  ASSUME SharedOK, LocalsOK, PhaseInv, Restart PROVE PhaseInv'
<1>1. \A c \in Call : pc'[c] \in {"idle", "done"} /\ goal'[c] = "intent"
  BY DEF Restart
<1> QED BY <1>1 DEF PhaseInv, Phase, Hosted

-----------------------------------------------------------------------------
(* What the log says of an operation hangs together.                       *)

FactInv ==
  /\ \A o \in Operation :
       /\ Has(log, "succeeded", o) =>
            Has(log, "intent", o) /\ o \in effected /\ ~Has(log, "uncertain", o)
       /\ Has(log, "uncertain", o) => Has(log, "intent", o)
  /\ \A r \in Rollback : Has(log, "intent", r) => Has(log, "succeeded", parent[r])
  /\ AuthorisedLog(log)
  /\ \A c \in Call : out[c] \in {"succeeded", "uncertain"} => Has(log, out[c], op[c])

SoloInv == SharedOK /\ LocalsOK /\ SyncInv /\ GrowInv /\ PhaseInv /\ FactInv

(* The events of the log after a move.                                     *)
LEMMA EventMove ==
  ASSUME SoloInv, NEW c \in Call, Move(c)
  PROVE  \/ log' = log
         \/ /\ pc[c] = "casing" /\ log = base[c] /\ pc'[c] \in {"won", "lost"}
            /\ log' = Append(log, [kind |-> goal[c], of |-> op[c]])
            /\ [kind |-> goal[c], of |-> op[c]] \in Event
            /\ \A k, o : Has(log', k, o) <=> Has(log, k, o) \/ (op[c] = o /\ goal[c] = k)
<1>1. CASE log' = log
  BY <1>1
<1>2. CASE log' # log
  <2>1. /\ pc[c] = "casing" /\ log = base[c] /\ pc'[c] \in {"won", "lost"}
        /\ log' = Append(log, [kind |-> goal[c], of |-> op[c]])
        /\ [kind |-> goal[c], of |-> op[c]] \in Event /\ log \in Seq(Event)
    BY <1>2, LogMove DEF SoloInv, SharedOK
  <2> QED BY <2>1, HasAppend
<1> QED BY <1>1, <1>2

LEMMA FactMove ==
  ASSUME SoloInv, NEW c \in Call, Move(c)
  PROVE  FactInv'
<1>0. /\ UNCHANGED <<actionOf, op, at>> /\ Apart(c) /\ Phase(c) /\ Synced(c)
      /\ op[c] \in Operation /\ op \in [Call -> Operation] /\ goal[c] \in Kind
      /\ effected \subseteq effected' /\ log \in Seq(Event) /\ log' \in Seq(Event)
      /\ Extends(log', log)
  BY LogMove DEF SoloInv, Move, Frame, choice, SyncInv, PhaseInv, SharedOK, LocalsOK, Reads,
         Waits, Ends, Intends, Resumes, Attempts, GoesOn, Swaps, Hosts
<1>1. \A k, o : Has(log, k, o) => Has(log', k, o)
  BY <1>0, ExtendsHas
<1>2. /\ \A o \in Operation :
           /\ Has(log', "succeeded", o) =>
                Has(log', "intent", o) /\ o \in effected' /\ ~Has(log', "uncertain", o)
           /\ Has(log', "uncertain", o) => Has(log', "intent", o)
      /\ \A r \in Rollback : Has(log', "intent", r) => Has(log', "succeeded", parent[r])
  <2>1. CASE log' = log
    BY <1>0, <2>1 DEF SoloInv, FactInv
  <2>2. CASE /\ pc[c] = "casing" /\ log = base[c]
             /\ \A k, o : Has(log', k, o) <=> Has(log, k, o) \/ (op[c] = o /\ goal[c] = k)
    <3>1. goal[c] # "intent" =>
            /\ Has(log, "intent", op[c]) /\ ~Has(log, "succeeded", op[c])
            /\ ~Has(log, "uncertain", op[c])
            /\ goal[c] = "succeeded" => op[c] \in effected
      BY <1>0, <2>2, StatusHas DEF Phase
    <3>2. goal[c] = "intent" /\ op[c] \in Rollback =>
            Has(log, "succeeded", parent[op[c]])
      BY <1>0, <2>2 DEF Phase, Free, PlanFree
    <3>3. goal[c] = "intent" => ~Has(log, "succeeded", op[c]) /\ ~Has(log, "uncertain", op[c])
      BY <1>0, <2>2, StatusHas DEF Phase
    <3> QED BY <1>0, <2>2, <3>1, <3>2, <3>3 DEF SoloInv, FactInv
  <2> QED BY <2>1, <2>2, EventMove
<1>3. AuthorisedLog(log)'
  <2>1. \A d : ActionOf(d)' = ActionOf(d)
    BY <1>0 DEF ActionOf
  <2>2. CASE log' = log
    BY <2>1, <2>2 DEF SoloInv, FactInv, AuthorisedLog
  <2>3. CASE /\ pc[c] = "casing" /\ log = base[c]
             /\ log' = Append(log, [kind |-> goal[c], of |-> op[c]])
             /\ [kind |-> goal[c], of |-> op[c]] \in Event
    <3>1. goal[c] = "intent" => Authorised(log, op[c])
      BY <1>0, <2>3 DEF Phase
    <3>2. AuthorisedLog(Append(log, [kind |-> goal[c], of |-> op[c]]))
      BY <1>0, <2>3, <3>1, AuthorisedAppend DEF SoloInv, FactInv
    <3>3. AuthorisedLog(log')
      BY <2>3, <3>2
    <3> QED BY <2>1, <3>3 DEF AuthorisedLog
  <2> QED BY <2>2, <2>3, EventMove
<1>4. out'[c] \in {"succeeded", "uncertain"} => Has(log', out'[c], op[c])
  <2>1. CASE ~Ends(c)
    <3>1. out'[c] = out[c]
      BY <2>1 DEF Move, Reads, Waits, Intends, Resumes, Attempts, GoesOn, Swaps, Hosts
    <3> QED BY <1>1, <3>1 DEF SoloInv, FactInv
  <2>2. CASE Ends(c)
    <3>1. SUFFICES ASSUME out'[c] \in {"succeeded", "uncertain"} PROVE Has(log, out'[c], op[c])
      BY <1>1
    <3>2. /\ Extends(log, cur[at[c]]) /\ cur[at[c]] \in Seq(Event) /\ base[c] \in Seq(Event)
          /\ Active(c) => Extends(log, base[c])
      BY DEF SoloInv, GrowInv, SharedOK, LocalsOK
    <3>3. CASE Status(cur[at[c]], op[c]) = out'[c]
      <4>1. Has(cur[at[c]], out'[c], op[c])
        BY <3>1, <3>3, StatusHas
      <4> QED BY <1>0, <3>2, <4>1, ExtendsHas
    <3>4. CASE Status(base[c], op[c]) = out'[c] /\ Active(c)
      <4>1. Has(base[c], out'[c], op[c])
        BY <3>1, <3>4, StatusHas
      <4> QED BY <1>0, <3>2, <3>4, <4>1, ExtendsHas
    <3>5. CASE pc[c] = "won" /\ goal[c] = "succeeded" /\ out'[c] = "succeeded"
      <4>1. Has(base[c], out'[c], op[c]) /\ Active(c)
        BY <1>0, <3>5 DEF Phase, Active, Busy
      <4> QED BY <1>0, <3>2, <4>1, ExtendsHas
    <3> QED BY <2>2, <3>1, <3>3, <3>4, <3>5 DEF Ends, Answered
  <2> QED BY <2>1, <2>2
<1>5. \A d \in Call : out'[d] \in {"succeeded", "uncertain"} => Has(log', out'[d], op[d])
  BY <1>0, <1>1, <1>4 DEF SoloInv, FactInv, Apart
<1> QED BY <1>0, <1>2, <1>3, <1>5 DEF FactInv

LEMMA FactRecords ==
  ASSUME SoloInv, NEW k \in {"planned", "withdrawn"}, NEW x, Records(k, x) PROVE FactInv'
<1>1. /\ UNCHANGED <<actionOf, op, out, effected>> /\ log \in Seq(Event)
      /\ [kind |-> k, of |-> x] \in Event /\ log' = Append(log, [kind |-> k, of |-> x])
  BY DEF SoloInv, SharedOK, Records, choice, world, local
<1>2. \A j, o : Has(log', j, o) <=> Has(log, j, o) \/ (x = o /\ k = j)
  BY <1>1, HasAppend
<1>3. AuthorisedLog(log')
  BY <1>1, AuthorisedAppend DEF SoloInv, FactInv
<1>4. AuthorisedLog(log)'
  BY <1>1, <1>3 DEF AuthorisedLog, ActionOf
<1> QED BY <1>1, <1>2, <1>4 DEF SoloInv, FactInv

LEMMA FactRestart ==
  ASSUME SoloInv, Restart PROVE FactInv'
<1>1. UNCHANGED <<actionOf, op, log, effected>>
  BY DEF Restart, choice
<1>2. \A c \in Call : out'[c] \in {out[c], "died"}
  BY DEF Restart
<1>3. AuthorisedLog(log)'
  BY <1>1 DEF SoloInv, FactInv, AuthorisedLog, ActionOf
<1> QED BY <1>1, <1>2, <1>3 DEF SoloInv, FactInv

LEMMA SoloNext ==
  ASSUME ~Overlap, SoloInv, [Next]_vars PROVE SoloInv' /\ Tick
<1>0. SharedOK' /\ LocalsOK' /\ Tick
  BY NextTick DEF SoloInv
<1>1. ASSUME NEW c \in Call, Move(c) PROVE SyncInv' /\ GrowInv' /\ PhaseInv' /\ FactInv'
  BY <1>1, SyncMove, GrowMove, PhaseMove, FactMove DEF SoloInv
<1>2. ASSUME NEW k \in {"planned", "withdrawn"}, NEW x, Records(k, x)
      PROVE  SyncInv' /\ GrowInv' /\ PhaseInv' /\ FactInv'
  BY <1>2, SyncOthers, GrowRecords, PhaseRecords, FactRecords DEF SoloInv
<1>3. ASSUME Restart PROVE SyncInv' /\ GrowInv' /\ PhaseInv' /\ FactInv'
  BY <1>3, SyncOthers, GrowRestart, PhaseRestart, FactRestart DEF SoloInv
<1>4. ASSUME UNCHANGED vars PROVE SyncInv' /\ GrowInv' /\ PhaseInv' /\ FactInv'
  <2>1. SyncInv'
    BY <1>4, SyncOthers DEF SoloInv
  <2>2. UNCHANGED <<actionOf, op, at, log, cur, effected, pc, base, expect, goal, out>>
    BY <1>4 DEF vars, choice, world, local
  <2>3. GrowInv' /\ PhaseInv'
    BY <2>2 DEF SoloInv, GrowInv, PhaseInv, Phase, Active, Free, PlanFree, Authorised, ActionOf
  <2>4. FactInv'
    BY <2>2 DEF SoloInv, FactInv, AuthorisedLog, ActionOf
  <2> QED BY <2>1, <2>3, <2>4
<1> QED BY <1>0, <1>1, <1>2, <1>3, <1>4 DEF SoloInv, Tick

LEMMA InitSolo == Init => SoloInv
<1> SUFFICES ASSUME Init PROVE SoloInv
  OBVIOUS
<1>1. GrowInv
  <2>1. Extends(<<>>, <<>>)
    BY DEF Extends
  <2> QED BY <2>1 DEF Init, GrowInv, Active, Busy
<1>2. PhaseInv
  BY DEF Init, PhaseInv, Phase, Hosted
<1>3. AuthorisedLog(<<>>)
  BY DEF AuthorisedLog
<1>4. FactInv
  BY <1>3, EmptyHas DEF Init, FactInv
<1> QED BY <1>1, <1>2, <1>4, InitType, InitSync DEF SoloInv

LEMMA Solo == ASSUME ~Overlap PROVE Spec => []SoloInv
BY InitSolo, SoloNext, PTL DEF Spec

(* No intent is recorded after its Action's approval was withdrawn,        *)
(* however old the snapshot the preflight judged: the swap that records it *)
(* succeeds only on that very snapshot.                                    *)
THEOREM AuthorisationHolds == ASSUME ~Overlap PROVE Spec => []IntentsAuthorised
<1>1. SoloInv => IntentsAuthorised
  BY DEF SoloInv, FactInv, AuthorisedLog, IntentsAuthorised
<1> QED BY <1>1, Solo, PTL

(* A call answers what the log says, and the log never says otherwise      *)
(* later, whatever answers of the store got lost on the way.               *)
THEOREM AnswersHold == ASSUME ~Overlap PROVE Spec => []AnswersAreDurable
<1>1. SoloInv => AnswersAreDurable
  BY DEF SoloInv, SharedOK, FactInv, Status, AnswersAreDurable
<1> QED BY <1>1, Solo, PTL

-----------------------------------------------------------------------------
(* Rollbacks.                                                              *)

RollInv ==
  /\ \A r \in Rollback : r \in effected =>
       Has(log, "succeeded", parent[r]) /\ target[TargetOf(r)] # parent[r]
  /\ \A r \in Rollback, d \in Call :
       /\ Active(d) /\ op[d] = parent[r]
       /\ r \in effected /\ ~Has(base[d], "succeeded", op[d])
       => target[TargetOf(r)] # Initial

LEMMA BaseGrows ==
  ASSUME SoloInv, NEW c \in Call, Move(c), Active(c), Active(c)'
  PROVE  \A k, o : Has(base[c], k, o) => Has(base'[c], k, o)
<1>0. /\ log \in Seq(Event) /\ log' \in Seq(Event) /\ Extends(log', log) /\ Synced(c)
      /\ base[c] \in Seq(Event) /\ Extends(log, base[c])
  BY LogMove DEF SoloInv, SharedOK, LocalsOK, GrowInv, SyncInv
<1>1. base'[c] \in {base[c], log, log'}
  <2>1. CASE Attempts(c)
    <3>1. cur'[at[c]] = base[c]
      BY <1>0, <2>1 DEF Attempts, Adopts, Synced, Busy
    <3> QED BY <2>1, <3>1 DEF Attempts
  <2>2. CASE GoesOn(c)
    BY <1>0, <2>2 DEF GoesOn, Synced, Busy
  <2>3. CASE ~Attempts(c) /\ ~GoesOn(c)
    BY <2>3 DEF Active, Busy, Move, Reads, Waits, Ends, Intends, Resumes, Swaps, Hosts
  <2> QED BY <2>1, <2>2, <2>3
<1> QED BY <1>0, <1>1, ExtendsHas

(* The effect a move brings about, if any.                                 *)
LEMMA EffectMove ==
  ASSUME SoloInv, NEW c \in Call, Move(c)
  PROVE  \/ target' = target /\ effected' = effected
         \/ /\ Active(c) /\ log' = log
            /\ Status(base[c], op[c]) = "dispatching" /\ Has(log, "intent", op[c])
            /\ target[TargetOf(op[c])] = IF op[c] \in Execution THEN Initial ELSE parent[op[c]]
            /\ target' = [target EXCEPT ![TargetOf(op[c])] = op[c]]
            /\ effected' = effected \union {op[c]}
<1>0. Phase(c) /\ log \in Seq(Event) /\ base[c] \in Seq(Event)
  BY DEF SoloInv, PhaseInv, SharedOK, LocalsOK
<1>1. \/ target' = target /\ effected' = effected
      \/ /\ Hosts(c) /\ Applies(op[c])
         /\ target' = [target EXCEPT ![TargetOf(op[c])] = op[c]]
         /\ effected' = effected \union {op[c]}
  BY DEF Move, Reads, Waits, Ends, Intends, Resumes, Attempts, GoesOn, Swaps, Hosts
<1>2. Hosts(c) => Active(c) /\ Status(base[c], op[c]) = "dispatching" /\ log' = log
  BY <1>0 DEF Hosts, Active, Busy, Phase, Hosted
<1>3. Hosts(c) => Has(log, "intent", op[c])
  <2>1. SUFFICES ASSUME Hosts(c) PROVE Has(log, "intent", op[c])
    OBVIOUS
  <2>2. Has(base[c], "intent", op[c]) /\ Extends(log, base[c])
    BY <1>2, <2>1, StatusHas DEF SoloInv, GrowInv
  <2> QED BY <1>0, <2>2, ExtendsHas
<1> QED BY <1>1, <1>2, <1>3 DEF Applies

LEMMA RollMove ==
  ASSUME SoloInv, RollInv, NEW c \in Call, Move(c)
  PROVE  RollInv'
<1>a. /\ op' = op /\ actionOf' = actionOf /\ targetOf' = targetOf /\ Apart(c)
      /\ op[c] \in Operation /\ log \in Seq(Event)
      /\ target \in [Target -> Operation \union {Initial}]
  BY DEF SoloInv, Move, Frame, choice, SharedOK
<1>b. log' \in Seq(Event) /\ Extends(log', log)
  BY LogMove DEF SoloInv
<1>c. \A o \in Operation : o # Initial /\ TargetOf(o)' = TargetOf(o)
  BY <1>a DEF TargetOf, ActionOf
<1>d. \A r \in Rollback :
        /\ parent[r] \in Execution /\ parent[r] \notin Rollback /\ r # Initial
        /\ parent[r] # Initial
        /\ TargetOf(r) = TargetOf(parent[r]) /\ TargetOf(r) \in Target
  BY TargetTypes DEF SoloInv, TargetOf, ActionOf, Operation
<1>1. ASSUME NEW r \in Rollback, r \in effected'
      PROVE  Has(log', "succeeded", parent[r]) /\ target'[TargetOf(r)] # parent[r]
  <2>1. CASE r \in effected
    <3>1. Has(log', "succeeded", parent[r])
      BY <1>a, <1>b, <1>c, <1>d, <2>1, ExtendsHas DEF RollInv
    <3>2. target[TargetOf(r)] # parent[r]
      BY <2>1 DEF RollInv
    <3>3. CASE target' # target /\ op[c] = parent[r]
      <4>1. Active(c) /\ ~Has(base[c], "succeeded", op[c])
            /\ target[TargetOf(op[c])] = Initial
        BY <1>a, <1>b, <1>c, <1>d, <3>3, EffectMove, StatusHas
      <4>2. target[TargetOf(r)] # Initial
        BY <2>1, <3>3, <4>1 DEF RollInv
      <4> QED BY <1>a, <1>b, <1>c, <1>d, <3>3, <4>1, <4>2
    <3>4. CASE target' # target /\ op[c] # parent[r]
      BY <1>a, <1>b, <1>c, <1>d, <3>1, <3>2, <3>4, EffectMove
    <3> QED BY <3>1, <3>2, <3>3, <3>4
  <2>2. CASE r \notin effected
    <3>1. /\ op[c] = r /\ Has(log, "intent", r)
          /\ target' = [target EXCEPT ![TargetOf(r)] = r]
      BY <1>1, <2>2, EffectMove
    <3>2. Has(log, "succeeded", parent[r])
      BY <3>1 DEF SoloInv, FactInv
    <3> QED BY <1>a, <1>b, <1>c, <1>d, <3>1, <3>2, ExtendsHas
  <2> QED BY <2>1, <2>2
<1>2. ASSUME NEW r \in Rollback, NEW d \in Call, Active(d)', op[d] = parent[r],
             r \in effected', ~Has(base'[d], "succeeded", op[d])
      PROVE  target'[TargetOf(r)] # Initial
  <2>1. CASE r \notin effected
    <3>1. op[c] = r /\ target' = [target EXCEPT ![TargetOf(r)] = r]
      BY <1>2, <2>1, EffectMove
    <3> QED BY <1>a, <1>b, <1>c, <1>d, <3>1
  <2>2. CASE r \in effected /\ Active(d)
    <3>1. ~Has(base[d], "succeeded", op[d])
      BY <1>a, <1>b, <1>c, <1>d, <1>2, <2>2, BaseGrows DEF Apart
    <3>2. target[TargetOf(r)] # Initial
      BY <1>2, <2>2, <3>1 DEF RollInv
    <3> QED BY <1>a, <1>b, <1>c, <1>d, <3>2, EffectMove
  <2>3. CASE r \in effected /\ ~Active(d)
    <3>1. d = c
      BY <1>a, <1>b, <1>c, <1>d, <1>2, <2>3 DEF Apart, Active
    <3>2. base'[c] = log
      BY <1>2, <2>3, <3>1 DEF Active, Busy, Move, Reads, Waits, Ends, Intends, Resumes, Attempts, GoesOn,
         Swaps, Hosts
    <3>3. Has(log, "succeeded", parent[r])
      BY <2>3 DEF RollInv
    <3> QED BY <1>2, <3>1, <3>2, <3>3
  <2> QED BY <2>1, <2>2, <2>3
<1>3. \A r \in Rollback : TargetOf(r)' = TargetOf(r)
  BY <1>a, <1>b, <1>c, <1>d DEF Operation
<1> QED BY <1>a, <1>b, <1>c, <1>d, <1>1, <1>2, <1>3 DEF RollInv

LEMMA RollNext ==
  ASSUME ~Overlap, SoloInv, RollInv, [Next]_vars PROVE RollInv'
<1>1. ASSUME NEW c \in Call, Move(c) PROVE RollInv'
  BY <1>1, RollMove
<1>2. ASSUME NEW k \in {"planned", "withdrawn"}, NEW x, Records(k, x) PROVE RollInv'
  <2>1. UNCHANGED <<actionOf, targetOf, op, pc, base, target, effected>>
    BY <1>2 DEF Records, choice, world, local
  <2>2. \A r : Has(log, "succeeded", r) => Has(log', "succeeded", r)
    BY <1>2, HasAppend DEF Records, SoloInv, SharedOK
  <2> QED BY <2>1, <2>2 DEF RollInv, TargetOf, ActionOf, Active
<1>3. CASE Restart
  <2>1. /\ \A d \in Call : ~Active(d)'
        /\ UNCHANGED <<actionOf, targetOf, log, effected>>
        /\ target' = [t \in Target |-> Initial]
    BY <1>3 DEF Restart, choice, Active, Busy
  <2>2. \A r \in Rollback : parent[r] # Initial /\ TargetOf(r) \in Target
    BY TargetTypes DEF SoloInv, Operation
  <2>3. \A r \in Rollback : TargetOf(r)' = TargetOf(r)
    BY <2>1 DEF TargetOf, ActionOf
  <2> QED BY <2>1, <2>2, <2>3 DEF RollInv
<1>4. CASE UNCHANGED vars
  <2>1. UNCHANGED <<actionOf, targetOf, op, pc, base, target, log, effected>>
    BY <1>4 DEF vars, choice, world, local
  <2> QED BY <2>1 DEF RollInv, TargetOf, ActionOf, Active
<1> QED BY <1>1, <1>2, <1>3, <1>4, NextTick DEF Tick, SoloInv

LEMMA Roll == ASSUME ~Overlap PROVE Spec => []RollInv
<1>1. Init => RollInv
  BY DEF Init, RollInv
<1> QED BY <1>1, RollNext, Solo, PTL DEF Spec

(* A rollback that succeeded holds: no late or repeated dispatch brings    *)
(* the rolled-back effect back to its target.  A call that might dispatch  *)
(* it again after a restart reads its success first.                       *)
THEOREM RollbacksHold == ASSUME ~Overlap PROVE Spec => []RollbackHolds
<1>1. SoloInv /\ RollInv => RollbackHolds
  BY DEF SoloInv, FactInv, RollInv, RollbackHolds, Operation
<1> QED BY <1>1, Solo, Roll, PTL

-----------------------------------------------------------------------------
(* The log and the effects as a ledger of operations.                      *)

LEMMA LedgerMove ==
  ASSUME SoloInv, RollInv, NEW c \in Call, Move(c)
  PROVE  [Ledger!Next]_Ledger!vars
<1> DEFINE st == [o \in Operation |-> Status(log, o)]
           sn == [o \in Operation |-> Status(log', o)]
           o == op[c]
<1>0. /\ actionOf' = actionOf /\ o \in Operation /\ Phase(c) /\ goal[c] \in Kind
      /\ log \in Seq(Event)
  BY DEF SoloInv, Move, Frame, choice, PhaseInv, SharedOK, LocalsOK
<1>1. CASE log' = log /\ effected' = effected
  BY <1>0, <1>1 DEF Ledger!vars
<1>2. CASE log' # log
  <2>1. /\ pc[c] = "casing" /\ log = base[c] /\ effected' = effected
        /\ log' = Append(log, [kind |-> goal[c], of |-> o])
        /\ [kind |-> goal[c], of |-> o] \in Event
    <3>1. pc[c] = "casing" => effected' = effected
      BY DEF Move, Reads, Waits, Ends, Intends, Resumes, Attempts, GoesOn, Swaps, Hosts
    <3> QED BY <1>2, <3>1, EventMove
  <2>2. \A p \in Operation : p # o => Status(log', p) = Status(log, p)
    BY <1>0, <2>1, StatusAppend
  <2>3. CASE goal[c] = "intent"
    <3>1. Status(log, o) = "none" /\ Free(log, o)
      BY <1>0, <2>1, <2>3 DEF Phase
    <3>2. Status(log', o) = "dispatching"
      BY <1>0, <2>1, <2>3, <3>1, StatusAppend
    <3>3. sn = [st EXCEPT ![o] = "dispatching"]
      BY <1>0, <2>2, <3>2
    <3>4. \A p \in Ledger!Rivals(o) : p \in Operation /\ Status(log, p) = "none"
      <4>1. \A p \in Operation : ~Has(log, "intent", p) => Status(log, p) = "none"
        BY DEF SoloInv, FactInv, Status
      <4> QED BY <1>0, <3>1, <4>1 DEF Ledger!Rivals, Free, PlanFree, Operation
    <3>5. o \in Rollback => parent[o] \in Operation /\ Status(log, parent[o]) = "succeeded"
      BY <3>1 DEF Free, PlanFree, Operation, Status
    <3>6. Ledger!Dispatch(o)
      BY <1>0, <2>1, <3>1, <3>3, <3>4, <3>5 DEF Ledger!Dispatch
    <3> QED BY <1>0, <3>6 DEF Ledger!Next, Ledger!Operation, Operation
  <2>4. CASE goal[c] # "intent"
    <3>1. /\ Status(log, o) = "dispatching" /\ goal[c] \in {"succeeded", "uncertain"}
          /\ goal[c] = "succeeded" => o \in effected
      BY <1>0, <2>1, <2>4 DEF Phase, Kind
    <3>2. Status(log', o) = goal[c]
      BY <1>0, <2>1, <3>1, StatusAppend
    <3>3. sn = [st EXCEPT ![o] = goal[c]]
      BY <1>0, <2>2, <3>2
    <3>4. Ledger!Succeed(o) \/ Ledger!Doubt(o)
      BY <1>0, <2>1, <3>1, <3>3 DEF Ledger!Succeed, Ledger!Doubt
    <3> QED BY <1>0, <3>4 DEF Ledger!Next, Ledger!Operation, Operation
  <2> QED BY <2>3, <2>4
<1>3. CASE log' = log /\ effected' # effected
  <2>1. /\ effected' = effected \union {o} /\ Has(log, "intent", o)
        /\ o \in Rollback => target[TargetOf(o)] = parent[o]
    BY <1>0, <1>3, EffectMove DEF Operation
  <2>2. o \notin effected
    BY <1>3, <2>1
  <2>3. Status(log, o) \in {"dispatching", "uncertain"}
    BY <1>0, <2>1, <2>2 DEF SoloInv, FactInv, Status
  <2>4. ASSUME o \in Rollback, NEW r \in Rollback, parent[r] = parent[o] PROVE r \notin effected
    <3>1. TargetOf(r) = TargetOf(o)
      BY <2>4 DEF TargetOf, ActionOf
    <3> QED BY <2>1, <2>4, <3>1 DEF RollInv
  <2>5. Ledger!Effect(o)
    BY <1>0, <1>3, <2>1, <2>2, <2>3, <2>4 DEF Ledger!Effect
  <2> QED BY <1>0, <2>5 DEF Ledger!Next, Ledger!Operation, Operation
<1> QED BY <1>1, <1>2, <1>3

(* Whatever runtimes, restarts and lost answers: an operation gets its     *)
(* intent before its effect, at most one per Action and one per rollback   *)
(* plan, and ends once, as succeeded only with the effect; of the          *)
(* rollbacks of an execution, under whatever plans, at most one takes      *)
(* effect.                                                                 *)
THEOREM LedgerHolds == ASSUME ~Overlap PROVE Spec => ImplementsLedger
<1>1. Init => Ledger!Init
  <2> SUFFICES ASSUME Init PROVE Ledger!Init
    OBVIOUS
  <2>1. \A o : Status(<<>>, o) = "none"
    BY EmptyHas DEF Status
  <2> QED BY <2>1 DEF Init, Ledger!Init, Ledger!Operation, Operation
<1>2. SoloInv /\ RollInv /\ [Next]_vars => [Ledger!Next]_Ledger!vars
  <2> SUFFICES ASSUME SoloInv, RollInv, [Next]_vars PROVE [Ledger!Next]_Ledger!vars
    OBVIOUS
  <2>1. ASSUME NEW c \in Call, Move(c) PROVE [Ledger!Next]_Ledger!vars
    BY <2>1, LedgerMove
  <2>2. ASSUME NEW k \in {"planned", "withdrawn"}, NEW x, Records(k, x)
        PROVE  [Ledger!Next]_Ledger!vars
    <3>1. /\ UNCHANGED <<actionOf, effected>> /\ log \in Seq(Event)
          /\ [kind |-> k, of |-> x] \in Event /\ log' = Append(log, [kind |-> k, of |-> x])
      BY <2>2 DEF Records, choice, world, SoloInv, SharedOK
    <3>2. \A o \in Operation : Status(log', o) = Status(log, o)
      BY <3>1, StatusAppend DEF Kind
    <3> QED BY <3>1, <3>2 DEF Ledger!vars
  <2>3. CASE Restart \/ UNCHANGED vars
    <3>1. UNCHANGED <<actionOf, effected, log>>
      BY <2>3 DEF Restart, vars, choice, world
    <3> QED BY <3>1 DEF Ledger!vars
  <2> QED BY <2>1, <2>2, <2>3, NextTick DEF Tick, SoloInv
<1> QED BY <1>1, <1>2, Solo, Roll, PTL DEF Spec, ImplementsLedger, Ledger!Spec

-----------------------------------------------------------------------------
(* What follows from being a ledger.  The steps of the abstract            *)
(* specification suffice; governed execution inherits the results.         *)

OpStatus == [o \in Operation |-> Status(log, o)]
SameOwner(o, p) ==
  \/ o \in Execution /\ p \in Execution /\ actionOf[o] = actionOf[p]
  \/ o \in Rollback /\ p \in Rollback /\ planOf[o] = planOf[p]
SameParent(o, p) == o \in Rollback /\ p \in Rollback /\ parent[o] = parent[p]

(* The invariant of the ledger. *)
LedgerInv ==
  /\ effected \subseteq Operation
  /\ \A o \in Operation : o \in effected => OpStatus[o] # "none"
  /\ \A o \in Operation : OpStatus[o] = "succeeded" => o \in effected
  /\ \A o, p \in Operation :
       (SameOwner(o, p) /\ OpStatus[o] # "none" /\ OpStatus[p] # "none") => o = p
  /\ \A o, p \in effected : SameParent(o, p) => o = p
  /\ \A r \in Rollback : OpStatus[r] # "none" => OpStatus[parent[r]] = "succeeded"

LEMMA LedgerSteps ==
  ASSUME [Ledger!Next]_Ledger!vars
  PROVE  /\ actionOf' = actionOf
         /\ \/ OpStatus' = OpStatus /\ effected' = effected
            \/ \E o \in Operation :
                 \/ /\ OpStatus[o] = "none" /\ effected' = effected
                    /\ \A p \in Operation : SameOwner(o, p) => OpStatus[p] = "none"
                    /\ o \in Rollback => OpStatus[parent[o]] = "succeeded"
                    /\ OpStatus' = [OpStatus EXCEPT ![o] = "dispatching"]
                 \/ /\ OpStatus[o] # "none" /\ effected' = effected \union {o}
                    /\ \A p \in effected : ~SameParent(o, p)
                    /\ OpStatus' = OpStatus
                 \/ /\ OpStatus[o] = "dispatching" /\ o \in effected
                    /\ OpStatus' = [OpStatus EXCEPT ![o] = "succeeded"]
                    /\ effected' = effected
                 \/ /\ OpStatus[o] = "dispatching" /\ effected' = effected
                    /\ OpStatus' = [OpStatus EXCEPT ![o] = "uncertain"]
<1>1. CASE UNCHANGED Ledger!vars
  BY <1>1 DEF Ledger!vars, OpStatus
<1>2. ASSUME NEW o \in Operation, Ledger!Dispatch(o)
      PROVE  /\ actionOf' = actionOf /\ OpStatus[o] = "none" /\ effected' = effected
             /\ \A p \in Operation : SameOwner(o, p) => OpStatus[p] = "none"
             /\ o \in Rollback => OpStatus[parent[o]] = "succeeded"
             /\ OpStatus' = [OpStatus EXCEPT ![o] = "dispatching"]
  <2>1. /\ actionOf' = actionOf /\ effected' = effected /\ OpStatus[o] = "none"
        /\ \A p \in Ledger!Rivals(o) : OpStatus[p] = "none"
        /\ o \in Rollback => OpStatus[parent[o]] = "succeeded"
        /\ OpStatus' = [OpStatus EXCEPT ![o] = "dispatching"]
    BY <1>2 DEF Ledger!Dispatch, OpStatus
  <2>2. \A p \in Operation : SameOwner(o, p) => p \in Ledger!Rivals(o)
    BY DEF SameOwner, Ledger!Rivals, Operation
  <2> QED BY <2>1, <2>2
<1>3. ASSUME NEW o \in Operation, Ledger!Effect(o)
      PROVE  /\ actionOf' = actionOf /\ OpStatus' = OpStatus
             /\ OpStatus[o] # "none" /\ effected' = effected \union {o}
             /\ \A p \in effected : ~SameParent(o, p)
  BY <1>3 DEF Ledger!Effect, OpStatus, SameParent
<1>4. ASSUME NEW o \in Operation, Ledger!Succeed(o)
      PROVE  /\ actionOf' = actionOf /\ OpStatus[o] = "dispatching" /\ o \in effected
             /\ OpStatus' = [OpStatus EXCEPT ![o] = "succeeded"] /\ effected' = effected
  BY <1>4 DEF Ledger!Succeed, OpStatus
<1>5. ASSUME NEW o \in Operation, Ledger!Doubt(o)
      PROVE  /\ actionOf' = actionOf /\ OpStatus[o] = "dispatching"
             /\ OpStatus' = [OpStatus EXCEPT ![o] = "uncertain"] /\ effected' = effected
  BY <1>5 DEF Ledger!Doubt, OpStatus
<1> QED BY <1>1, <1>2, <1>3, <1>4, <1>5 DEF Ledger!Next, Ledger!Operation, Operation

LEMMA LedgerInvHolds == ImplementsLedger => []LedgerInv
<1>1. Ledger!Init => LedgerInv
  <2> SUFFICES ASSUME Ledger!Init PROVE LedgerInv
    OBVIOUS
  <2>1. effected = {} /\ \A o \in Operation : OpStatus[o] = "none"
    BY DEF Ledger!Init, Ledger!Operation, OpStatus, Operation
  <2> QED BY <2>1 DEF LedgerInv, Operation
<1>2. LedgerInv /\ [Ledger!Next]_Ledger!vars => LedgerInv'
  <2> SUFFICES ASSUME LedgerInv, [Ledger!Next]_Ledger!vars PROVE LedgerInv'
    OBVIOUS
  <2> DEFINE S == OpStatus
             T == OpStatus'
             Goal ==
               /\ effected' \subseteq Operation
               /\ \A o \in Operation : o \in effected' => T[o] # "none"
               /\ \A o \in Operation : T[o] = "succeeded" => o \in effected'
               /\ \A o, p \in Operation :
                    (SameOwner(o, p) /\ T[o] # "none" /\ T[p] # "none") => o = p
               /\ \A o, p \in effected' : SameParent(o, p) => o = p
               /\ \A r \in Rollback : T[r] # "none" => T[parent[r]] = "succeeded"
  <2>0. /\ DOMAIN S = Operation /\ Rollback \subseteq Operation
        /\ \A r \in Rollback : parent[r] \in Operation
    BY DEF OpStatus, Operation
  <2>1. \A o, p : /\ SameOwner(o, p)' <=> SameOwner(o, p)
                  /\ SameParent(o, p)' <=> SameParent(o, p)
    BY LedgerSteps DEF SameOwner, SameParent
  <2>2. /\ effected \subseteq Operation
        /\ \A o \in Operation : o \in effected => S[o] # "none"
        /\ \A o \in Operation : S[o] = "succeeded" => o \in effected
        /\ \A o, p \in Operation :
             (SameOwner(o, p) /\ S[o] # "none" /\ S[p] # "none") => o = p
        /\ \A o, p \in effected : SameParent(o, p) => o = p
        /\ \A r \in Rollback : S[r] # "none" => S[parent[r]] = "succeeded"
    BY DEF LedgerInv
  <2>3. SUFFICES Goal
    BY <2>1 DEF LedgerInv
  <2>4. \/ T = S /\ effected' = effected
        \/ \E o \in Operation :
             \/ /\ S[o] = "none" /\ effected' = effected
                /\ \A p \in Operation : SameOwner(o, p) => S[p] = "none"
                /\ o \in Rollback => S[parent[o]] = "succeeded"
                /\ T = [S EXCEPT ![o] = "dispatching"]
             \/ /\ S[o] # "none" /\ effected' = effected \union {o} /\ T = S
                /\ \A p \in effected : ~SameParent(o, p)
             \/ /\ S[o] = "dispatching" /\ o \in effected
                /\ T = [S EXCEPT ![o] = "succeeded"] /\ effected' = effected
             \/ /\ S[o] = "dispatching" /\ effected' = effected
                /\ T = [S EXCEPT ![o] = "uncertain"]
    BY LedgerSteps
  <2>5. \A o, p : /\ SameOwner(o, p) <=> SameOwner(p, o)
                  /\ SameParent(o, p) <=> SameParent(p, o)
    BY DEF SameOwner, SameParent
  <2> HIDE DEF S, T
  <2>6. CASE T = S /\ effected' = effected
    BY <2>2, <2>6
  <2>7. ASSUME NEW o \in Operation, S[o] = "none", effected' = effected,
               \A p \in Operation : SameOwner(o, p) => S[p] = "none",
               o \in Rollback => S[parent[o]] = "succeeded",
               T = [S EXCEPT ![o] = "dispatching"]
        PROVE  Goal
    BY <2>0, <2>2, <2>5, <2>7
  <2>8. ASSUME NEW o \in Operation, S[o] # "none",
               effected' = effected \union {o}, T = S,
               \A p \in effected : ~SameParent(o, p)
        PROVE  Goal
    BY <2>2, <2>5, <2>8
  <2>9. ASSUME NEW o \in Operation, S[o] = "dispatching", effected' = effected,
               NEW x \in {"succeeded", "uncertain"}, x = "succeeded" => o \in effected,
               T = [S EXCEPT ![o] = x]
        PROVE  Goal
    BY <2>0, <2>2, <2>9
  <2> QED BY <2>4, <2>6, <2>7, <2>8, <2>9
<1> QED BY <1>1, <1>2, PTL DEF ImplementsLedger, Ledger!Spec

(* At most one execution of an Action ever took effect, and at most one    *)
(* rollback of an execution, however many plans for it were carried out; a *)
(* recorded success did take effect; and nothing is rolled back but an     *)
(* execution recorded as succeeded.                                        *)
EffectsAreSingle ==
  /\ \A o, p \in effected : SameOwner(o, p) \/ SameParent(o, p) => o = p
  /\ \A o \in Operation : Status(log, o) = "succeeded" => o \in effected
  /\ \A r \in Rollback :
       r \in effected =>
         parent[r] \in effected /\ Status(log, parent[r]) = "succeeded"

(* Whatever calls are repeated, runtimes compete, answers are lost and     *)
(* processes restart.                                                      *)
THEOREM EffectsAreSingleHolds == ASSUME ~Overlap PROVE Spec => []EffectsAreSingle
<1>1. LedgerInv => EffectsAreSingle
  <2>1. \A o \in Operation : OpStatus[o] = Status(log, o)
    BY DEF OpStatus
  <2>2. Rollback \subseteq Operation /\ \A r \in Rollback : parent[r] \in Operation
    BY DEF Operation
  <2>3. SUFFICES ASSUME LedgerInv PROVE EffectsAreSingle
    OBVIOUS
  <2>4. \A o, p \in effected : SameOwner(o, p) \/ SameParent(o, p) => o = p
    BY <2>3 DEF LedgerInv
  <2>5. \A o \in Operation : Status(log, o) = "succeeded" => o \in effected
    BY <2>1, <2>3 DEF LedgerInv
  <2>6. \A r \in Rollback : r \in effected => Status(log, parent[r]) = "succeeded"
    BY <2>1, <2>2, <2>3 DEF LedgerInv
  <2> QED BY <2>2, <2>4, <2>5, <2>6 DEF EffectsAreSingle
<1> QED BY <1>1, LedgerHolds, LedgerInvHolds, PTL

(* An operation recorded as succeeded or uncertain stays what it is: a     *)
(* late result, a retry or a recovery never rewrites how it ended.         *)
THEOREM EndsAreFinal ==
  ASSUME ~Overlap, NEW o \in Operation, NEW x \in {"succeeded", "uncertain"}
  PROVE  Spec => [](Status(log, o) = x => [](Status(log, o) = x))
<1>1. Status(log, o) = x /\ [Ledger!Next]_Ledger!vars => (Status(log, o) = x)'
  <2> SUFFICES ASSUME Status(log, o) = x, [Ledger!Next]_Ledger!vars
               PROVE  Status(log', o) = x
    OBVIOUS
  <2>1. /\ DOMAIN OpStatus = Operation /\ OpStatus[o] = Status(log, o)
        /\ OpStatus'[o] = Status(log', o)
    BY DEF OpStatus
  <2>2. \/ OpStatus' = OpStatus
        \/ \E p \in Operation : \E y :
             /\ OpStatus[p] \in {"none", "dispatching"}
             /\ OpStatus' = [OpStatus EXCEPT ![p] = y]
    BY LedgerSteps
  <2> QED BY <2>1, <2>2
<1>2. Spec => [][Ledger!Next]_Ledger!vars
  BY LedgerHolds, PTL DEF ImplementsLedger, Ledger!Spec
<1> QED BY <1>1, <1>2, PTL

-----------------------------------------------------------------------------
(* What a runtime has proved.                                              *)

ProvenInv ==
  /\ \A h \in Host : \A o \in proven[h] : Has(cur[h], "intent", o)
  /\ \A c \in Call : Active(c) /\ pc[c] # "reading" /\ goal[c] # "succeeded" =>
       op[c] \notin proven[at[c]]

LEMMA ProvenMove ==
  ASSUME SoloInv, ProvenInv, NEW c \in Call, Move(c)
  PROVE  ProvenInv'
<1>0. /\ op' = op /\ at' = at /\ Apart(c) /\ at[c] \in Host /\ Phase(c) /\ Synced(c)
      /\ cur \in [Host -> Seq(Event)] /\ base[c] \in Seq(Event)
      /\ \A h \in Host \ {at[c]} : cur'[h] = cur[h] /\ proven'[h] = proven[h]
  BY DEF SoloInv, Move, Frame, choice, SharedOK, LocalsOK, PhaseInv, SyncInv
<1>1. cur'[at[c]] = cur[at[c]] \/ (cur'[at[c]] = base[c] /\ Extends(base[c], cur[at[c]]))
  <2>1. \/ cur'[at[c]] = cur[at[c]]
        \/ cur'[at[c]] = base[c] /\ pc[c] = "reading" /\ Extends(base[c], expect[c])
        \/ cur'[at[c]] = base[c] /\ pc[c] \in {"won", "stale"}
    BY DEF Move, Reads, Waits, Ends, Intends, Resumes, Attempts, GoesOn, Swaps, Hosts, Adopts
  <2>2. CASE cur'[at[c]] = base[c] /\ pc[c] = "reading" /\ Extends(base[c], expect[c])
    BY <1>0, <2>2 DEF Synced
  <2>3. CASE cur'[at[c]] = base[c] /\ pc[c] \in {"won", "stale"}
    BY <2>3 DEF SoloInv, GrowInv
  <2> QED BY <2>1, <2>2, <2>3
<1>2. \A o : Has(cur[at[c]], "intent", o) => Has(cur'[at[c]], "intent", o)
  BY <1>0, <1>1, ExtendsHas
<1>3. \/ proven'[at[c]] = proven[at[c]]
      \/ /\ proven'[at[c]] = proven[at[c]] \union {op[c]}
         /\ pc[c] \in {"dispatched", "applied"} /\ (Ends(c) \/ Attempts(c))
  BY DEF Move, Reads, Waits, Ends, Intends, Resumes, Attempts, GoesOn, Swaps, Hosts
<1>4. pc[c] \in {"dispatched", "applied"} => Has(cur[at[c]], "intent", op[c])
  <2>1. SUFFICES ASSUME pc[c] \in {"dispatched", "applied"} PROVE Has(cur[at[c]], "intent", op[c])
    OBVIOUS
  <2>2. base[c] = cur[at[c]]
    BY <1>0, <2>1 DEF Synced, Busy
  <2>3. Status(base[c], op[c]) = "dispatching"
    BY <1>0, <2>1 DEF Phase, Hosted
  <2> QED BY <2>2, <2>3, StatusHas
<1>5. \A h \in Host : \A o \in proven'[h] : Has(cur'[h], "intent", o)
  BY <1>0, <1>2, <1>3, <1>4 DEF ProvenInv
<1>6. ASSUME NEW d \in Call, d # c, Active(d)', pc'[d] # "reading", goal'[d] # "succeeded"
      PROVE  op[d] \notin proven'[at[d]]
  <2>1. Active(d) /\ pc[d] # "reading" /\ goal[d] # "succeeded"
    BY <1>0, <1>6 DEF Apart, Active
  <2>2. proven'[at[d]] = proven[at[d]]
    BY <1>6, <2>1, Bystanders DEF SoloInv
  <2> QED BY <2>1, <2>2 DEF ProvenInv
<1>7. ASSUME Active(c)', pc'[c] # "reading", goal'[c] # "succeeded"
      PROVE  op[c] \notin proven'[at[c]]
  <2>1. CASE Intends(c)
    <3>1. ~Has(base[c], "intent", op[c]) /\ cur'[at[c]] = base[c]
      BY <2>1, StatusHas DEF Intends, Adopts
    <3> QED BY <1>0, <1>5, <3>1
  <2>2. CASE Resumes(c)
    BY <2>2 DEF Resumes
  <2>3. CASE Attempts(c)
    <3>1. proven' = proven /\ Active(c) /\ pc[c] # "reading" /\ goal[c] # "succeeded"
      BY <1>0, <1>7, <2>3 DEF Attempts, Active, Busy, Phase, Hosted
    <3> QED BY <3>1 DEF ProvenInv
  <2>4. CASE GoesOn(c) \/ Swaps(c) \/ Hosts(c)
    <3>1. proven' = proven /\ Active(c) /\ pc[c] # "reading" /\ goal[c] # "succeeded"
      BY <1>7, <2>4 DEF GoesOn, Swaps, Hosts, Active, Busy
    <3> QED BY <3>1 DEF ProvenInv
  <2>5. CASE Reads(c) \/ Waits(c) \/ Ends(c)
    BY <1>7, <2>5 DEF Reads, Waits, Ends, Active, Busy
  <2> QED BY <2>1, <2>2, <2>3, <2>4, <2>5 DEF Move
<1> QED BY <1>0, <1>5, <1>6, <1>7 DEF ProvenInv

(* A runtime that has proved an effect never sets out to record it as      *)
(* uncertain: by then it knows the intent, so it never takes the operation *)
(* for new, and it resumes none that it has proved.                        *)
THEOREM ProvenHolds == ASSUME ~Overlap PROVE Spec => []ProvenNeverDoubted
<1>1. Init => ProvenInv
  BY DEF Init, ProvenInv, Active, Busy
<1>2. SoloInv /\ ProvenInv /\ [Next]_vars => ProvenInv'
  <2> SUFFICES ASSUME SoloInv, ProvenInv, [Next]_vars PROVE ProvenInv'
    OBVIOUS
  <2>1. ASSUME NEW c \in Call, Move(c) PROVE ProvenInv'
    BY <2>1, ProvenMove
  <2>2. ASSUME NEW k \in {"planned", "withdrawn"}, NEW x, Records(k, x) PROVE ProvenInv'
    <3>1. UNCHANGED <<op, at, cur, proven, pc, goal>>
      BY <2>2 DEF Records, choice, local
    <3> QED BY <3>1 DEF ProvenInv, Active
  <2>3. CASE Restart
    <3>1. (\A h \in Host : proven'[h] = {}) /\ \A c \in Call : ~Active(c)'
      BY <2>3 DEF Restart, Active, Busy
    <3> QED BY <3>1 DEF ProvenInv
  <2>4. CASE UNCHANGED vars
    BY <2>4 DEF vars, choice, world, local, ProvenInv, Active
  <2> QED BY <2>1, <2>2, <2>3, <2>4, NextTick DEF Tick, SoloInv
<1>3. SoloInv /\ ProvenInv => ProvenNeverDoubted
  <2> SUFFICES ASSUME SoloInv, ProvenInv, NEW c \in Call, goal[c] = "uncertain"
               PROVE  op[c] \notin proven[at[c]]
    BY DEF ProvenNeverDoubted
  <2>1. Phase(c) /\ pc \in [Call -> Place]
    BY DEF SoloInv, PhaseInv, LocalsOK
  <2>2. Active(c) /\ pc[c] # "reading"
    BY <2>1 DEF Phase, Place, Active, Hosted
  <2> QED BY <2>2 DEF ProvenInv
<1> QED BY <1>1, <1>2, <1>3, Solo, PTL DEF Spec

=============================================================================
