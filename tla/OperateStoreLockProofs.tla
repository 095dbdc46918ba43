------------------------- MODULE OperateStoreLockProofs -------------------------
(***************************************************************************)
(* Proofs about OperateStoreLock, for any number of calls, whatever dies,  *)
(* throws or expires.                                                      *)
(*                                                                         *)
(* TypeInv bounds the attempts at RECOVERY whether or not calls overlap.   *)
(* When they run one at a time, AloneInv says at every step which of the   *)
(* two files are the call's own and what it has read of the one it         *)
(* reclaims: what another call left behind can be archived at once, or is  *)
(* a live record whose sync or close failed (Reclaimable).                 *)
(*                                                                         *)
(* When they overlap, Apart says what a call owns, as long as nobody       *)
(* archives RECOVERY between its creation and the writing of its record.   *)
(***************************************************************************)
EXTENDS OperateStoreLock, TLAPS

USE CallAssumption, SwitchAssumption

-----------------------------------------------------------------------------
(* Types; a call that is to create RECOVERY has an attempt left.           *)

TypeInv ==
  /\ TypeOK
  /\ \A c \in Call : at[c].step = "idle" => tries[c] = 0
  /\ \A c \in Call : at[c].step = "create" /\ at[c].file = "RECOVERY" => tries[c] < 2

LEMMA GotoType ==
  ASSUME TypeOK, NEW c \in Call, NEW s \in Step, NEW f \in Name, Goto(c, s, f)
  PROVE  /\ at' \in [Call -> [step : Step, file : Name]]
         /\ at'[c].step = s /\ at'[c].file = f
         /\ \A d \in Call \ {c} : at'[d] = at[d]
BY DEF Goto, At, TypeOK

(* Where a call may go, and what it remembers.                             *)
Goes(c) ==
  /\ \E s \in Step, f \in Name :
       /\ Goto(c, s, f)
       /\ s = "idle" => at[c].step = "idle"
       /\ s = "create" /\ f = "RECOVERY" =>
            (at[c].step = "idle" \/ tries[c] < 2) /\ tries' = tries
  /\ tries' = tries \/
     (at[c].step = "create" /\ tries' = [tries EXCEPT ![c] = Attempts(c, at[c].file)])

LEMMA GoesType ==
  ASSUME TypeInv, NEW c \in Call, Goes(c),
         file' \in [Name -> Call \union {NoCall}], wrote' \in [Name -> SUBSET Call],
         expired' = expired, alive' \in [Call -> BOOLEAN],
         task' \in [Call -> {"write", "clear"}],
         found' \in [Call -> Call \union {NoCall}],
         before' \in [Call -> Call \union {NoCall}],
         moved' \in [Call -> Call \union {NoCall}],
         ok' \in [Call -> BOOLEAN], broken' \in [Name -> SUBSET Call]
  PROVE  TypeInv'
<1>1. PICK s \in Step, f \in Name :
        /\ Goto(c, s, f)
        /\ s = "idle" => at[c].step = "idle"
        /\ s = "create" /\ f = "RECOVERY" =>
             (at[c].step = "idle" \/ tries[c] < 2) /\ tries' = tries
  BY DEF Goes
<1>2. /\ at' \in [Call -> [step : Step, file : Name]]
      /\ at'[c].step = s /\ at'[c].file = f
      /\ \A d \in Call \ {c} : at'[d] = at[d]
  BY <1>1, GotoType DEF TypeInv
<1>3. at[c].file \in Name /\ tries \in [Call -> 0 .. 2]
  BY DEF TypeInv, TypeOK
<1>4. /\ tries' \in [Call -> 0 .. 2]
      /\ \A d \in Call \ {c} : tries'[d] = tries[d]
      /\ at[c].step = "idle" => tries' = tries
  BY <1>3 DEF Goes, Attempts, TypeInv, Name
<1>5. TypeOK'
  BY <1>2, <1>4 DEF TypeInv, TypeOK
<1>6. \A d \in Call : at'[d].step = "idle" => tries'[d] = 0
  BY <1>1, <1>2, <1>4 DEF TypeInv
<1>7. \A d \in Call : at'[d].step = "create" /\ at'[d].file = "RECOVERY" => tries'[d] < 2
  BY <1>1, <1>2, <1>4 DEF TypeInv
<1> QED BY <1>5, <1>6, <1>7 DEF TypeInv

LEMMA ThrowGoes ==
  ASSUME TypeInv, NEW c \in Call, NEW f \in Name, Throw(c, f)
  PROVE  /\ \E s \in {"release", "failed"} : Goto(c, s, "RECOVERY")
         /\ f = "LOCK" => Goto(c, "release", "RECOVERY") /\ ok' = [ok EXCEPT ![c] = FALSE]
         /\ f = "RECOVERY" => Goto(c, "failed", f) /\ ok' = ok
         /\ ok' \in [Call -> BOOLEAN]
BY DEF Throw, Name, TypeInv, TypeOK

LEMMA Names == {"LOCK", "RECOVERY"} = Name /\ "LOCK" \in Name /\ "RECOVERY" \in Name
BY DEF Name

LEMMA Steps ==
  {"create", "write", "inspect", "snapshot", "move", "compare", "release", "unlink",
   "held", "done", "failed", "crashed", "idle"} = Step
BY DEF Step, Working

LEMMA TypeNext == TypeInv /\ [Next]_vars => TypeInv'
<1> SUFFICES ASSUME TypeInv, [Next]_vars PROVE TypeInv'
  OBVIOUS
<1> USE Names, Steps DEF local
<1>0. TypeOK
  BY DEF TypeInv
<1>1. ASSUME NEW c \in Call, Begin(c) PROVE TypeInv'
  <2>1. Goes(c)
    BY <1>1 DEF Begin, Goes
  <2>2. task' \in [Call -> {"write", "clear"}]
    BY <1>0, <1>1 DEF Begin, TypeOK
  <2> QED BY <1>0, <1>1, <2>1, <2>2, GoesType DEF Begin, TypeOK
<1>2. ASSUME NEW c \in Call, Create(c) PROVE TypeInv'
  <2>1. at[c].file \in Name /\ at[c].step = "create"
    BY <1>0, <1>2 DEF Create, TypeOK
  <2>2. /\ \E s \in {"write", "inspect", "release", "failed"}, f \in Name : Goto(c, s, f)
        /\ ok' \in [Call -> BOOLEAN]
    BY <1>0, <1>2, <2>1, ThrowGoes DEF Create, TypeOK
  <2>3. Goes(c)
    BY <1>2, <2>1, <2>2 DEF Create, Goes
  <2>4. file' \in [Name -> Call \union {NoCall}]
    BY <1>0, <1>2, <2>1 DEF Create, TypeOK
  <2> QED BY <1>0, <1>2, <2>2, <2>3, <2>4, GoesType DEF Create, TypeOK
<1>3. ASSUME NEW c \in Call, WriteRecord(c) PROVE TypeInv'
  <2>1. at[c].file \in Name
    BY <1>0 DEF TypeOK
  <2>2. Goes(c) /\ ok' \in [Call -> BOOLEAN]
    BY <1>0, <1>3, <2>1 DEF WriteRecord, Goes, TypeOK
  <2>3. wrote' \in [Name -> SUBSET Call]
    BY <1>0, <1>3, <2>1 DEF WriteRecord, TypeOK
  <2> QED BY <1>0, <1>3, <2>2, <2>3, GoesType DEF WriteRecord, TypeOK
<1>4. ASSUME NEW c \in Call, WriteFails(c) PROVE TypeInv'
  <2>1. at[c].file \in Name
    BY <1>0 DEF TypeOK
  <2>2. /\ \E s \in {"release", "failed"} : Goto(c, s, "RECOVERY")
        /\ ok' \in [Call -> BOOLEAN]
    BY <1>4, <2>1, ThrowGoes DEF WriteFails
  <2>3. Goes(c)
    BY <1>4, <2>2 DEF WriteFails, Goes
  <2>4. wrote' \in [Name -> SUBSET Call] /\ broken' \in [Name -> SUBSET Call]
    BY <1>0, <1>4, <2>1 DEF WriteFails, TypeOK
  <2> QED BY <1>0, <1>4, <2>2, <2>3, <2>4, GoesType DEF WriteFails, TypeOK
<1>5. ASSUME NEW c \in Call, Inspect(c) PROVE TypeInv'
  <2>1. at[c].file \in Name /\ Record(at[c].file, file[at[c].file]) \in Call \union {NoCall}
    BY <1>0 DEF TypeOK, Record
  <2>2. /\ ok' \in [Call -> BOOLEAN]
        /\ \E s \in {"snapshot", "create", "release", "failed"}, f \in Name :
             Goto(c, s, f) /\ (s = "create" => f = "LOCK")
    BY <1>0, <1>5, <2>1, ThrowGoes DEF Inspect, TypeOK
  <2>3. Goes(c)
    BY <1>5, <2>2 DEF Inspect, Goes
  <2>4. found' \in [Call -> Call \union {NoCall}]
    BY <1>0, <1>5, <2>1 DEF Inspect, TypeOK
  <2> QED BY <1>0, <1>5, <2>2, <2>3, <2>4, GoesType DEF Inspect, TypeOK
<1>6. ASSUME NEW c \in Call, Snapshot(c) PROVE TypeInv'
  <2>1. at[c].file \in Name /\ Record(at[c].file, file[at[c].file]) \in Call \union {NoCall}
    BY <1>0 DEF TypeOK, Record
  <2>2. /\ ok' \in [Call -> BOOLEAN]
        /\ \E s \in {"move", "release", "failed"}, f \in Name : Goto(c, s, f)
    BY <1>0, <1>6, <2>1, ThrowGoes DEF Snapshot, TypeOK
  <2>3. Goes(c)
    BY <1>6, <2>2 DEF Snapshot, Goes
  <2>4. before' \in [Call -> Call \union {NoCall}]
    BY <1>0, <1>6, <2>1 DEF Snapshot, TypeOK
  <2> QED BY <1>0, <1>6, <2>2, <2>3, <2>4, GoesType DEF Snapshot, TypeOK
<1>7. ASSUME NEW c \in Call, Move(c) PROVE TypeInv'
  <2>1. at[c].file \in Name /\ file[at[c].file] \in Call \union {NoCall}
    BY <1>0 DEF TypeOK
  <2>2. /\ ok' \in [Call -> BOOLEAN]
        /\ \E s \in {"compare", "release", "failed"}, f \in Name : Goto(c, s, f)
    BY <1>0, <1>7, <2>1, ThrowGoes DEF Move, TypeOK
  <2>3. Goes(c)
    BY <1>7, <2>2 DEF Move, Goes
  <2>4. file' \in [Name -> Call \union {NoCall}] /\ moved' \in [Call -> Call \union {NoCall}]
    BY <1>0, <1>7, <2>1 DEF Move, TypeOK
  <2> QED BY <1>0, <1>7, <2>2, <2>3, <2>4, GoesType DEF Move, TypeOK
<1>8. ASSUME NEW c \in Call, Compare(c) PROVE TypeInv'
  <2>1. at[c].file \in Name
    BY <1>0 DEF TypeOK
  <2>2. /\ ok' \in [Call -> BOOLEAN]
        /\ \E s \in {"create", "release", "failed"}, f \in Name :
             Goto(c, s, f) /\ (s = "create" /\ f = "RECOVERY" => tries[c] < 2)
    <3>1. CASE Throw(c, at[c].file)
      BY <2>1, <3>1, ThrowGoes
    <3>2. CASE ~Throw(c, at[c].file)
      <4>1. \/ Goto(c, "create", at[c].file) /\ ok' = ok
               /\ (at[c].file = "RECOVERY" => tries[c] < 2)
            \/ Goto(c, "release", "RECOVERY") /\ ok' = [ok EXCEPT ![c] = TRUE]
        <5>1. at[c].file \in {"LOCK", "RECOVERY"} /\ task[c] \in {"write", "clear"}
              /\ tries[c] \in Nat
          BY <1>0, <2>1 DEF TypeOK
        <5>2. CASE at[c].file = "RECOVERY"
          <6>1. tries[c] < 2 \/ tries[c] >= 2
            BY <5>1
          <6> QED BY <1>8, <3>2, <5>2, <6>1 DEF Compare
        <5>3. CASE at[c].file = "LOCK"
          BY <1>8, <3>2, <5>1, <5>3 DEF Compare
        <5> QED BY <5>1, <5>2, <5>3
      <4> QED BY <1>0, <2>1, <4>1 DEF TypeOK
    <3> QED BY <3>1, <3>2
  <2>3. Goes(c)
    BY <1>8, <2>2 DEF Compare, Goes
  <2> QED BY <1>0, <1>8, <2>2, <2>3, GoesType DEF Compare, TypeOK
<1>9. ASSUME NEW c \in Call, Release(c) \/ Unlink(c) \/ Finish(c) PROVE TypeInv'
  <2>1. at[c].file \in Name
    BY <1>0 DEF TypeOK
  <2>2. \E s \in {"held", "done", "failed", "unlink", "release"}, f \in Name : Goto(c, s, f)
    <3>1. CASE Released(c, at[c].file)
      BY <1>0, <2>1, <3>1 DEF Released, TypeOK
    <3>2. CASE ~Released(c, at[c].file)
      BY <1>9, <2>1, <3>2 DEF Release, Unlink, Finish
    <3> QED BY <3>1, <3>2
  <2>3. Goes(c)
    BY <1>9, <2>2 DEF Release, Unlink, Finish, Goes
  <2>4. file' \in [Name -> Call \union {NoCall}]
    BY <1>0, <1>9, <2>1 DEF Release, Unlink, Finish, TypeOK
  <2> QED BY <1>0, <1>9, <2>3, <2>4, GoesType DEF Release, Unlink, Finish, TypeOK
<1>10. ASSUME NEW c \in Call, Die(c) PROVE TypeInv'
  <2>1. alive' \in [Call -> BOOLEAN]
    BY <1>0, <1>10 DEF Die, TypeOK
  <2>2. CASE Active(c)
    <3>1. Goes(c)
      BY <1>0, <1>10, <2>2 DEF Die, Goes, TypeOK
    <3> QED BY <1>0, <1>10, <2>1, <3>1, GoesType DEF Die, TypeOK
  <2>3. CASE ~Active(c)
    BY <1>10, <2>1, <2>3 DEF Die, TypeInv, TypeOK
  <2> QED BY <2>2, <2>3
<1>11. ASSUME NEW c \in Call, NEW f \in Name, Expire(c, f) PROVE TypeInv'
  <2>1. expired' \in [Name -> SUBSET Call]
    BY <1>0, <1>11 DEF Expire, TypeOK
  <2> QED BY <1>11, <2>1 DEF Expire, TypeInv, TypeOK
<1>12. CASE UNCHANGED vars
  BY <1>12 DEF vars, TypeInv, TypeOK
<1> QED BY <1>1, <1>2, <1>3, <1>4, <1>5, <1>6, <1>7, <1>8, <1>9, <1>10, <1>11, <1>12
     DEF Next, Advance

LEMMA InitType == Init => TypeInv
BY DEF Init, TypeInv, TypeOK, At, Step, Working, Name

LEMMA Types == Spec => []TypeInv
BY InitType, TypeNext, PTL DEF Spec

(* The type invariant, with at most two attempts at RECOVERY, for any      *)
(* number of calls, overlapping or one at a time.                          *)
THEOREM TypeCorrect == Spec => []TypeOK
<1>1. TypeInv => TypeOK
  BY DEF TypeInv
<1> QED BY <1>1, Types, PTL

-----------------------------------------------------------------------------
(* Calls that run one at a time.                                           *)

Holds(f, c) == file[f] = c /\ c \in wrote[f]
Fresh(c) == \A f \in Name : file[f] # c /\ c \notin wrote[f]
Served(c) == ok[c] /\ task[c] = "write"

Reclaiming == {"create", "inspect", "snapshot", "move", "compare"}

Files(c) ==
  LET s == at[c].step
      f == at[c].file
  IN
  /\ s = "idle" \/ (s \in Reclaiming /\ f = "RECOVERY") => Fresh(c)
  /\ s = "write" /\ f = "RECOVERY" => file[f] = c /\ c \notin wrote[f]
  /\ s \in Reclaiming \union {"write"} /\ f = "LOCK" => Holds("RECOVERY", c)
  /\ s \in Reclaiming /\ f = "LOCK" => file[f] # c
  /\ s = "write" /\ f = "RECOVERY" => file["LOCK"] # c
  /\ s \in Reclaiming \union {"write"} => c \notin wrote["LOCK"]
  /\ s = "write" /\ f = "LOCK" => file[f] = c
  /\ s \in {"release", "unlink"} /\ f = "RECOVERY" =>
       /\ Holds(f, c)
       /\ Served(c) => Holds("LOCK", c)
       /\ Holds("LOCK", c) => Served(c) \/ c \in broken["LOCK"]
  /\ s = "held" \/ (s \in {"release", "unlink"} /\ f = "LOCK") =>
       Holds("LOCK", c) /\ ~Holds("RECOVERY", c)
  /\ s \in {"done", "failed"} =>
       /\ Holds("LOCK", c) => c \in broken["LOCK"]
       /\ Holds("RECOVERY", c) => c \in broken["RECOVERY"]

Progress(c) ==
  LET s == at[c].step
      f == at[c].file
  IN
  /\ s \in {"create", "write"} /\ f = "LOCK" => task[c] = "write"
  /\ s = "create" /\ f = "RECOVERY" => tries[c] = 0 \/ file[f] = NoCall
  /\ s \in Reclaiming \ {"create"} /\ f = "RECOVERY" => tries[c] < 2
  /\ s \in {"snapshot", "move"} \/ (s = "inspect" /\ f = "RECOVERY") => file[f] # NoCall
  /\ s = "compare" \/ (s = "create" /\ f = "LOCK") => file[f] = NoCall
  /\ s \in {"snapshot", "move"} => found[c] = Record(f, file[f])
  /\ s = "move" => before[c] = found[c]
  /\ s = "compare" => before[c] = found[c] /\ found[c] = Record(f, moved[c])

AloneInv ==
  Serialized =>
    /\ \A c, d \in Call : Active(c) /\ Active(d) => c = d
    /\ \A c \in Call : Active(c) => alive[c]
    /\ \A c \in Call : at[c].step = "crashed" => ~alive[c]
    /\ \A c \in Call : Files(c) /\ Progress(c)

(* A file of another call can be reclaimed at once, or it is the live      *)
(* record of a call that could not sync or close it.                       *)
LEMMA Reclaimable ==
  ASSUME TypeOK, Serialized, AloneInv, NEW c \in Call, Active(c), NEW f \in Name,
         file[f] # NoCall, file[f] # c
  PROVE  Abandoned(f) \/ (Status(f) = "live" /\ file[f] \in broken[f])
<1> DEFINE o == file[f]
<1>1. o \in Call /\ ~Active(o) /\ at[o].step \in Step /\ Files(o)
  BY DEF TypeOK, AloneInv
<1>2. at[o].step # "idle"
  BY <1>1 DEF Files, Fresh
<1>3. CASE at[o].step \in {"done", "failed"} /\ o \notin wrote[f]
  BY <1>1, <1>3 DEF Abandoned, Status, Record
<1>4. CASE at[o].step \in {"done", "failed"} /\ o \in wrote[f]
  <2>1. o \in broken[f]
    BY <1>1, <1>4 DEF Files, Holds, Name
  <2>2. Status(f) \in {"stale", "live"}
    BY <1>1, <1>4 DEF Status, Record
  <2> QED BY <2>1, <2>2 DEF Abandoned
<1>5. CASE at[o].step = "crashed"
  <2>1. ~alive[o]
    BY <1>1, <1>5 DEF AloneInv
  <2> QED BY <1>1, <2>1 DEF Abandoned, Status, Record
<1> QED BY <1>1, <1>2, <1>3, <1>4, <1>5 DEF Step, Active

(* A call at rest keeps what AloneInv says of it while another one works.  *)
LEMMA AtRest ==
  ASSUME TypeOK, Serialized, AloneInv, NEW c \in Call, NEW d \in Call, d # c, ~Active(d),
         UNCHANGED <<at[d], task[d]>>,
         \A f \in Name : file'[f] \in {file[f], NoCall, c} /\ wrote'[f] \subseteq wrote[f] \union {c},
         \A f \in Name : broken[f] \subseteq broken'[f]
  PROVE  Files(d)' /\ Progress(d)'
<1>1. at[d].step \in {"idle", "done", "failed", "crashed"} /\ Files(d) /\ Progress(d)
  BY DEF TypeOK, AloneInv, Active, Step
<1>2. \A f \in Name : Holds(f, d)' => Holds(f, d)
  BY DEF Holds
<1>3. Fresh(d) => Fresh(d)'
  BY DEF Fresh
<1>4. Files(d)'
  BY <1>1, <1>2, <1>3 DEF Files, Reclaiming, Name
<1>5. Progress(d)'
  BY <1>1 DEF Progress, Reclaiming
<1> QED BY <1>4, <1>5

(* A step of a working call: the others rest.                              *)
LEMMA OneWorks ==
  ASSUME TypeOK, Serialized, AloneInv, NEW c \in Call, Active(c), alive' = alive,
         \E s \in Step \ {"crashed"}, f \in Name : Goto(c, s, f), task' = task,
         \A f \in Name : file'[f] \in {file[f], NoCall, c} /\ wrote'[f] \subseteq wrote[f] \union {c},
         \A f \in Name : broken[f] \subseteq broken'[f], Files(c)', Progress(c)'
  PROVE  AloneInv'
<1>1. /\ \A d \in Call \ {c} : at'[d] = at[d]
      /\ at'[c].step # "crashed"
  BY DEF Goto, At, TypeOK
<1>2. \A d \in Call \ {c} : ~Active(d) /\ ~Active(d)'
  BY <1>1 DEF AloneInv, Active
<1>3. \A d \in Call \ {c} : Files(d)' /\ Progress(d)'
  BY <1>1, <1>2, AtRest
<1>4. alive[c]
  BY DEF AloneInv
<1> QED BY <1>1, <1>2, <1>3, <1>4 DEF AloneInv

LEMMA GotoAt ==
  ASSUME TypeOK, NEW c \in Call, NEW s, NEW f, Goto(c, s, f)
  PROVE  at'[c].step = s /\ at'[c].file = f
BY DEF Goto, At, TypeOK

(* A throw while LOCK is being reclaimed lets RECOVERY go.                 *)
LEMMA ThrowKeeps ==
  ASSUME TypeOK, Serialized, AloneInv, NEW c \in Call,
         at[c].step \in Reclaiming \union {"write"}, at[c].file = "LOCK",
         Throw(c, "LOCK"), file' = file, task' = task,
         wrote'["RECOVERY"] = wrote["RECOVERY"],
         c \in wrote'["LOCK"] => c \in wrote["LOCK"] \/ c \in broken'["LOCK"]
  PROVE  Files(c)' /\ Progress(c)'
<1>1. /\ at'[c].step = "release" /\ at'[c].file = "RECOVERY" /\ ok'[c] = FALSE
  BY GotoAt DEF Throw, TypeOK
<1>2. Files(c)
  BY DEF AloneInv
<1>3. Holds("RECOVERY", c) /\ c \notin wrote["LOCK"]
  BY <1>2 DEF Files
<1>4. Files(c)'
  BY <1>1, <1>3 DEF Files, Holds, Served, Reclaiming
<1>5. Progress(c)'
  BY <1>1 DEF Progress, Reclaiming
<1> QED BY <1>4, <1>5

LEMMA CreateKeeps ==
  ASSUME TypeInv, Serialized, AloneInv, NEW c \in Call, Create(c)
  PROVE  Files(c)' /\ Progress(c)'
<1>0. /\ TypeOK /\ Files(c) /\ Progress(c) /\ at[c].step = "create" /\ at[c].file \in Name
      /\ UNCHANGED <<wrote, task, found, before, moved, broken>>
      /\ tries' = [tries EXCEPT ![c] = Attempts(c, at[c].file)]
  BY DEF Create, AloneInv, TypeInv, TypeOK
<1>1. CASE at[c].file = "RECOVERY" /\ file["RECOVERY"] = NoCall
  <2>1. /\ file' = [file EXCEPT !["RECOVERY"] = c]
        /\ at'[c].step = "write" /\ at'[c].file = "RECOVERY"
    BY <1>0, <1>1, GotoAt DEF Create
  <2>2. Fresh(c)
    BY <1>0, <1>1 DEF Files, Reclaiming
  <2>3. Files(c)'
    BY <1>0, <2>1, <2>2 DEF Files, Fresh, Reclaiming, Name, TypeOK
  <2> QED BY <2>1, <2>3 DEF Progress, Reclaiming
<1>2. CASE at[c].file = "RECOVERY" /\ file["RECOVERY"] # NoCall
  <2>1. /\ file' = file /\ at'[c].step = "inspect" /\ at'[c].file = "RECOVERY"
    BY <1>0, <1>2, GotoAt DEF Create
  <2>2. Fresh(c) /\ tries'[c] = 1
    BY <1>0, <1>2 DEF Files, Progress, Reclaiming, Attempts, TypeOK
  <2>3. Files(c)'
    BY <1>0, <2>1, <2>2 DEF Files, Fresh, Reclaiming
  <2> QED BY <1>2, <2>1, <2>2, <2>3 DEF Progress, Reclaiming
<1>3. CASE at[c].file = "LOCK"
  <2>1. file["LOCK"] = NoCall
    BY <1>0, <1>3 DEF Progress
  <2>2. /\ file' = [file EXCEPT !["LOCK"] = c]
        /\ at'[c].step = "write" /\ at'[c].file = "LOCK"
    BY <1>0, <1>3, <2>1, GotoAt DEF Create
  <2>3. Holds("RECOVERY", c) /\ c \notin wrote["LOCK"] /\ task[c] = "write"
    BY <1>0, <1>3 DEF Files, Progress, Reclaiming
  <2>4. Files(c)'
    BY <1>0, <2>2, <2>3 DEF Files, Holds, Reclaiming, Name, TypeOK
  <2> QED BY <1>0, <2>2, <2>3, <2>4 DEF Progress, Reclaiming
<1> QED BY <1>0, <1>1, <1>2, <1>3 DEF Name

LEMMA WriteKeeps ==
  ASSUME TypeInv, Serialized, AloneInv, NEW c \in Call, WriteRecord(c)
  PROVE  Files(c)' /\ Progress(c)'
<1>0. /\ TypeOK /\ Files(c) /\ Progress(c) /\ at[c].step = "write" /\ at[c].file \in Name
      /\ UNCHANGED <<file, task, tries, found, before, moved, broken>>
      /\ wrote' = [wrote EXCEPT ![at[c].file] = @ \union {c}]
      /\ wrote \in [Name -> SUBSET Call] /\ ok \in [Call -> BOOLEAN]
  BY DEF WriteRecord, AloneInv, TypeInv, TypeOK
<1>1. CASE at[c].file = "RECOVERY"
  <2>1. at'[c].step = "inspect" /\ at'[c].file = "LOCK"
    BY <1>0, <1>1, GotoAt DEF WriteRecord
  <2>2. file["RECOVERY"] = c /\ file["LOCK"] # c /\ c \notin wrote["LOCK"]
    BY <1>0, <1>1 DEF Files
  <2>3. c \in wrote'["RECOVERY"] /\ wrote'["LOCK"] = wrote["LOCK"]
    BY <1>0, <1>1 DEF Name
  <2>4. Files(c)'
    BY <1>0, <2>1, <2>2, <2>3 DEF Files, Holds, Reclaiming
  <2> QED BY <2>1, <2>4 DEF Progress, Reclaiming
<1>2. CASE at[c].file = "LOCK"
  <2>1. at'[c].step = "release" /\ at'[c].file = "RECOVERY" /\ ok'[c] = TRUE
    BY <1>0, <1>2, GotoAt DEF WriteRecord
  <2>2. Holds("RECOVERY", c) /\ file["LOCK"] = c /\ task[c] = "write"
    BY <1>0, <1>2 DEF Files, Progress
  <2>3. c \in wrote'["LOCK"] /\ wrote'["RECOVERY"] = wrote["RECOVERY"]
    BY <1>0, <1>2 DEF Name
  <2>4. Files(c)'
    BY <1>0, <2>1, <2>2, <2>3 DEF Files, Holds, Served, Reclaiming
  <2> QED BY <2>1, <2>4 DEF Progress, Reclaiming
<1> QED BY <1>0, <1>1, <1>2 DEF Name

LEMMA WriteFailsKeeps ==
  ASSUME TypeInv, Serialized, AloneInv, NEW c \in Call, WriteFails(c)
  PROVE  Files(c)' /\ Progress(c)'
<1>0. /\ TypeOK /\ Files(c) /\ at[c].step = "write" /\ at[c].file \in Name
      /\ UNCHANGED <<file, task>> /\ Throw(c, at[c].file)
      /\ c \in broken'[at[c].file]
      /\ \A g \in Name : g # at[c].file => wrote'[g] = wrote[g]
  BY DEF WriteFails, AloneInv, TypeInv, TypeOK
<1>1. CASE at[c].file = "RECOVERY"
  <2>1. at'[c].step = "failed"
    BY <1>0, <1>1, GotoAt DEF Throw
  <2>2. file["LOCK"] # c /\ c \in broken'["RECOVERY"]
    BY <1>0, <1>1 DEF Files
  <2>3. Files(c)'
    BY <1>0, <2>1, <2>2 DEF Files, Holds, Reclaiming
  <2> QED BY <1>0, <2>1, <2>3 DEF Progress, Reclaiming
<1>2. CASE at[c].file = "LOCK"
  <2>1. wrote'["RECOVERY"] = wrote["RECOVERY"] /\ c \in broken'["LOCK"]
    BY <1>0, <1>2 DEF Name
  <2> QED BY <1>0, <1>2, <2>1, ThrowKeeps
<1> QED BY <1>0, <1>1, <1>2 DEF Name

LEMMA InspectKeeps ==
  ASSUME TypeInv, Serialized, AloneInv, NEW c \in Call, Inspect(c)
  PROVE  Files(c)' /\ Progress(c)'
<1>0. /\ TypeOK /\ Files(c) /\ Progress(c) /\ at[c].step = "inspect" /\ at[c].file \in Name
      /\ UNCHANGED <<file, wrote, task, tries, before, moved, broken>> /\ Active(c)
  BY DEF Inspect, AloneInv, TypeInv, TypeOK, Active, Working
<1>1. file[at[c].file] # c
  BY <1>0 DEF Files, Fresh, Reclaiming, Name
<1>2. CASE file[at[c].file] # NoCall /\ Abandoned(at[c].file)
  <2>1. Abandoned(at[c].file)
    BY <1>2
  <2>2. /\ found' = [found EXCEPT ![c] = Record(at[c].file, file[at[c].file])]
        /\ at'[c].step = "snapshot" /\ at'[c].file = at[c].file
    BY <1>0, <2>1, GotoAt DEF Inspect
  <2>3. found'[c] = Record(at[c].file, file[at[c].file])
    BY <1>0, <2>2 DEF TypeOK
  <2>4. Files(c)'
    BY <1>0, <2>2 DEF Files, Fresh, Holds, Reclaiming
  <2>5. Progress(c)'
    BY <1>0, <1>2, <2>2, <2>3 DEF Progress, Record, Reclaiming
  <2> QED BY <2>4, <2>5
<1>3. CASE file[at[c].file] = NoCall
  <2>1. at[c].file = "LOCK"
    BY <1>0, <1>3 DEF Progress, Name
  <2>2. Status("LOCK") = "absent" /\ ~Abandoned("LOCK")
    BY <1>3, <2>1 DEF Status, Abandoned
  <2>3. CASE task[c] = "write"
    <3>1. at'[c].step = "create" /\ at'[c].file = "LOCK"
      BY <1>0, <2>1, <2>2, <2>3, GotoAt DEF Inspect
    <3>2. Files(c)'
      BY <1>0, <2>1, <3>1 DEF Files, Holds, Reclaiming
    <3>3. Progress(c)'
      BY <1>0, <1>3, <2>1, <2>3, <3>1 DEF Progress, Reclaiming
    <3> QED BY <3>2, <3>3
  <2>4. CASE task[c] # "write"
    <3>1. Throw(c, "LOCK")
      BY <1>0, <2>1, <2>2, <2>4 DEF Inspect
    <3> QED BY <1>0, <2>1, <2>4, <3>1, ThrowKeeps DEF Reclaiming
  <2> QED BY <2>3, <2>4
<1>4. CASE file[at[c].file] # NoCall /\ ~Abandoned(at[c].file)
  <2>1. Throw(c, at[c].file)
    BY <1>4 DEF Inspect, Status
  <2>2. CASE at[c].file = "LOCK"
    BY <1>0, <2>1, <2>2, ThrowKeeps DEF Reclaiming
  <2>3. CASE at[c].file = "RECOVERY"
    <3>1. at'[c].step = "failed" /\ at'[c].file = "RECOVERY"
      BY <1>0, <2>1, <2>3, GotoAt DEF Throw
    <3>2. Files(c)'
      BY <1>0, <2>3, <3>1 DEF Files, Fresh, Holds, Reclaiming, Name
    <3> QED BY <1>0, <3>1, <3>2 DEF Progress, Reclaiming
  <2> QED BY <1>0, <2>2, <2>3 DEF Name
<1> QED BY <1>2, <1>3, <1>4

LEMMA SnapshotKeeps ==
  ASSUME TypeInv, Serialized, AloneInv, NEW c \in Call, Snapshot(c) \/ Move(c)
  PROVE  Files(c)' /\ Progress(c)'
<1> DEFINE f == at[c].file
<1>0. /\ TypeOK /\ Files(c) /\ Progress(c) /\ at[c].step \in {"snapshot", "move"} /\ f \in Name
      /\ file[f] # NoCall /\ found[c] = Record(f, file[f])
      /\ UNCHANGED <<wrote, task, tries, found, broken>>
  BY DEF Snapshot, Move, AloneInv, TypeInv, TypeOK, Progress
<1>1. CASE Snapshot(c)
  <2>1. /\ before' = [before EXCEPT ![c] = Record(f, file[f])] /\ UNCHANGED <<file, moved>>
        /\ at'[c].step = "move" /\ at'[c].file = f /\ at[c].step = "snapshot"
    BY <1>0, <1>1, GotoAt DEF Snapshot
  <2>2. before'[c] = Record(f, file[f])
    BY <1>0, <2>1 DEF TypeOK
  <2>3. Files(c)'
    BY <1>0, <2>1 DEF Files, Fresh, Holds, Reclaiming
  <2>4. Progress(c)'
    BY <1>0, <2>1, <2>2 DEF Progress, Record, Reclaiming
  <2> QED BY <2>3, <2>4
<1>2. CASE Move(c)
  <2>1. /\ moved' = [moved EXCEPT ![c] = file[f]] /\ file' = [file EXCEPT ![f] = NoCall]
        /\ at'[c].step = "compare" /\ at'[c].file = f /\ before' = before
        /\ at[c].step = "move"
    BY <1>0, <1>2, GotoAt DEF Move
  <2>2. moved'[c] = file[f] /\ before[c] = found[c]
    BY <1>0, <2>1 DEF TypeOK, Progress
  <2>3. /\ file'[f] = NoCall /\ \A g \in Name : file'[g] \in {file[g], NoCall}
        /\ \A g \in Name : g # f => file'[g] = file[g]
    BY <1>0, <2>1 DEF TypeOK
  <2>4. CASE f = "RECOVERY"
    <3>1. Fresh(c)
      BY <1>0, <2>1, <2>4 DEF Files, Reclaiming
    <3>2. Fresh(c)'
      BY <1>0, <2>3, <3>1 DEF Fresh
    <3>3. Files(c)'
      BY <1>0, <2>1, <2>4, <3>2 DEF Files, Fresh, Reclaiming, Name
    <3>4. Progress(c)'
      BY <1>0, <2>1, <2>2, <2>3, <2>4 DEF Progress, Record, Reclaiming
    <3> QED BY <3>3, <3>4
  <2>5. CASE f = "LOCK"
    <3>1. Holds("RECOVERY", c) /\ c \notin wrote["LOCK"]
      BY <1>0, <2>1, <2>5 DEF Files, Reclaiming
    <3>2. Files(c)'
      BY <1>0, <2>1, <2>3, <2>5, <3>1 DEF Files, Holds, Reclaiming, Name
    <3>3. Progress(c)'
      BY <1>0, <2>1, <2>2, <2>3, <2>5 DEF Progress, Record, Reclaiming
    <3> QED BY <3>2, <3>3
  <2> QED BY <1>0, <2>4, <2>5 DEF Name
<1> QED BY <1>1, <1>2

LEMMA CompareKeeps ==
  ASSUME TypeInv, Serialized, AloneInv, NEW c \in Call, Compare(c)
  PROVE  Files(c)' /\ Progress(c)'
<1> DEFINE f == at[c].file
<1>0. /\ TypeOK /\ Files(c) /\ Progress(c) /\ at[c].step = "compare" /\ f \in Name
      /\ UNCHANGED <<file, wrote, task, tries, found, before, moved, broken>>
      /\ task[c] \in {"write", "clear"} /\ ok \in [Call -> BOOLEAN]
  BY DEF Compare, AloneInv, TypeInv, TypeOK
<1>1. Record(f, moved[c]) = before[c] /\ Record(f, moved[c]) = found[c] /\ file[f] = NoCall
  BY <1>0 DEF Progress
<1>2. CASE f = "RECOVERY"
  <2>1. tries[c] < 2 /\ Fresh(c)
    BY <1>0, <1>2 DEF Progress, Files, Reclaiming
  <2>2. Goto(c, "create", "RECOVERY")
    <3>1. tries[c] < 2 /\ ~(tries[c] >= 2)
      BY <1>0, <2>1 DEF TypeOK
    <3> QED BY <1>1, <1>2, <3>1, Zenon DEF Compare
  <2>3. at'[c].step = "create" /\ at'[c].file = "RECOVERY"
    BY <1>0, <2>2, GotoAt
  <2>4. Files(c)'
    BY <1>0, <2>1, <2>3 DEF Files, Fresh, Reclaiming, Name
  <2> QED BY <1>0, <1>1, <1>2, <2>3, <2>4 DEF Progress, Reclaiming
<1>3. CASE f = "LOCK" /\ task[c] = "write"
  <2>1. Goto(c, "create", "LOCK")
    BY <1>1, <1>3 DEF Compare
  <2>2. at'[c].step = "create" /\ at'[c].file = "LOCK"
    BY <1>0, <2>1, GotoAt
  <2>3. Files(c)'
    BY <1>0, <1>3, <2>2 DEF Files, Holds, Reclaiming
  <2> QED BY <1>0, <1>1, <1>3, <2>2, <2>3 DEF Progress, Reclaiming
<1>4. CASE f = "LOCK" /\ task[c] = "clear"
  <2>1. Goto(c, "release", "RECOVERY") /\ ok' = [ok EXCEPT ![c] = TRUE]
    BY <1>1, <1>4 DEF Compare
  <2>2. at'[c].step = "release" /\ at'[c].file = "RECOVERY"
    BY <1>0, <2>1, GotoAt
  <2>3. Holds("RECOVERY", c) /\ c \notin wrote["LOCK"]
    BY <1>0, <1>4 DEF Files, Reclaiming
  <2>4. Files(c)'
    BY <1>0, <1>4, <2>2, <2>3 DEF Files, Holds, Served, Reclaiming
  <2> QED BY <1>0, <1>4, <2>2, <2>4 DEF Progress, Reclaiming
<1> QED BY <1>0, <1>2, <1>3, <1>4 DEF Name

LEMMA ReleaseKeeps ==
  ASSUME TypeInv, Serialized, AloneInv, NEW c \in Call, Release(c) \/ Unlink(c) \/ Finish(c)
  PROVE  Files(c)' /\ Progress(c)'
<1> USE DEF local
<1> DEFINE f == at[c].file
<1>0. /\ TypeOK /\ Files(c) /\ Progress(c) /\ f \in Name
      /\ UNCHANGED <<wrote, task, tries, found, before, moved, ok, broken>>
      /\ ok[c] \in BOOLEAN /\ task[c] \in {"write", "clear"}
  BY DEF Release, Unlink, Finish, AloneInv, TypeInv, TypeOK
<1>1. CASE Finish(c)
  <2>1. file' = file /\ at'[c].step = "release" /\ at'[c].file = "LOCK" /\ at[c].step = "held"
    BY <1>0, <1>1, GotoAt DEF Finish
  <2>2. Files(c)'
    BY <1>0, <2>1 DEF Files, Holds, Reclaiming
  <2> QED BY <2>1, <2>2 DEF Progress, Reclaiming
<1>2. CASE Release(c)
  <2>1. file' = file /\ at[c].step = "release"
    BY <1>2 DEF Release
  <2>2. file[f] = c /\ Record(f, file[f]) = c /\ c # NoCall
    BY <1>0, <2>1 DEF Files, Holds, Record, Name
  <2>3. Goto(c, "unlink", f)
    BY <1>2, <2>2 DEF Release
  <2>4. at'[c].step = "unlink" /\ at'[c].file = f
    BY <1>0, <2>3, GotoAt
  <2>5. Files(c)'
    BY <1>0, <2>1, <2>4 DEF Files, Holds, Served, Reclaiming
  <2> QED BY <1>0, <2>1, <2>4, <2>5 DEF Progress, Reclaiming
<1>3. CASE Unlink(c)
  <2>1. at[c].step = "unlink" /\ file' = [file EXCEPT ![f] = NoCall] /\ Released(c, f)
    BY <1>3 DEF Unlink
  <2>2. file'[f] = NoCall /\ \A g \in Name : g # f => file'[g] = file[g]
    BY <1>0, <2>1 DEF TypeOK
  <2>3. CASE f = "LOCK"
    <3>1. at'[c].step = "done" /\ at'[c].file = "LOCK"
      BY <1>0, <2>1, <2>3, GotoAt DEF Released
    <3>2. Files(c)'
      BY <1>0, <2>1, <2>2, <2>3, <3>1 DEF Files, Holds, Reclaiming, Name
    <3> QED BY <3>1, <3>2 DEF Progress, Reclaiming
  <2>4. CASE f = "RECOVERY" /\ ~ok[c]
    <3>1. at'[c].step = "failed"
      BY <1>0, <2>1, <2>4, GotoAt DEF Released
    <3>2. Holds("LOCK", c) => c \in broken["LOCK"]
      BY <1>0, <2>1, <2>4 DEF Files, Served
    <3>3. Files(c)'
      BY <1>0, <2>1, <2>2, <2>4, <3>1, <3>2 DEF Files, Holds, Reclaiming, Name
    <3> QED BY <1>0, <2>1, <2>4, <3>1, <3>3 DEF Progress, Reclaiming
  <2>5. CASE f = "RECOVERY" /\ ok[c] /\ task[c] = "write"
    <3>1. at'[c].step = "held"
      BY <1>0, <2>1, <2>5, GotoAt DEF Released
    <3>2. Holds("LOCK", c)
      BY <1>0, <2>1, <2>5 DEF Files, Served
    <3>3. Files(c)'
      BY <1>0, <2>1, <2>2, <2>5, <3>1, <3>2 DEF Files, Holds, Reclaiming, Name
    <3> QED BY <3>1, <3>3 DEF Progress, Reclaiming
  <2>6. CASE f = "RECOVERY" /\ ok[c] /\ task[c] = "clear"
    <3>1. at'[c].step = "done"
      BY <1>0, <2>1, <2>6, GotoAt DEF Released
    <3>2. Holds("LOCK", c) => c \in broken["LOCK"]
      BY <1>0, <2>1, <2>6 DEF Files, Served
    <3>3. Files(c)'
      BY <1>0, <2>1, <2>2, <2>6, <3>1, <3>2 DEF Files, Holds, Reclaiming, Name
    <3> QED BY <3>1, <3>3 DEF Progress, Reclaiming
  <2> QED BY <1>0, <2>3, <2>4, <2>5, <2>6 DEF Name
<1> QED BY <1>1, <1>2, <1>3


LEMMA AloneNext == TypeInv /\ AloneInv /\ [Next]_vars => AloneInv'
<1> SUFFICES ASSUME TypeInv, AloneInv, [Next]_vars, Serialized PROVE AloneInv'
  BY DEF AloneInv
<1> USE Names, Steps DEF local
<1>0. TypeOK
  BY DEF TypeInv
<1>1. ASSUME NEW c \in Call, Begin(c) PROVE AloneInv'
  <2>1. /\ at[c].step = "idle" /\ alive[c] /\ \A d \in Call : ~Active(d)
        /\ at'[c].step = "create" /\ at'[c].file = "RECOVERY"
        /\ \A d \in Call \ {c} : at'[d] = at[d] /\ task'[d] = task[d]
        /\ UNCHANGED <<file, wrote, expired, alive, tries, found, before, moved, ok, broken>>
    <3>1. /\ at[c].step = "idle" /\ alive[c] /\ \A d \in Call : ~Active(d)
          /\ UNCHANGED <<file, wrote, expired, alive, tries, found, before, moved, ok, broken>>
      BY <1>1 DEF Begin
    <3>2. at \in [Call -> [step : Step, file : Name]]
          /\ task \in [Call -> {"write", "clear"}]
      BY <1>0 DEF TypeOK
    <3>3. Goto(c, "create", "RECOVERY")
      BY <1>1 DEF Begin
    <3>4. /\ at'[c].step = "create" /\ at'[c].file = "RECOVERY"
          /\ \A d \in Call \ {c} : at'[d] = at[d]
      BY <3>2, <3>3 DEF Goto, At
    <3>5. \A d \in Call \ {c} : task'[d] = task[d]
      BY <1>1, <3>2 DEF Begin
    <3> QED BY <3>1, <3>4, <3>5
  <2>2. tries[c] = 0 /\ Fresh(c)
    BY <2>1 DEF TypeInv, AloneInv, Files
  <2>3. Files(c)'
    BY <2>1, <2>2 DEF Files, Fresh, Reclaiming
  <2>4. Progress(c)'
    BY <2>1, <2>2 DEF Progress, Reclaiming
  <2>5. \A d \in Call \ {c} : Files(d)' /\ Progress(d)' /\ ~Active(d)'
    <3> TAKE d \in Call \ {c}
    <3>1. /\ ~Active(d) /\ UNCHANGED <<at[d], task[d]>>
          /\ \A f \in Name : file'[f] \in {file[f], NoCall, c}
                             /\ wrote'[f] \subseteq wrote[f] \union {c}
          /\ \A f \in Name : broken[f] \subseteq broken'[f]
      BY <2>1
    <3> QED BY <1>0, <3>1, AtRest DEF Active
  <2> QED BY <2>1, <2>3, <2>4, <2>5 DEF AloneInv
<1>2. ASSUME NEW c \in Call, Advance(c) PROVE AloneInv'
  <2>1. /\ Active(c) /\ alive' = alive /\ task' = task
    BY <1>2 DEF Advance, Create, WriteRecord, WriteFails, Inspect, Snapshot, Move, Compare,
       Release, Unlink, Finish, Active, Working
  <2>2. at[c].file \in Name /\ file \in [Name -> Call \union {NoCall}]
        /\ wrote \in [Name -> SUBSET Call] /\ broken \in [Name -> SUBSET Call]
    BY <1>0 DEF TypeOK
  <2>3. \A f \in Name : file'[f] \in {file[f], NoCall, c}
    BY <1>2, <2>2 DEF Advance, Create, WriteRecord, WriteFails, Inspect, Snapshot, Move,
       Compare, Release, Unlink, Finish
  <2>4. \A f \in Name : wrote'[f] \subseteq wrote[f] \union {c}
    BY <1>2, <2>2 DEF Advance, Create, WriteRecord, WriteFails, Inspect, Snapshot, Move,
       Compare, Release, Unlink, Finish
  <2>7. \A f \in Name : broken[f] \subseteq broken'[f]
    BY <1>2, <2>2 DEF Advance, Create, WriteRecord, WriteFails, Inspect, Snapshot, Move,
       Compare, Release, Unlink, Finish
  <2>5. \E s \in Step \ {"crashed"}, f \in Name : Goto(c, s, f)
    <3>1. CASE Throw(c, at[c].file)
      BY <2>2, <3>1 DEF Throw
    <3>2. CASE Released(c, at[c].file)
      BY <1>0, <2>2, <3>2 DEF Released, TypeOK
    <3>3. CASE Create(c) \/ WriteRecord(c) \/ WriteFails(c) \/ Inspect(c) \/ Snapshot(c)
      BY <2>2, <3>1, <3>3 DEF Create, WriteRecord, WriteFails, Inspect, Snapshot
    <3>4. CASE Move(c) \/ Release(c) \/ Unlink(c) \/ Finish(c)
      BY <2>2, <3>1, <3>2, <3>4 DEF Move, Release, Unlink, Finish
    <3>5. CASE Compare(c)
      <4>1. /\ at[c].file \in {"LOCK", "RECOVERY"} /\ task[c] \in {"write", "clear"}
            /\ tries[c] < 2 \/ tries[c] >= 2
        <5>1. tries[c] \in 0 .. 2
          BY <1>0 DEF TypeOK
        <5>2. at[c].file \in {"LOCK", "RECOVERY"} /\ task[c] \in {"write", "clear"}
          BY <1>0 DEF TypeOK
        <5> QED BY <5>1, <5>2
      <4>2. \/ Throw(c, at[c].file) \/ Goto(c, "create", at[c].file)
            \/ Goto(c, "release", "RECOVERY")
        BY <3>5, <4>1, Zenon DEF Compare
      <4> QED BY <2>2, <3>1, <4>2
    <3> QED BY <1>2, <3>3, <3>4, <3>5 DEF Advance
  <2>6. Files(c)' /\ Progress(c)'
    BY <1>2, CreateKeeps, WriteKeeps, WriteFailsKeeps, InspectKeeps, SnapshotKeeps,
       CompareKeeps, ReleaseKeeps DEF Advance
  <2> QED BY <1>0, <2>1, <2>3, <2>4, <2>5, <2>6, <2>7, OneWorks
<1>3. ASSUME NEW c \in Call, Die(c) PROVE AloneInv'
  <2>1. /\ UNCHANGED <<file, wrote, expired, task, tries, found, before, moved, ok, broken>>
        /\ \A d \in Call \ {c} : at'[d] = at[d] /\ alive'[d] = alive[d]
        /\ ~alive'[c]
        /\ \/ at'[c] = at[c] /\ ~Active(c)
           \/ at'[c].step = "crashed" /\ Active(c)
    <3>1. /\ UNCHANGED <<file, wrote, expired, task, tries, found, before, moved, ok, broken>>
          /\ ~alive'[c] /\ \A d \in Call \ {c} : alive'[d] = alive[d]
      BY <1>0, <1>3 DEF Die, TypeOK
    <3>2. CASE Active(c)
      <4>1. at[c].file \in Name /\ Goto(c, "crashed", at[c].file)
        BY <1>0, <1>3, <3>2 DEF Die, TypeOK
      <4> QED BY <1>0, <3>1, <3>2, <4>1, GotoType
    <3>3. CASE ~Active(c)
      BY <1>3, <3>1, <3>3 DEF Die
    <3> QED BY <3>2, <3>3
  <2>2. \A d \in Call : (at'[d] = at[d]) => (Files(d)' <=> Files(d)) /\ (Progress(d)' <=> Progress(d))
    BY <2>1 DEF Files, Progress, Holds, Fresh, Served, Record
  <2>3. at'[c].step = "crashed" => Files(c)' /\ Progress(c)'
    BY DEF Files, Progress, Reclaiming
  <2>4. \A d \in Call : Files(d)' /\ Progress(d)'
    BY <2>1, <2>2, <2>3 DEF AloneInv
  <2>5. \A d \in Call : Active(d)' => Active(d) /\ d # c
    BY <2>1 DEF Active, Working
  <2> QED BY <2>1, <2>4, <2>5 DEF AloneInv
<1>4. ASSUME NEW c \in Call, NEW f \in Name, Expire(c, f) PROVE AloneInv'
  BY <1>4 DEF Expire, AloneInv, Active, Files, Progress, Holds, Fresh, Served, Record
<1>5. CASE UNCHANGED vars
  BY <1>5 DEF vars, AloneInv, Active, Files, Progress, Holds, Fresh, Served, Record
<1> QED BY <1>1, <1>2, <1>3, <1>4, <1>5 DEF Next

LEMMA InitAlone == Init => AloneInv
<1> SUFFICES ASSUME Init PROVE AloneInv
  OBVIOUS
<1>1. \A c \in Call : at[c].step = "idle" /\ Fresh(c)
  BY DEF Init, At, Fresh, Name
<1> QED BY <1>1 DEF AloneInv, Active, Working, Files, Progress, Reclaiming

LEMMA Alone == Spec => []AloneInv
BY InitAlone, AloneNext, Types, PTL DEF Spec

(* A step after which a lone writer is bound to throw.                     *)
LEMMA DoomedByBroken ==
  ASSUME TypeInv, AloneInv, Serialized, NEW c \in Call, Advance(c), task[c] = "write",
         ~Doomed(c), Doomed(c)'
  PROVE  \E f \in Name :
           c \in broken'[f] \/ (Status(f) = "live" /\ file[f] \in broken[f])
<1> DEFINE f == at[c].file
<1>0. /\ TypeOK /\ Files(c) /\ Progress(c) /\ f \in Name /\ tries[c] \in 0 .. 2
      /\ c \in Call /\ c # NoCall
  BY DEF AloneInv, TypeInv, TypeOK
<1>1. ASSUME NEW s \in Step, NEW g \in Name, Goto(c, s, g),
             s # "failed", s \notin {"release", "unlink"} \/ g # "RECOVERY"
      PROVE  FALSE
  BY <1>0, <1>1, GotoAt DEF Doomed
<1>2. ASSUME at[c].step \in {"release", "unlink"}, f = "RECOVERY", ok' = ok
      PROVE  ok[c] /\ ok'[c]
  BY <1>0, <1>2 DEF Doomed
<1>3. CASE WriteFails(c)
  BY <1>0, <1>3 DEF WriteFails, TypeOK
<1>4. CASE Inspect(c)
  <2>1. CASE Abandoned(f)
    BY <1>0, <1>1, <1>4, <2>1, Steps DEF Inspect
  <2>2. CASE ~Abandoned(f) /\ file[f] = NoCall
    <3>1. f = "LOCK" /\ Status(f) = "absent"
      BY <1>0, <1>4, <2>2 DEF Progress, Inspect, Status, Name
    <3> QED BY <1>0, <1>1, <1>4, <2>2, <3>1, Steps DEF Inspect
  <2>3. CASE ~Abandoned(f) /\ file[f] # NoCall
    <3>1. file[f] # c /\ Active(c)
      BY <1>0, <1>4 DEF Inspect, Files, Fresh, Reclaiming, Name, Active, Working
    <3> QED BY <1>0, <2>3, <3>1, Reclaimable
  <2> QED BY <2>1, <2>2, <2>3
<1>5. CASE Create(c)
  <2>1. f = "RECOVERY" \/ file[f] = NoCall
    BY <1>0, <1>5 DEF Create, Progress, Name
  <2> QED BY <1>0, <1>1, <1>5, <2>1, Steps DEF Create
<1>6. CASE Snapshot(c) \/ Move(c)
  <2>1. file[f] # NoCall
    BY <1>0, <1>6 DEF Snapshot, Move, Progress
  <2> QED BY <1>0, <1>1, <1>6, <2>1, Steps DEF Snapshot, Move
<1>7. CASE WriteRecord(c)
  <2>1. CASE f = "RECOVERY"
    BY <1>1, <1>7, <2>1, Names, Steps DEF WriteRecord
  <2>2. CASE f # "RECOVERY"
    <3>1. Goto(c, "release", "RECOVERY") /\ ok'[c] = TRUE
      BY <1>0, <1>7, <2>2 DEF WriteRecord, TypeOK
    <3> QED BY <1>0, <3>1, GotoAt DEF Doomed
  <2> QED BY <2>1, <2>2
<1>8. CASE Compare(c)
  <2>1. Record(f, moved[c]) = before[c] /\ Record(f, moved[c]) = found[c]
    BY <1>0, <1>8 DEF Progress, Compare
  <2>2. f = "RECOVERY" => tries[c] < 2 /\ ~(tries[c] >= 2)
    BY <1>0, <1>8 DEF Progress, Compare, Reclaiming
  <2>3. Goto(c, "create", f)
    BY <1>0, <1>8, <2>1, <2>2, Zenon DEF Compare, Name
  <2> QED BY <1>0, <1>1, <2>3, Steps
<1>9. CASE Finish(c)
  BY <1>1, <1>9, Names, Steps DEF Finish
<1>10. CASE Release(c)
  <2>1. at[c].step = "release" /\ ok' = ok
    BY <1>10 DEF Release, local
  <2>2. file[f] = c /\ Record(f, file[f]) = c
    BY <1>0, <2>1 DEF Files, Holds, Record, Name
  <2>3. Goto(c, "unlink", f)
    BY <1>0, <1>10, <2>2 DEF Release
  <2>4. at'[c].step = "unlink" /\ at'[c].file = f
    BY <1>0, <2>3, GotoAt
  <2> QED BY <1>2, <2>1, <2>4 DEF Doomed
<1>11. CASE Unlink(c)
  <2>1. at[c].step = "unlink" /\ ok' = ok /\ Released(c, f)
    BY <1>11 DEF Unlink, local
  <2>2. CASE f = "RECOVERY"
    <3>1. Goto(c, "held", f)
      BY <1>2, <2>1, <2>2 DEF Released
    <3> QED BY <1>0, <1>1, <3>1, Steps
  <2>3. CASE f = "LOCK"
    <3>1. Goto(c, "done", f)
      BY <2>1, <2>3 DEF Released
    <3> QED BY <1>0, <1>1, <3>1, Steps
  <2> QED BY <1>0, <2>2, <2>3 DEF Name
<1> QED BY <1>3, <1>4, <1>5, <1>6, <1>7, <1>8, <1>9, <1>10, <1>11 DEF Advance

LEMMA OwnDoom ==
  ASSUME TypeOK, [Next]_vars, NEW c \in Call, ~Advance(c)
  PROVE  Doomed(c)' => Doomed(c)
<1>1. ASSUME NEW d \in Call, Begin(d)
      PROVE  Doomed(c)' => Doomed(c)
  <2>1. at'[c] = at[c] \/ at'[c].step = "create"
    BY <1>1, GotoAt DEF Begin, Goto, TypeOK
  <2>2. ok' = ok
    BY <1>1 DEF Begin, local
  <2> QED BY <2>1, <2>2 DEF Doomed
<1>2. ASSUME NEW d \in Call, Advance(d)
      PROVE  Doomed(c)' => Doomed(c)
  <2>1. d # c
    BY <1>2
  <2>2. \A s, f : Goto(d, s, f) => at'[c] = at[c]
    BY <2>1 DEF Goto, TypeOK
  <2>3. /\ ok' = [ok EXCEPT ![d] = TRUE] => ok'[c] = ok[c]
        /\ ok' = [ok EXCEPT ![d] = FALSE] => ok'[c] = ok[c]
        /\ ok' = ok => ok'[c] = ok[c]
    BY <2>1 DEF TypeOK
  <2> DEFINE Rests == at'[c] = at[c] /\ ok'[c] = ok[c]
  <2>4. \A f : Throw(d, f) => Rests
    BY <2>2, <2>3 DEF Throw
  <2>5. Released(d, at[d].file) => at'[c] = at[c]
    <3>1. at[d].file \in Name /\ ok[d] \in BOOLEAN
      BY DEF TypeOK
    <3> QED BY <2>2, <3>1 DEF Released, Name
  <2>6. ASSUME Create(d) \/ WriteRecord(d) \/ WriteFails(d) PROVE Rests
    BY <2>2, <2>3, <2>4, <2>6 DEF Create, WriteRecord, WriteFails
  <2>7. ASSUME Inspect(d) \/ Snapshot(d) \/ Move(d) PROVE Rests
    BY <2>2, <2>3, <2>4, <2>7 DEF Inspect, Snapshot, Move
  <2>8. ASSUME Compare(d) PROVE Rests
    <3>1. at[d].file \in Name /\ tries[d] \in 0 .. 2 /\ task[d] \in {"write", "clear"}
      BY DEF TypeOK
    <3>2. tries[d] < 2 \/ tries[d] >= 2
      BY <3>1
    <3>3. \/ Throw(d, at[d].file)
          \/ Goto(d, "create", at[d].file) /\ ok' = ok
          \/ Goto(d, "release", "RECOVERY") /\ ok' = [ok EXCEPT ![d] = TRUE]
      BY <2>8, <3>1, <3>2, Zenon DEF Compare, Name
    <3> QED BY <2>2, <2>3, <2>4, <3>3
  <2>9. ASSUME Release(d) \/ Unlink(d) \/ Finish(d) PROVE Rests
    BY <2>2, <2>3, <2>5, <2>9 DEF Release, Unlink, Finish, local
  <2>10. Rests
    BY <1>2, <2>6, <2>7, <2>8, <2>9 DEF Advance
  <2> QED BY <2>10 DEF Doomed
<1>3. ASSUME NEW d \in Call, Die(d)
      PROVE  Doomed(c)' => Doomed(c)
  <2>1. at'[c] = at[c] \/ at'[c].step = "crashed"
    BY <1>3, GotoAt DEF Die, Goto, TypeOK
  <2>2. ok' = ok
    BY <1>3 DEF Die, local
  <2> QED BY <2>1, <2>2 DEF Doomed
<1>4. ASSUME NEW d \in Call, NEW f \in Name, Expire(d, f)
      PROVE  Doomed(c)' => Doomed(c)
  BY <1>4 DEF Expire, local, Doomed
<1>5. CASE UNCHANGED vars
  BY <1>5 DEF vars, Doomed
<1> QED BY <1>1, <1>2, <1>3, <1>4, <1>5 DEF Next

(* A writer that runs alone is turned away only by its own failing write,  *)
(* sync or close, or by a live record whose sync or close failed: whatever *)
(* else its predecessors left, two attempts at RECOVERY reclaim it.        *)
THEOREM LoneWriterHolds == Spec => LoneWriterIsServed
<1> DEFINE Justified(c) ==
      task[c] = "write" /\ ~Doomed(c) /\ Doomed(c)' =>
        \E f \in Name :
          c \in broken'[f] \/ (Status(f) = "live" /\ file[f] \in broken[f])
<1>1. TypeInv /\ AloneInv /\ [Next]_vars => [Serialized => \A c \in Call : Justified(c)]_vars
  <2> SUFFICES ASSUME TypeInv, AloneInv, [Next]_vars, Serialized, NEW c \in Call,
                      task[c] = "write", ~Doomed(c), Doomed(c)'
               PROVE  \E f \in Name :
                        c \in broken'[f] \/ (Status(f) = "live" /\ file[f] \in broken[f])
    OBVIOUS
  <2>1. Advance(c)
    BY OwnDoom DEF TypeInv
  <2> QED BY <2>1, DoomedByBroken
<1> QED BY <1>1, Alone, Types, PTL DEF Spec, LoneWriterIsServed

(* A record outlives its call only if the call's process died in it, or    *)
(* the call could not sync or close that very file.                        *)
THEOREM RecordsLeftHold == Spec => []RecordsLeftAreAccountedFor
<1>1. TypeInv /\ AloneInv => RecordsLeftAreAccountedFor
  <2> SUFFICES ASSUME TypeOK, AloneInv, Serialized, NEW f \in Name, file[f] # NoCall,
                      ~Active(file[f]), at[file[f]].step # "crashed",
                      file[f] \notin broken[f]
               PROVE  Record(f, file[f]) = NoCall
    BY DEF RecordsLeftAreAccountedFor, TypeInv
  <2> DEFINE o == file[f]
  <2>1. o \in Call /\ at[o].step \in {"idle", "done", "failed"} /\ Files(o)
    BY DEF TypeOK, AloneInv, Active, Step
  <2>2. ~Holds(f, o)
    BY <2>1 DEF Files, Fresh, Holds, Name
  <2> QED BY <2>2 DEF Holds, Record
<1> QED BY <1>1, Alone, Types, PTL

-----------------------------------------------------------------------------
(***************************************************************************)
(* Calls that overlap.  The one window of the code that lets two writers   *)
(* in, expired records apart, lies between creating RECOVERY and writing   *)
(* the record into it: LOCK itself has the same window, and needs nothing, *)
(* because RECOVERY keeps the others away from it.                         *)
(***************************************************************************)

Writing(c, f) == at[c].step = "write" /\ at[c].file = f
Archiving(c, f) == at[c].step \in {"snapshot", "move"} /\ at[c].file = f

\* No record outlived the time its writer was given.
NothingExpired == \A f \in Name : expired[f] = {}

\* No call archives RECOVERY while another has created it and not yet
\* written its record.
RecoveryWrittenFirst ==
  \A c, d \in Call : Writing(c, "RECOVERY") => ~Archiving(d, "RECOVERY")

\* From creating RECOVERY to letting it go, and the same of LOCK.
OwnsRecovery(c) ==
  \/ at[c].file = "RECOVERY" /\ at[c].step \in {"write", "release", "unlink"}
  \/ at[c].file = "LOCK" /\ at[c].step \in Reclaiming \union {"write"}
OwnsLock(c) ==
  \/ at[c].step = "held"
  \/ at[c].file = "LOCK" /\ at[c].step \in {"write", "release", "unlink"}
  \/ at[c].file = "RECOVERY" /\ at[c].step \in {"release", "unlink"} /\ Served(c)
Owns(c, f) == IF f = "LOCK" THEN OwnsLock(c) ELSE OwnsRecovery(c)

\* What a call owns has its name, its record unless it is just writing it,
\* and nobody is archiving it.
Owned(c, f) ==
  /\ file[f] = c
  /\ ~Writing(c, f) => c \in wrote[f]
  /\ \A d \in Call : ~Archiving(d, f)

\* The invariant of overlapping calls.
Apart ==
  /\ \A c \in Call : Active(c) => alive[c]
  /\ \A c \in Call, f \in Name : Owns(c, f) => Owned(c, f)

\* What a step of a call does to the files, as far as ownership goes.
OwnStep(c) ==
  /\ UNCHANGED <<expired, alive, task>>
  /\ \A d \in Call \ {c} : at'[d] = at[d] /\ ok'[d] = ok[d]
  /\ Active(c)
  /\ \A f \in Name :
       /\ wrote[f] \subseteq wrote'[f]
       /\ Owns(c, f)' =>
            /\ Owns(c, f) \/ (file[f] = NoCall /\ Writing(c, f)')
            /\ file'[f] = c
            /\ ~Writing(c, f)' => c \in wrote'[f]
       /\ Owns(c, f)' /\ ~Owns(c, f) /\ f = "LOCK" => Owns(c, "RECOVERY")
       /\ \/ file'[f] = file[f]
          \/ file[f] = NoCall
          \/ Archiving(c, f)
          \/ Owns(c, f)
       /\ Archiving(c, f)' =>
            Archiving(c, f) \/ (Abandoned(f) /\ at[c].step = "inspect" /\ at[c].file = f)

LEMMA OwnStepFrame ==
  ASSUME TypeOK, NEW c \in Call, NEW s, NEW f, Goto(c, s, f),
         ok' = ok \/ (\E b \in BOOLEAN : ok' = [ok EXCEPT ![c] = b])
  PROVE  /\ at'[c].step = s /\ at'[c].file = f
         /\ \A d \in Call \ {c} : at'[d] = at[d] /\ ok'[d] = ok[d]
BY DEF Goto, At, TypeOK

\* A call that throws lets go of what it owns, RECOVERY apart.
LEMMA ThrowOwns ==
  ASSUME TypeOK, Apart, NEW c \in Call, at[c].file \in Name,
         Throw(c, at[c].file), UNCHANGED <<file, expired, alive, task>>,
         \A g \in Name : wrote[g] \subseteq wrote'[g],
         at[c].step \in Reclaiming \union {"write"}
  PROVE  OwnStep(c)
<1>1. CASE at[c].file = "RECOVERY"
  <2>1. Goto(c, "failed", "RECOVERY") /\ ok' = ok
    BY <1>1 DEF Throw
  <2>2. at'[c].step = "failed" /\ \A d \in Call \ {c} : at'[d] = at[d] /\ ok'[d] = ok[d]
    BY <2>1, OwnStepFrame
  <2> QED BY <2>2 DEF OwnStep, Owns, OwnsLock, OwnsRecovery, Archiving, Active, Working,
                      Reclaiming
<1>2. CASE at[c].file = "LOCK"
  <2>1. Goto(c, "release", "RECOVERY") /\ ok' = [ok EXCEPT ![c] = FALSE]
    BY <1>2 DEF Throw
  <2>2. /\ at'[c].step = "release" /\ at'[c].file = "RECOVERY" /\ ok'[c] = FALSE
        /\ \A d \in Call \ {c} : at'[d] = at[d] /\ ok'[d] = ok[d]
    BY <2>1, OwnStepFrame DEF TypeOK
  <2>3. Owns(c, "RECOVERY") /\ ~Writing(c, "RECOVERY")
    BY <1>2 DEF Owns, OwnsRecovery, Writing, Reclaiming
  <2>4. Owned(c, "RECOVERY")
    BY <2>3 DEF Apart, Name
  <2>5. ~Owns(c, "LOCK")'
    BY <2>2 DEF Owns, OwnsLock, Served
  <2> QED BY <2>2, <2>3, <2>4, <2>5
          DEF OwnStep, Owned, Archiving, Active, Working, Reclaiming, Name
<1> QED BY <1>1, <1>2 DEF Name

LEMMA CreateOwns ==
  ASSUME TypeOK, Apart, NEW c \in Call, Create(c)
  PROVE  OwnStep(c)
<1>0. /\ at[c].file \in Name /\ at[c].step = "create"
      /\ UNCHANGED <<wrote, expired, alive, task>>
      /\ file \in [Name -> Call \union {NoCall}]
  BY DEF Create, TypeOK
<1>1. CASE file[at[c].file] # NoCall /\ at[c].file = "LOCK"
  <2>1. Throw(c, at[c].file) /\ file' = file
    BY <1>0, <1>1 DEF Create
  <2> QED BY <1>0, <2>1, ThrowOwns DEF Reclaiming
<1>2. CASE file[at[c].file] # NoCall /\ at[c].file = "RECOVERY"
  <2>1. Goto(c, "inspect", "RECOVERY") /\ ok' = ok /\ file' = file
    BY <1>0, <1>2 DEF Create
  <2>2. /\ at'[c].step = "inspect" /\ at'[c].file = "RECOVERY"
        /\ \A d \in Call \ {c} : at'[d] = at[d] /\ ok'[d] = ok[d]
    BY <2>1, OwnStepFrame
  <2> QED BY <1>0, <2>1, <2>2 DEF OwnStep, Owns, OwnsLock, OwnsRecovery, Archiving,
                                  Active, Working
<1>3. CASE file[at[c].file] = NoCall
  <2> DEFINE f == at[c].file
  <2>1. Goto(c, "write", f) /\ ok' = ok /\ file' = [file EXCEPT ![f] = c]
    BY <1>0, <1>3 DEF Create
  <2>2. /\ at'[c].step = "write" /\ at'[c].file = f
        /\ \A d \in Call \ {c} : at'[d] = at[d] /\ ok'[d] = ok[d]
    BY <2>1, OwnStepFrame
  <2>3. CASE f = "RECOVERY"
    <3>1. ~Owns(c, "LOCK")' /\ Writing(c, "RECOVERY")'
      BY <2>2, <2>3 DEF Owns, OwnsLock, Writing
    <3>2. file'["RECOVERY"] = c /\ file'["LOCK"] = file["LOCK"]
      BY <1>0, <2>1, <2>3 DEF Name
    <3> QED BY <1>0, <1>3, <2>2, <2>3, <3>1, <3>2
            DEF OwnStep, Archiving, Active, Working, Name
  <2>4. CASE f = "LOCK"
    <3>1. Owns(c, "RECOVERY") /\ ~Writing(c, "RECOVERY")
      BY <1>0, <2>4 DEF Owns, OwnsRecovery, Writing, Reclaiming
    <3>2. Owned(c, "RECOVERY")
      BY <3>1 DEF Apart, Name
    <3>3. file'["LOCK"] = c /\ file'["RECOVERY"] = file["RECOVERY"]
      BY <1>0, <2>1, <2>4 DEF Name
    <3>4. Writing(c, "LOCK")'
      BY <2>2, <2>4 DEF Writing
    <3> QED BY <1>0, <1>3, <2>2, <2>4, <3>1, <3>2, <3>3, <3>4
            DEF OwnStep, Owned, Archiving, Active, Working, Name
  <2> QED BY <1>0, <2>3, <2>4 DEF Name
<1> QED BY <1>0, <1>1, <1>2, <1>3 DEF Name

LEMMA WriteOwns ==
  ASSUME TypeOK, Apart, NEW c \in Call, WriteRecord(c) \/ WriteFails(c)
  PROVE  OwnStep(c)
<1>0. /\ at[c].file \in Name /\ at[c].step = "write"
      /\ UNCHANGED <<file, expired, alive, task>>
      /\ wrote \in [Name -> SUBSET Call]
  BY DEF WriteRecord, WriteFails, TypeOK
<1>1. CASE WriteFails(c)
  <2>1. \A g \in Name : wrote[g] \subseteq wrote'[g]
    BY <1>0, <1>1 DEF WriteFails
  <2> QED BY <1>0, <1>1, <2>1, ThrowOwns DEF WriteFails
<1>2. CASE WriteRecord(c) /\ at[c].file = "RECOVERY"
  <2>1. /\ Goto(c, "inspect", "LOCK") /\ ok' = ok
        /\ wrote' = [wrote EXCEPT !["RECOVERY"] = @ \union {c}]
    BY <1>2 DEF WriteRecord
  <2>2. /\ at'[c].step = "inspect" /\ at'[c].file = "LOCK"
        /\ \A d \in Call \ {c} : at'[d] = at[d] /\ ok'[d] = ok[d]
    BY <2>1, OwnStepFrame
  <2>3. Owns(c, "RECOVERY") /\ Owned(c, "RECOVERY")
    BY <1>0, <1>2 DEF Apart, Owns, OwnsRecovery, Name
  <2>4. ~Owns(c, "LOCK")'
    BY <2>2 DEF Owns, OwnsLock
  <2>5. c \in wrote'["RECOVERY"] /\ \A f \in Name : wrote[f] \subseteq wrote'[f]
    BY <1>0, <2>1 DEF Name
  <2> QED BY <1>0, <2>2, <2>3, <2>4, <2>5
          DEF OwnStep, Owned, Archiving, Active, Working, Name
<1>3. CASE WriteRecord(c) /\ at[c].file = "LOCK"
  <2>1. /\ Goto(c, "release", "RECOVERY") /\ ok' = [ok EXCEPT ![c] = TRUE]
        /\ wrote' = [wrote EXCEPT !["LOCK"] = @ \union {c}]
    BY <1>3 DEF WriteRecord
  <2>2. /\ at'[c].step = "release" /\ at'[c].file = "RECOVERY"
        /\ \A d \in Call \ {c} : at'[d] = at[d] /\ ok'[d] = ok[d]
    BY <2>1, OwnStepFrame
  <2>3. /\ Owns(c, "RECOVERY") /\ Owned(c, "RECOVERY") /\ ~Writing(c, "RECOVERY")
        /\ Owns(c, "LOCK") /\ Owned(c, "LOCK")
    BY <1>0, <1>3 DEF Apart, Owns, OwnsRecovery, OwnsLock, Writing, Name
  <2>4. c \in wrote'["LOCK"] /\ \A f \in Name : wrote[f] \subseteq wrote'[f]
    BY <1>0, <2>1 DEF Name
  <2> QED BY <1>0, <2>2, <2>3, <2>4
          DEF OwnStep, Owned, Archiving, Active, Working, Name
<1> QED BY <1>0, <1>1, <1>2, <1>3 DEF Name

\* The steps of a reclaim, from the look at a file to the comparison.
LEMMA ReclaimOwns ==
  ASSUME TypeOK, Apart, NEW c \in Call,
         Inspect(c) \/ Snapshot(c) \/ Move(c) \/ Compare(c)
  PROVE  OwnStep(c)
<1> DEFINE f == at[c].file
<1>0. /\ f \in Name /\ at[c].step \in {"inspect", "snapshot", "move", "compare"}
      /\ UNCHANGED <<wrote, expired, alive, task>>
      /\ file \in [Name -> Call \union {NoCall}]
  BY DEF Inspect, Snapshot, Move, Compare, TypeOK
<1>1. CASE Throw(c, f) /\ file' = file
  BY <1>0, <1>1, ThrowOwns DEF Reclaiming
<1>2. ~Owns(c, "LOCK") /\ (f = "LOCK" => Owns(c, "RECOVERY"))
  BY <1>0 DEF Owns, OwnsLock, OwnsRecovery, Reclaiming
<1>3. f = "LOCK" => Owned(c, "RECOVERY") /\ ~Writing(c, "RECOVERY")
  BY <1>0, <1>2 DEF Apart, Name, Writing
\* Everything but the end of a reclaim leads on to the next step for f.
<1>4. ASSUME NEW s \in {"snapshot", "move", "compare", "create"}, Goto(c, s, f), ok' = ok,
             file' = file \/ (at[c].step = "move" /\ file' = [file EXCEPT ![f] = NoCall]),
             s = "snapshot" => at[c].step = "inspect" /\ Abandoned(f),
             s = "move" => at[c].step = "snapshot"
      PROVE  OwnStep(c)
  <2>1. /\ at'[c].step = s /\ at'[c].file = f
        /\ \A d \in Call \ {c} : at'[d] = at[d] /\ ok'[d] = ok[d]
    BY <1>4, OwnStepFrame
  <2>2. ~Owns(c, "LOCK")' /\ (Owns(c, "RECOVERY")' => f = "LOCK")
    BY <1>0, <2>1 DEF Owns, OwnsLock, OwnsRecovery, Name
  <2>3. \A g \in Name : file'[g] = file[g] \/ Archiving(c, g)
    BY <1>0, <1>4 DEF Archiving
  <2>4. f = "LOCK" => file'["RECOVERY"] = file["RECOVERY"]
    BY <1>0, <1>4 DEF Name
  <2>5. \A g \in Name : Archiving(c, g)' => Archiving(c, g) \/ (Abandoned(g) /\ at[c].step = "inspect" /\ f = g)
    BY <1>4, <2>1 DEF Archiving
  <2>6. Active(c)
    BY <1>0 DEF Active, Working
  <2> QED BY <1>0, <1>2, <1>3, <2>1, <2>2, <2>3, <2>4, <2>5, <2>6 DEF OwnStep, Owned, Name
<1>5. CASE Inspect(c)
  <2>1. CASE Abandoned(f)
    BY <1>4, <1>5, <2>1 DEF Inspect
  <2>2. CASE ~Abandoned(f) /\ f = "LOCK" /\ Status(f) = "absent" /\ task[c] = "write"
    BY <1>4, <1>5, <2>2 DEF Inspect
  <2>3. CASE ~Abandoned(f) /\ ~(f = "LOCK" /\ Status(f) = "absent" /\ task[c] = "write")
    BY <1>1, <1>5, <2>3 DEF Inspect
  <2> QED BY <2>1, <2>2, <2>3
<1>6. CASE Snapshot(c)
  <2>1. CASE file[f] = NoCall
    BY <1>1, <1>6, <2>1 DEF Snapshot
  <2>2. CASE file[f] # NoCall
    BY <1>4, <1>6, <2>2 DEF Snapshot
  <2> QED BY <2>1, <2>2
<1>7. CASE Move(c)
  <2>1. CASE file[f] = NoCall
    BY <1>1, <1>7, <2>1 DEF Move
  <2>2. CASE file[f] # NoCall
    BY <1>4, <1>7, <2>2 DEF Move
  <2> QED BY <2>1, <2>2
<1>8. CASE Compare(c)
  <2>0. file' = file /\ at[c].step = "compare"
    BY <1>8 DEF Compare
  <2>1. CASE f = "RECOVERY"
    <3>1. tries[c] < 2 \/ tries[c] >= 2
      BY DEF TypeOK
    <3>2. Throw(c, f) \/ (Goto(c, "create", f) /\ ok' = ok)
      BY <1>8, <2>1, <3>1, Zenon DEF Compare
    <3> QED BY <1>1, <1>4, <2>0, <3>2
  <2>2. CASE f = "LOCK"
    <3>1. task[c] \in {"write", "clear"}
      BY DEF TypeOK
    <3>2. \/ Throw(c, f)
          \/ Goto(c, "create", f) /\ ok' = ok
          \/ /\ task[c] = "clear" /\ Goto(c, "release", "RECOVERY")
             /\ ok' = [ok EXCEPT ![c] = TRUE]
      BY <1>8, <2>2, <3>1, Zenon DEF Compare
    <3>3. CASE task[c] = "clear" /\ Goto(c, "release", "RECOVERY")
               /\ ok' = [ok EXCEPT ![c] = TRUE]
      <4>1. /\ at'[c].step = "release" /\ at'[c].file = "RECOVERY"
            /\ \A d \in Call \ {c} : at'[d] = at[d] /\ ok'[d] = ok[d]
        BY <3>3, OwnStepFrame
      <4>2. ~Owns(c, "LOCK")'
        BY <1>0, <3>3, <4>1 DEF Owns, OwnsLock, Served
      <4> QED BY <1>0, <1>2, <1>3, <2>0, <2>2, <4>1, <4>2
              DEF OwnStep, Owned, Archiving, Active, Working, Name
    <3> QED BY <1>1, <1>4, <2>0, <3>2, <3>3
  <2> QED BY <1>0, <2>1, <2>2 DEF Name
<1> QED BY <1>5, <1>6, <1>7, <1>8

\* releaseNamedLock: with LOCK the call ends; with RECOVERY a writer that was
\* served goes on to its write, still owning LOCK.
LEMMA ReleaseOwns ==
  ASSUME TypeOK, Apart, NEW c \in Call, Release(c) \/ Unlink(c) \/ Finish(c)
  PROVE  OwnStep(c)
<1> DEFINE f == at[c].file
<1>0. /\ f \in Name /\ at[c].step \in {"release", "unlink", "held"}
      /\ UNCHANGED <<wrote, expired, alive, task, ok>>
      /\ file \in [Name -> Call \union {NoCall}] /\ task[c] \in {"write", "clear"}
  BY DEF Release, Unlink, Finish, TypeOK, local
<1>1. Active(c)
  BY <1>0 DEF Active, Working
<1>2. ASSUME NEW s, NEW g, Goto(c, s, g)
      PROVE  /\ at'[c].step = s /\ at'[c].file = g
             /\ \A d \in Call \ {c} : at'[d] = at[d] /\ ok'[d] = ok[d]
             /\ (Served(c)' <=> Served(c))
  BY <1>0, <1>2, OwnStepFrame DEF Served
<1>3. CASE Finish(c)
  <2>1. Goto(c, "release", "LOCK") /\ file' = file /\ at[c].step = "held"
    BY <1>3 DEF Finish
  <2>2. Owns(c, "LOCK") /\ Owned(c, "LOCK") /\ ~Writing(c, "LOCK")
    BY <2>1 DEF Apart, Owns, OwnsLock, Name, Writing
  <2>3. at'[c].step = "release" /\ at'[c].file = "LOCK"
        /\ \A d \in Call \ {c} : at'[d] = at[d] /\ ok'[d] = ok[d]
    BY <1>2, <2>1
  <2>4. ~Owns(c, "RECOVERY")'
    BY <2>3 DEF Owns, OwnsRecovery, Reclaiming
  <2> QED BY <1>0, <1>1, <2>1, <2>2, <2>3, <2>4 DEF OwnStep, Owned, Archiving, Name
<1>4. at[c].step # "held" => Owns(c, f) /\ Owned(c, f)
  BY <1>0 DEF Apart, Owns, OwnsLock, OwnsRecovery, Name
<1>5. ASSUME Goto(c, "failed", f) \/ Goto(c, "done", f), file' = file \/ Owns(c, f),
             \A g \in Name \ {f} : file'[g] = file[g]
      PROVE  OwnStep(c)
  <2>1. at'[c].step \in {"failed", "done"}
        /\ \A d \in Call \ {c} : at'[d] = at[d] /\ ok'[d] = ok[d]
    BY <1>2, <1>5
  <2>2. \A g \in Name : ~Owns(c, g)' /\ ~Archiving(c, g)'
    BY <2>1 DEF Owns, OwnsLock, OwnsRecovery, Archiving, Reclaiming
  <2> QED BY <1>0, <1>1, <1>5, <2>1, <2>2 DEF OwnStep
<1>6. ASSUME f = "RECOVERY", Served(c), at[c].step # "held", Goto(c, "held", f),
             file'["LOCK"] = file["LOCK"]
      PROVE  OwnStep(c)
  <2>1. at'[c].step = "held"
        /\ \A d \in Call \ {c} : at'[d] = at[d] /\ ok'[d] = ok[d]
    BY <1>2, <1>6
  <2>2. Owns(c, "LOCK") /\ Owned(c, "LOCK") /\ ~Writing(c, "LOCK")
    BY <1>0, <1>6 DEF Apart, Owns, OwnsLock, Name, Writing
  <2>3. ~Owns(c, "RECOVERY")' /\ \A g \in Name : ~Archiving(c, g)'
    BY <2>1 DEF Owns, OwnsRecovery, Archiving, Reclaiming
  <2>4. Owns(c, "RECOVERY")
    BY <1>4, <1>6
  <2> QED BY <1>0, <1>1, <1>6, <2>1, <2>2, <2>3, <2>4 DEF OwnStep, Owned, Name
<1>7. ASSUME Released(c, f), at[c].step # "held", file' = file \/ Owns(c, f),
             \A g \in Name \ {f} : file'[g] = file[g]
      PROVE  OwnStep(c)
  <2>1. CASE f = "LOCK"
    BY <1>5, <1>7, <2>1 DEF Released
  <2>2. CASE f = "RECOVERY" /\ ~ok[c]
    BY <1>5, <1>7, <2>2 DEF Released
  <2>3. CASE f = "RECOVERY" /\ ok[c] /\ task[c] = "clear"
    BY <1>5, <1>7, <2>3 DEF Released
  <2>4. CASE f = "RECOVERY" /\ ok[c] /\ task[c] = "write"
    BY <1>6, <1>7, <2>4 DEF Released, Served, Name
  <2> QED BY <1>0, <2>1, <2>2, <2>3, <2>4 DEF Name
<1>8. CASE Release(c)
  <2>0. at[c].step = "release" /\ file' = file
    BY <1>8 DEF Release
  <2>1. CASE file[f] = NoCall
    <3>1. Released(c, f)
      BY <1>8, <2>1 DEF Release
    <3> QED BY <1>7, <2>0, <3>1
  <2>2. CASE file[f] # NoCall /\ Record(f, file[f]) # c
    <3>1. Goto(c, "failed", f)
      BY <1>8, <2>2 DEF Release
    <3> QED BY <1>5, <2>0, <3>1
  <2>3. CASE file[f] # NoCall /\ Record(f, file[f]) = c
    <3>1. Goto(c, "unlink", f)
      BY <1>8, <2>3 DEF Release
    <3>2. at'[c].step = "unlink" /\ at'[c].file = f
          /\ \A d \in Call \ {c} : at'[d] = at[d] /\ ok'[d] = ok[d]
          /\ (Served(c)' <=> Served(c))
      BY <1>2, <3>1
    <3>3. \A g \in Name : Owns(c, g)' => Owns(c, g)
      <4>1. OwnsLock(c)' => OwnsLock(c)
        <5>1. ok'[c] = ok[c] /\ task'[c] = task[c]
          BY <1>0
        <5> QED BY <2>0, <3>2, <5>1 DEF OwnsLock, Served
      <4>2. OwnsRecovery(c)' => OwnsRecovery(c)
        BY <2>0, <3>2 DEF OwnsRecovery, Reclaiming
      <4> QED BY <4>1, <4>2 DEF Owns
    <3>4. \A g \in Name : Owns(c, g) => Owned(c, g) /\ ~Writing(c, g)
      BY <2>0 DEF Apart, Writing
    <3> QED BY <1>0, <1>1, <2>0, <3>2, <3>3, <3>4 DEF OwnStep, Owned, Archiving
  <2> QED BY <2>1, <2>2, <2>3
<1>9. CASE Unlink(c)
  BY <1>0, <1>4, <1>7, <1>9 DEF Unlink
<1> QED BY <1>3, <1>8, <1>9

\* A step of one call leaves every other call what it owns.
LEMMA StepKeepsApart ==
  ASSUME TypeOK, Apart, NEW c \in Call, OwnStep(c),
         NothingExpired, RecoveryWrittenFirst'
  PROVE  Apart'
<1>1. \A d \in Call : Active(d)' => alive'[d]
  BY DEF OwnStep, Apart, Active
<1>2. ASSUME NEW d \in Call, d # c, NEW f \in Name
      PROVE  /\ Owns(d, f)' <=> Owns(d, f)
             /\ Writing(d, f)' <=> Writing(d, f)
             /\ Archiving(d, f)' <=> Archiving(d, f)
  <2>1. at'[d] = at[d] /\ ok'[d] = ok[d] /\ task' = task
    BY <1>2 DEF OwnStep
  <2> QED BY <2>1 DEF Owns, OwnsLock, OwnsRecovery, Served, Writing, Archiving
\* The owners of a file, or of both, are one call.
<1>3. ASSUME NEW d \in Call, NEW f \in Name, Owns(d, f), Owns(c, f)
      PROVE  d = c
  BY <1>3 DEF Apart, Owned
<1>4. \A d \in Call : Writing(d, "LOCK") => Owns(d, "RECOVERY")
  BY DEF Writing, Owns, OwnsRecovery
\* A file that another call owns is not archived: it is read as live, or, in
\* the one window, not at all.
<1>5. ASSUME NEW d \in Call, d # c, NEW f \in Name, Owns(d, f), Abandoned(f),
             at[c].step = "inspect", at[c].file = f, Archiving(c, f)'
      PROVE  FALSE
  <2>1. file[f] = d /\ (~Writing(d, f) => d \in wrote[f])
    BY <1>5 DEF Apart, Owned
  <2>2. alive[d] /\ d \notin expired[f]
    <3>1. Active(d)
      BY <1>5 DEF Owns, OwnsLock, OwnsRecovery, Active, Working, Reclaiming
    <3> QED BY <3>1 DEF Apart, NothingExpired
  <2>3. d \notin wrote[f]
    BY <1>5, <2>1, <2>2 DEF Abandoned, Status, Record
  <2>4. Writing(d, f)
    BY <2>1, <2>3
  <2>5. CASE f = "RECOVERY"
    BY <1>2, <1>5, <2>4, <2>5 DEF RecoveryWrittenFirst
  <2>6. CASE f = "LOCK"
    <3>1. Owns(c, "RECOVERY") /\ Owns(d, "RECOVERY")
      BY <1>4, <1>5, <2>4, <2>6 DEF Owns, OwnsRecovery, Reclaiming
    <3> QED BY <1>3, <1>5, <3>1 DEF Name
  <2> QED BY <2>5, <2>6 DEF Name
<1>6. ASSUME NEW d \in Call, d # c, NEW f \in Name, Owns(d, f)'
      PROVE  Owned(d, f)'
  <2>1. Owns(d, f) /\ Owned(d, f)
    BY <1>2, <1>6 DEF Apart
  <2>2. file'[f] = d
    <3>1. file[f] = d /\ ~Archiving(c, f) /\ ~Owns(c, f) /\ d # NoCall
      BY <1>3, <1>6, <2>1 DEF Owned
    <3> QED BY <3>1 DEF OwnStep
  <2>3. ~Writing(d, f)' => d \in wrote'[f]
    BY <1>2, <1>6, <2>1 DEF Owned, OwnStep
  <2>4. ASSUME NEW e \in Call PROVE ~Archiving(e, f)'
    <3>1. CASE e # c
      BY <1>2, <2>1, <3>1 DEF Owned
    <3>2. CASE e = c
      <4>1. ~Archiving(c, f)
        BY <2>1 DEF Owned
      <4> QED BY <1>5, <1>6, <2>1, <3>2, <4>1 DEF OwnStep
    <3> QED BY <3>1, <3>2
  <2> QED BY <2>2, <2>3, <2>4 DEF Owned
<1>7. ASSUME NEW f \in Name, Owns(c, f)'
      PROVE  Owned(c, f)'
  <2>1. /\ Owns(c, f) \/ (file[f] = NoCall /\ Writing(c, f)')
        /\ file'[f] = c
        /\ ~Writing(c, f)' => c \in wrote'[f]
        /\ ~Owns(c, f) /\ f = "LOCK" => Owns(c, "RECOVERY")
    BY <1>7 DEF OwnStep
  <2>2. ~Archiving(c, f)'
    BY <1>7 DEF Owns, OwnsLock, OwnsRecovery, Archiving, Name, Reclaiming
  <2>3. ASSUME NEW e \in Call, e # c, Archiving(e, f)' PROVE FALSE
    <3>1. Archiving(e, f)
      BY <1>2, <2>3
    <3>2. ~Owns(c, f)
      BY <3>1 DEF Apart, Owned
    <3>3. CASE f = "RECOVERY"
      BY <2>1, <2>3, <3>2, <3>3 DEF RecoveryWrittenFirst
    <3>4. CASE f = "LOCK"
      <4>1. Owns(e, "RECOVERY")
        BY <3>1, <3>4 DEF Archiving, Owns, OwnsRecovery, Reclaiming
      <4> QED BY <1>3, <2>1, <2>3, <3>2, <3>4, <4>1 DEF Name
    <3> QED BY <3>3, <3>4 DEF Name
  <2> QED BY <2>1, <2>2, <2>3 DEF Owned
<1> QED BY <1>1, <1>6, <1>7 DEF Apart

\* Beginning a call, or dying, gives nobody a file.
LEMMA OthersKeepApart ==
  ASSUME TypeOK, Apart, NEW c \in Call, Begin(c) \/ Die(c)
  PROVE  Apart'
<1>0. UNCHANGED <<file, wrote, ok>>
  BY DEF Begin, Die, local
<1>1. /\ \A d \in Call \ {c} : at'[d] = at[d] /\ task'[d] = task[d] /\ alive'[d] = alive[d]
      /\ \/ at'[c].step = "create" /\ at'[c].file = "RECOVERY" /\ alive'[c]
         \/ at'[c].step = "crashed"
         \/ at'[c] = at[c] /\ ~Active(c)
  <2>1. CASE Begin(c)
    <3>1. Goto(c, "create", "RECOVERY") /\ alive' = alive /\ alive[c]
      BY <2>1 DEF Begin
    <3>2. \A d \in Call \ {c} : task'[d] = task[d]
      BY <2>1 DEF Begin, TypeOK
    <3> QED BY <1>0, <3>1, <3>2, OwnStepFrame
  <2>2. CASE Die(c) /\ Active(c)
    <3>1. Goto(c, "crashed", at[c].file) /\ task' = task
          /\ alive' = [alive EXCEPT ![c] = FALSE]
      BY <2>2 DEF Die
    <3>2. \A d \in Call \ {c} : alive'[d] = alive[d]
      BY <3>1 DEF TypeOK
    <3> QED BY <1>0, <3>1, <3>2, OwnStepFrame
  <2>3. CASE Die(c) /\ ~Active(c)
    <3>1. at' = at /\ task' = task /\ alive' = [alive EXCEPT ![c] = FALSE]
      BY <2>3 DEF Die
    <3>2. \A d \in Call \ {c} : alive'[d] = alive[d]
      BY <3>1 DEF TypeOK
    <3> QED BY <2>3, <3>1, <3>2
  <2> QED BY <2>1, <2>2, <2>3
<1>2. \A f \in Name : ~Owns(c, f)' /\ ~Archiving(c, f)'
  BY <1>1 DEF Owns, OwnsLock, OwnsRecovery, Archiving, Active, Working, Reclaiming
<1>3. ASSUME NEW d \in Call, d # c, NEW f \in Name
      PROVE  /\ Owns(d, f)' <=> Owns(d, f)
             /\ Writing(d, f)' <=> Writing(d, f)
             /\ Archiving(d, f)' <=> Archiving(d, f)
  <2>1. at'[d] = at[d] /\ ok'[d] = ok[d] /\ task'[d] = task[d]
    BY <1>0, <1>1, <1>3
  <2> QED BY <2>1 DEF Owns, OwnsLock, OwnsRecovery, Served, Writing, Archiving
<1>4. \A d \in Call : Active(d)' => alive'[d]
  BY <1>1 DEF Apart, Active, Working
<1>5. \A d \in Call, f \in Name : Owns(d, f)' => Owned(d, f)'
  BY <1>0, <1>2, <1>3 DEF Apart, Owned
<1> QED BY <1>4, <1>5 DEF Apart

LEMMA ApartHolds ==
  Spec /\ [](NothingExpired /\ RecoveryWrittenFirst) => []Apart
<1> DEFINE Guarded == NothingExpired /\ RecoveryWrittenFirst
           Kept == Guarded => Apart
<1>1. Init => Apart
  <2> SUFFICES ASSUME Init PROVE Apart
    OBVIOUS
  <2>1. \A c \in Call : at[c].step = "idle"
    BY DEF Init, At
  <2> QED BY <2>1 DEF Apart, Active, Working, Owns, OwnsLock, OwnsRecovery, Reclaiming
<1>2. ASSUME TypeInv, Guarded, Kept, [Next]_vars
      PROVE  Kept'
  <2> SUFFICES ASSUME Guarded' PROVE Apart'
    OBVIOUS
  <2>0. TypeOK /\ Apart
    BY <1>2 DEF TypeInv
  <2>1. ASSUME NEW c \in Call, Begin(c) \/ Die(c) PROVE Apart'
    BY <2>0, <2>1, OthersKeepApart
  <2>2. ASSUME NEW c \in Call, Advance(c) PROVE Apart'
    <3>1. OwnStep(c)
      BY <2>0, <2>2, CreateOwns, WriteOwns, ReclaimOwns, ReleaseOwns DEF Advance
    <3> QED BY <1>2, <2>0, <3>1, StepKeepsApart
  <2>3. ASSUME NEW c \in Call, NEW f \in Name, Expire(c, f) PROVE FALSE
    <3>1. c \in expired'[f]
      BY <2>0, <2>3 DEF Expire, TypeOK
    <3> QED BY <3>1 DEF NothingExpired
  <2>4. CASE UNCHANGED vars
    BY <2>0, <2>4 DEF vars, Apart, Active, Owns, OwnsLock, OwnsRecovery, Served, Owned,
                      Writing, Archiving
  <2> QED BY <1>2, <2>1, <2>2, <2>3, <2>4 DEF Next
<1> HIDE DEF Guarded
<1>3. Spec /\ []Guarded => []Apart
  BY <1>1, <1>2, Types, PTL DEF Spec
<1> QED BY <1>3 DEF Guarded

\* Two writers are in the lock together only if a record expired under its
\* writer, or one call archived RECOVERY while another had created it and not
\* yet written its record.
THEOREM ExclusionOutsideTheWindow ==
  Spec /\ [](NothingExpired /\ RecoveryWrittenFirst) => []MutualExclusion
<1>1. Apart => MutualExclusion
  <2> SUFFICES ASSUME Apart, NEW c \in Call, NEW d \in Call,
                      at[c].step = "held", at[d].step = "held"
               PROVE  c = d
    BY DEF MutualExclusion
  <2>1. Owns(c, "LOCK") /\ Owns(d, "LOCK")
    BY DEF Owns, OwnsLock
  <2> QED BY <2>1 DEF Apart, Owned, Name
<1> QED BY <1>1, ApartHolds, PTL

-----------------------------------------------------------------------------
(* The lock is an exclusion lock. *)

Holders == {c \in Call : at[c].step = "held"}
Lock == INSTANCE Exclusion WITH Caller <- Call, inside <- Holders

\* A step that lets at most one call in, under mutual exclusion before and
\* after, is a step of the exclusion lock.
LEMMA OneEnters ==
  ASSUME MutualExclusion, MutualExclusion',
         \/ Holders' \subseteq Holders
         \/ \E c \in Call \ Holders : Holders' = Holders \union {c}
  PROVE  [Lock!Next]_Holders
<1>1. \A c, d \in Holders : c = d
  BY DEF MutualExclusion, Holders
<1>2. \A c, d \in Holders' : c = d
  BY DEF MutualExclusion, Holders
<1> DEFINE H == Holders
           J == Holders'
<1>3. (\A c, d \in H : c = d) /\ (\A c, d \in J : c = d)
  BY <1>1, <1>2
<1>4. J \subseteq H \/ \E c \in Call \ H : J = H \union {c}
  OBVIOUS
<1> HIDE DEF H, J
<1>5. J = H \/ (H # {} /\ J = {}) \/ \E c \in Call : H = {} /\ J = {c}
  BY <1>3, <1>4
<1>6. QED
  BY <1>5 DEF H, J, Lock!Next, Lock!Enter, Lock!Leave

\* The store lock lets the next writer in only when the one inside has left
\* or died.
ImplementsExclusion == Lock!Spec

\* What a step does to who is inside.
LEMMA StepLetsOneIn ==
  ASSUME TypeOK, NEW c \in Call, Begin(c) \/ Advance(c) \/ Die(c)
  PROVE  \/ Holders' \subseteq Holders
         \/ \E d \in Call \ Holders : Holders' = Holders \union {d}
<1> DEFINE Moves == at' = at \/ \E s, f : Goto(c, s, f)
<1> DEFINE g == at[c].file
<1>0. Throw(c, g) \/ Released(c, g) => Moves
  <2>1. g \in Name
    BY DEF TypeOK
  <2>2. Throw(c, g) => Moves
    BY DEF Throw
  <2>3. Released(c, g) => Moves
    BY <2>1 DEF Released, Name
  <2>4. QED
    BY <2>2, <2>3
<1>1. Moves
  <2>1. CASE Begin(c) \/ Finish(c) \/ Snapshot(c) \/ Move(c)
    BY <1>0, <2>1 DEF Begin, Finish, Snapshot, Move
  <2>2. CASE Create(c) \/ WriteRecord(c) \/ WriteFails(c)
    BY <1>0, <2>2 DEF Create, WriteRecord, WriteFails
  <2>3. CASE Inspect(c)
    BY <1>0, <2>3 DEF Inspect
  <2>4. CASE Compare(c)
    <3>1. g \in Name /\ tries[c] \in 0..2 /\ task[c] \in {"write", "clear"}
      BY DEF TypeOK
    <3>2. tries[c] < 2 \/ tries[c] >= 2
      BY <3>1
    <3>3. QED
      BY <1>0, <2>4, <3>1, <3>2 DEF Compare, Name
  <2>5. CASE Release(c) \/ Unlink(c)
    BY <1>0, <2>5 DEF Release, Unlink
  <2>6. CASE Die(c)
    BY <2>6 DEF Die
  <2>7. QED
    BY <2>1, <2>2, <2>3, <2>4, <2>5, <2>6 DEF Advance
<1>2. \A d \in Call \ {c} : at'[d] = at[d]
  BY <1>1 DEF TypeOK, Goto
<1>3. QED
  BY <1>2 DEF Holders

\* Under the hypotheses of ExclusionOutsideTheWindow it is an exclusion lock.
THEOREM ExclusionLockOutsideTheWindow ==
  Spec /\ [](NothingExpired /\ RecoveryWrittenFirst) => ImplementsExclusion
<1> DEFINE Guarded == NothingExpired /\ RecoveryWrittenFirst
<1>1. Init => Lock!Init
  BY DEF Init, At, Lock!Init, Holders
<1>2. TypeOK /\ MutualExclusion /\ MutualExclusion' /\ [Next]_vars
        => [Lock!Next]_Holders
  <2> SUFFICES ASSUME TypeOK, MutualExclusion, MutualExclusion', [Next]_vars
               PROVE  \/ Holders' \subseteq Holders
                      \/ \E c \in Call \ Holders : Holders' = Holders \union {c}
    BY OneEnters
  <2>1. ASSUME NEW c \in Call, Begin(c) \/ Advance(c) \/ Die(c)
        PROVE  \/ Holders' \subseteq Holders
               \/ \E d \in Call \ Holders : Holders' = Holders \union {d}
    BY <2>1, StepLetsOneIn
  <2>2. ASSUME NEW c \in Call, NEW f \in Name, Expire(c, f) PROVE Holders' \subseteq Holders
    BY <2>2 DEF Expire, Holders
  <2>3. CASE UNCHANGED vars
    BY <2>3 DEF vars, Holders
  <2>4. QED
    BY <2>1, <2>2, <2>3 DEF Next
<1>3. Spec /\ []Guarded => []MutualExclusion
  BY ExclusionOutsideTheWindow
<1> HIDE DEF Guarded
<1>4. Spec /\ []Guarded => ImplementsExclusion
  BY <1>1, <1>2, <1>3, TypeCorrect, PTL DEF Spec, ImplementsExclusion, Lock!Spec
<1>5. QED
  BY <1>4 DEF Guarded

=============================================================================
