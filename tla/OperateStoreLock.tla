--------------------------- MODULE OperateStoreLock ---------------------------
(***************************************************************************)
(* The writer lock of the Operate store, packages/cli/src/services/operate/*)
(* store.ts: the file LOCK, taken and cleared by calls that first own the  *)
(* file RECOVERY (acquireLock, releaseLock, clearStaleLock).               *)
(*                                                                         *)
(* Both files are created with the 'wx' flag and then written, so a reader *)
(* may find one empty, which it classifies as 'invalid'.  A stale or       *)
(* invalid file is archived: read, renamed away, and compared with what    *)
(* was read.  Releasing reads the file, compares the owner and unlinks the *)
(* name.  None of these sequences is atomic.                               *)
(*                                                                         *)
(* A call creates each file at most once and its nonces are never reused,  *)
(* so the call stands for the file it created and for the record in it.    *)
(***************************************************************************)
EXTENDS Integers

CONSTANTS
  Call,        \* the calls that take or clear the lock
  NoCall,      \* a name no file has; a file without a record
  FaultsMayHappen,   \* whether a record can expire before its release, and
                     \* the write, sync or close of a record can throw
  Serialized   \* whether the calls run one at a time, as commits do inside
               \* withOperateProjectTransaction (restore and clearStaleLock
               \* do not take that transaction)

ASSUME CallAssumption == NoCall \notin Call
ASSUME SwitchAssumption ==
  FaultsMayHappen \in BOOLEAN /\ Serialized \in BOOLEAN

Name == {"LOCK", "RECOVERY"}

VARIABLES
  file,      \* file[f]: the call whose file has the name f, or NoCall
  wrote,     \* wrote[f]: the calls whose record for f has been written
  expired,   \* expired[f]: the calls whose record for f is past expiresAt
  alive,     \* alive[c]: the process of c answers process.kill(pid, 0)
  task,      \* task[c]: "write" (commit, restore) or "clear"
  at,        \* at[c]: the step c is at, and the file it concerns
  tries,     \* tries[c]: acquireRecoveryLock's attempts so far
  found,     \* found[c]: the owner c's inspection read, NoCall if 'invalid'
  before,    \* before[c]: the record c read before archiving
  moved,     \* moved[c]: the file c has renamed away
  ok,        \* ok[c]: c returns, rather than throws, once it lets RECOVERY go
  broken     \* broken[f]: the calls whose write, sync or close of f threw

vars == <<file, wrote, expired, alive, task, at, tries, found, before, moved, ok,
          broken>>
local == <<tries, found, before, moved, ok, broken>>

Working == {"create", "write", "inspect", "snapshot", "move", "compare",
            "release", "unlink"}
Step == {"idle", "held", "done", "failed", "crashed"} \union Working

At(step, f) == [step |-> step, file |-> f]

Init ==
  /\ file = [f \in Name |-> NoCall]
  /\ wrote = [f \in Name |-> {}]
  /\ expired = [f \in Name |-> {}]
  /\ alive = [c \in Call |-> TRUE]
  /\ task = [c \in Call |-> "write"]
  /\ at = [c \in Call |-> At("idle", "RECOVERY")]
  /\ tries = [c \in Call |-> 0]
  /\ found = [c \in Call |-> NoCall]
  /\ before = [c \in Call |-> NoCall]
  /\ moved = [c \in Call |-> NoCall]
  /\ ok = [c \in Call |-> FALSE]
  /\ broken = [f \in Name |-> {}]

-----------------------------------------------------------------------------

Goto(c, step, f) == at' = [at EXCEPT ![c] = At(step, f)]

\* The record in the file o created under the name f; NoCall while empty.
Record(f, o) == IF o \in wrote[f] THEN o ELSE NoCall

\* inspectNamedLock.
Status(f) ==
  CASE file[f] = NoCall -> "absent"
    [] file[f] # NoCall /\ Record(f, file[f]) = NoCall -> "invalid"
    [] OTHER -> IF file[f] \in expired[f] \/ ~alive[file[f]]
                THEN "stale" ELSE "live"

\* Mutant of Abandoned: an empty file is left to its creator.
AbandonedByRecord(f) == Status(f) = "stale"

\* What the callers of inspectNamedLock archive.
Abandoned(f) == Status(f) \in {"stale", "invalid"}

Active(c) == at[c].step \in Working \union {"held"}

\* Mutant of Throw: the finally clause is lost.
ThrowAtOnce(c, f) == Goto(c, "failed", f) /\ UNCHANGED ok

\* A throw: with RECOVERY in hand it is released first.
Throw(c, f) ==
  IF f = "LOCK"
  THEN Goto(c, "release", "RECOVERY") /\ ok' = [ok EXCEPT ![c] = FALSE]
  ELSE Goto(c, "failed", f) /\ UNCHANGED ok

Begin(c) ==
  /\ at[c].step = "idle"
  /\ alive[c]
  /\ Serialized => \A d \in Call : ~Active(d)
  /\ \E t \in {"write", "clear"} : task' = [task EXCEPT ![c] = t]
  /\ Goto(c, "create", "RECOVERY")
  /\ UNCHANGED <<file, wrote, expired, alive, local>>

\* Mutant of Attempts: the attempts at LOCK are counted too.
AttemptsAtAny(c, f) == tries[c] + 1

\* acquireRecoveryLock's attempt counter.
Attempts(c, f) == IF f = "RECOVERY" THEN tries[c] + 1 ELSE tries[c]

\* open(name, 'wx').  EEXIST: RECOVERY is inspected; a LOCK that came back
\* is a conflict.
Create(c) ==
  LET f == at[c].file IN
  /\ at[c].step = "create"
  /\ IF file[f] = NoCall
     THEN /\ file' = [file EXCEPT ![f] = c]
          /\ Goto(c, "write", f)
          /\ UNCHANGED ok
     ELSE /\ IF f = "RECOVERY" THEN Goto(c, "inspect", f) /\ UNCHANGED ok
                               ELSE Throw(c, f)
          /\ UNCHANGED file
  /\ tries' = [tries EXCEPT ![c] = Attempts(c, f)]
  /\ UNCHANGED <<wrote, expired, alive, task, found, before, moved, broken>>

\* The record is written, under whatever name the file has now.
WriteRecord(c) ==
  LET f == at[c].file IN
  /\ at[c].step = "write"
  /\ wrote' = [wrote EXCEPT ![f] = @ \union {c}]
  /\ IF f = "RECOVERY"
     THEN Goto(c, "inspect", "LOCK") /\ UNCHANGED ok
     ELSE Goto(c, "release", "RECOVERY") /\ ok' = [ok EXCEPT ![c] = TRUE]
  /\ UNCHANGED <<file, expired, alive, task, tries, found,
                 before, moved, broken>>

\* The write throws (no space left), and the file stays, empty; or the sync
\* or the close after it does, and the file stays with a complete record.
WriteFails(c) ==
  LET f == at[c].file
      complete == [wrote EXCEPT ![f] = @ \union {c}]
  IN
  /\ FaultsMayHappen
  /\ at[c].step = "write"
  /\ wrote' \in {wrote, complete}
  /\ broken' = [broken EXCEPT ![f] = @ \union {c}]
  /\ Throw(c, f)
  /\ UNCHANGED <<file, expired, alive, task, tries, found, before, moved>>

\* inspectNamedLock, and what each caller makes of it: an abandoned file is
\* archived, a writer goes on when LOCK is absent, anything else throws.
Inspect(c) ==
  LET f == at[c].file IN
  /\ at[c].step = "inspect"
  /\ \/ /\ Abandoned(f)
        /\ found' = [found EXCEPT ![c] = Record(f, file[f])]
        /\ Goto(c, "snapshot", f)
        /\ UNCHANGED ok
     \/ /\ ~Abandoned(f)
        /\ IF f = "LOCK" /\ Status(f) = "absent" /\ task[c] = "write"
           THEN Goto(c, "create", f) /\ UNCHANGED ok
           ELSE Throw(c, f)
        /\ UNCHANGED found
  /\ UNCHANGED <<file, wrote, expired, alive, task, tries,
                 before, moved, broken>>

\* archiveNamedStaleLock: the first read ...
Snapshot(c) ==
  LET f == at[c].file IN
  /\ at[c].step = "snapshot"
  /\ IF file[f] = NoCall
     THEN Throw(c, f) /\ UNCHANGED before
     ELSE /\ before' = [before EXCEPT ![c] = Record(f, file[f])]
          /\ Goto(c, "move", f)
          /\ UNCHANGED ok
  /\ UNCHANGED <<file, wrote, expired, alive, task, tries, found, moved, broken>>

\* ... the rename, of whichever file has the name now ...
Move(c) ==
  LET f == at[c].file IN
  /\ at[c].step = "move"
  /\ IF file[f] = NoCall
     THEN Throw(c, f) /\ UNCHANGED <<file, moved>>
     ELSE /\ moved' = [moved EXCEPT ![c] = file[f]]
          /\ file' = [file EXCEPT ![f] = NoCall]
          /\ Goto(c, "compare", f)
          /\ UNCHANGED ok
  /\ UNCHANGED <<wrote, expired, alive, task, tries, found, before, broken>>

\* ... and the comparison of the archived bytes with the first read and
\* with the inspected owner.  RECOVERY may be tried once more.
Compare(c) ==
  LET f == at[c].file
      archived == Record(f, moved[c])
  IN
  /\ at[c].step = "compare"
  /\ IF archived # before[c] \/ (found[c] # NoCall /\ archived # found[c])
     THEN Throw(c, f)
     ELSE CASE f = "RECOVERY" /\ tries[c] < 2 -> Goto(c, "create", f) /\ UNCHANGED ok
            [] f = "RECOVERY" /\ tries[c] >= 2 -> Throw(c, f)
            [] f = "LOCK" /\ task[c] = "write" -> Goto(c, "create", f) /\ UNCHANGED ok
            [] f = "LOCK" /\ task[c] = "clear" ->
                 /\ Goto(c, "release", "RECOVERY")
                 /\ ok' = [ok EXCEPT ![c] = TRUE]
  /\ UNCHANGED <<file, wrote, expired, alive, task, tries, found,
                 before, moved, broken>>

\* releaseNamedLock returns.
Released(c, f) ==
  CASE f = "LOCK" -> Goto(c, "done", f)
    [] f = "RECOVERY" /\ ~ok[c] -> Goto(c, "failed", f)
    [] f = "RECOVERY" /\ ok[c] ->
         Goto(c, IF task[c] = "write" THEN "held" ELSE "done", f)

\* releaseNamedLock: a file that is gone counts as released; an empty one or
\* another owner's makes the call throw, leaving every file as it is.
Release(c) ==
  LET f == at[c].file IN
  /\ at[c].step = "release"
  /\ CASE file[f] = NoCall -> Released(c, f)
       [] file[f] # NoCall /\ Record(f, file[f]) = c -> Goto(c, "unlink", f)
       [] OTHER -> Goto(c, "failed", f)
  /\ UNCHANGED <<file, wrote, expired, alive, task, local>>

Unlink(c) ==
  LET f == at[c].file IN
  /\ at[c].step = "unlink"
  /\ file' = [file EXCEPT ![f] = NoCall]
  /\ Released(c, f)
  /\ UNCHANGED <<wrote, expired, alive, task, local>>

\* The write under the lock returned or threw.
Finish(c) ==
  /\ at[c].step = "held"
  /\ Goto(c, "release", "LOCK")
  /\ UNCHANGED <<file, wrote, expired, alive, task, local>>

\* The process of c dies, during the call or after it.
Die(c) ==
  /\ alive[c]
  /\ alive' = [alive EXCEPT ![c] = FALSE]
  /\ IF Active(c) THEN Goto(c, "crashed", at[c].file) ELSE UNCHANGED at
  /\ UNCHANGED <<file, wrote, expired, task, local>>

\* LOCK_TTL_MS after the record was made, with the process of c suspended.
Expire(c, f) ==
  /\ FaultsMayHappen
  /\ file[f] = c
  /\ c \in wrote[f]
  /\ c \notin expired[f]
  /\ expired' = [expired EXCEPT ![f] = @ \union {c}]
  /\ UNCHANGED <<file, wrote, alive, task, at, local>>

Advance(c) ==
  \/ Create(c)
  \/ WriteRecord(c)
  \/ WriteFails(c)
  \/ Inspect(c)
  \/ Snapshot(c)
  \/ Move(c)
  \/ Compare(c)
  \/ Release(c)
  \/ Unlink(c)
  \/ Finish(c)

Next ==
  \E c \in Call :
    \/ Begin(c)
    \/ Advance(c)
    \/ Die(c)
    \/ \E f \in Name : Expire(c, f)

Spec == Init /\ [][Next]_vars

-----------------------------------------------------------------------------

TypeOK ==
  /\ file \in [Name -> Call \union {NoCall}]
  /\ wrote \in [Name -> SUBSET Call]
  /\ expired \in [Name -> SUBSET Call]
  /\ alive \in [Call -> BOOLEAN]
  /\ task \in [Call -> {"write", "clear"}]
  /\ at \in [Call -> [step : Step, file : Name]]
  /\ tries \in [Call -> 0..2]
  /\ found \in [Call -> Call \union {NoCall}]
  /\ before \in [Call -> Call \union {NoCall}]
  /\ moved \in [Call -> Call \union {NoCall}]
  /\ ok \in [Call -> BOOLEAN]
  /\ broken \in [Name -> SUBSET Call]

\* "Cross-process custody remains protected by the durable Store lock": two
\* writers are never inside the lock together.
MutualExclusion ==
  \A c, d \in Call : at[c].step = "held" /\ at[d].step = "held" => c = d

\* The call is bound to throw, or has thrown.
Doomed(c) ==
  \/ at[c].step = "failed"
  \/ /\ at[c].step \in {"release", "unlink"}
     /\ at[c].file = "RECOVERY"
     /\ ~ok[c]

\* A writer that runs alone gets the lock, wherever its predecessors died,
\* threw or expired: between creating and writing either file, while
\* archiving, or holding both; two attempts at RECOVERY are enough.  What
\* turns it away is the failed write, sync or close of its own record, or
\* a record that is still live of a call whose sync or close failed.
LoneWriterIsServed ==
  [][Serialized =>
       \A c \in Call :
         task[c] = "write" /\ ~Doomed(c) /\ Doomed(c)' =>
           \E f \in Name :
             c \in broken'[f] \/ (Status(f) = "live" /\ file[f] \in broken[f])]_vars

\* What calls that run alone leave behind: a file that outlives its call is
\* empty or of a call that died, so that the next call can reclaim it at
\* once and need not wait for it to expire, or it is the very file whose
\* sync or close failed.
RecordsLeftAreAccountedFor ==
  Serialized =>
    \A f \in Name :
      file[f] # NoCall =>
        \/ Active(file[f])
        \/ at[file[f]].step = "crashed"
        \/ Record(f, file[f]) = NoCall
        \/ file[f] \in broken[f]

=============================================================================
