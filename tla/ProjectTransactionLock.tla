----------------------- MODULE ProjectTransactionLock -----------------------
(***************************************************************************)
(* The project transaction lock of                                         *)
(* packages/cli/src/services/operate/project-transaction-lock.ts           *)
(* (withOperateProjectTransaction): one file, created with the 'wx' flag,  *)
(* that names the pid and the nonce of the call holding it.  Store commits,*)
(* storage migration and its rollback all run inside it.                   *)
(*                                                                         *)
(* A call writes at most one lock file and its nonce is never reused, so   *)
(* the call stands for its file and for the bytes in it.  Creating the     *)
(* file and writing the record are two steps: between them the file exists *)
(* and is empty.  removeExactLock compares the bytes and then removes      *)
(* whatever file has the name: two steps again.                            *)
(***************************************************************************)
EXTENDS Integers

CONSTANTS
  Call,              \* the calls of withOperateProjectTransaction
  NoCall,            \* no lock file
  Process,           \* the pids
  pid                \* the process each call runs in

ASSUME CallAssumption == NoCall \notin Call
ASSUME PidAssumption == pid \in [Call -> Process]

VARIABLES
  lock,      \* the call whose file has the lock's name, or NoCall
  written,   \* the record is in that file
  pc,        \* pc[c]: where the call is
  saw,       \* saw[c]: the holder c read and is about to judge or remove
  expired,   \* expired[c]: timeoutMs have passed since c began
  alive      \* alive[p]: process.kill(p, 0) succeeds

vars == <<lock, written, pc, saw, expired, alive>>

Inside == {"held", "releasing", "dropping"}
Acquiring == {"trying", "writing", "reading", "judging", "reclaiming",
              "unlinking", "waiting"}
Running == Inside \union Acquiring
Ended == {"done", "failed", "crashed"}

Init ==
  /\ lock = NoCall
  /\ written = FALSE
  /\ pc = [c \in Call |-> "idle"]
  /\ saw = [c \in Call |-> NoCall]
  /\ expired = [c \in Call |-> FALSE]
  /\ alive = [p \in Process |-> TRUE]

-----------------------------------------------------------------------------

Goto(c, l) == pc' = [pc EXCEPT ![c] = l]

\* open(lockPath, 'wx') succeeds.
NameIsFree == lock = NoCall

\* Mutant of HolderIsDead: a call past its own deadline takes the lock over.
HolderIsDeadOrSlow(c) == expired[c] \/ ~alive[pid[saw[c]]]

\* processIsAlive fails for the holder c read.
HolderIsDead(c) == ~alive[pid[saw[c]]]

\* Mutant of TimedOut: the deadline is never looked at.
NeverTimedOut(c) == FALSE

\* Date.now() - createdAt >= timeoutMs.
TimedOut(c) == expired[c]

\* Mutant of OwnsFile: the record last read is compared, not the call's own.
FileIsTheOneSeen(c) == lock = saw[c] /\ written

\* current.raw === expectedRaw, for the call's own record.
OwnsFile(c) == lock = c /\ written

\* The caller asks for a transaction.
Begin(c) ==
  /\ pc[c] = "idle"
  /\ alive[pid[c]]
  /\ Goto(c, "trying")
  /\ UNCHANGED <<lock, written, saw, expired, alive>>

\* writeFile(lockPath, ..., 'wx') opens a new, empty file ...
Create(c) ==
  /\ pc[c] = "trying"
  /\ NameIsFree
  /\ lock' = c
  /\ written' = FALSE
  /\ Goto(c, "writing")
  /\ UNCHANGED <<saw, expired, alive>>

\* ... and writes the record into it, whatever name the file still has.
Write(c) ==
  /\ pc[c] = "writing"
  /\ written' = (IF lock = c THEN TRUE ELSE written)
  /\ Goto(c, "held")
  /\ UNCHANGED <<lock, saw, expired, alive>>

\* writeFile throws after it created the file (no space left): the call
\* throws, and the file stays, empty.
WriteFails(c) ==
  /\ pc[c] = "writing"
  /\ Goto(c, "failed")
  /\ UNCHANGED <<lock, written, saw, expired, alive>>

\* EEXIST.
FindExisting(c) ==
  /\ pc[c] = "trying"
  /\ ~NameIsFree
  /\ Goto(c, "reading")
  /\ UNCHANGED <<lock, written, saw, expired, alive>>

\* readLock: the file is gone (try again at once), unreadable (the call
\* throws), or names a holder.
Read(c) ==
  /\ pc[c] = "reading"
  /\ \/ lock = NoCall /\ Goto(c, "trying") /\ UNCHANGED saw
     \/ lock # NoCall /\ ~written /\ Goto(c, "failed") /\ UNCHANGED saw
     \/ /\ lock # NoCall /\ written
        /\ saw' = [saw EXCEPT ![c] = lock]
        /\ Goto(c, "judging")
  /\ UNCHANGED <<lock, written, expired, alive>>

\* processIsAlive.
Judge(c) ==
  /\ pc[c] = "judging"
  /\ Goto(c, IF HolderIsDead(c) THEN "reclaiming" ELSE "waiting")
  /\ UNCHANGED <<lock, written, saw, expired, alive>>

\* removeExactLock for a dead holder: its first half, which reads the file
\* again and compares the bytes.
Recheck(c) ==
  /\ pc[c] = "reclaiming"
  /\ \/ lock = NoCall /\ Goto(c, "trying")
     \/ lock # NoCall /\ ~written /\ Goto(c, "failed")
     \/ lock # NoCall /\ written /\ lock # saw[c] /\ Goto(c, "waiting")
     \/ lock = saw[c] /\ written /\ Goto(c, "unlinking")
  /\ UNCHANGED <<lock, written, saw, expired, alive>>

\* Mutant of Remove: the name goes, the record is remembered.
RemoveNameOnly(c, next) ==
  /\ lock' = NoCall
  /\ Goto(c, IF lock = NoCall THEN "failed" ELSE next)
  /\ UNCHANGED <<written, saw, expired, alive>>

\* rm(lockPath): whichever file has the name now is removed; ENOENT throws.
Remove(c, next) ==
  /\ lock' = NoCall
  /\ written' = FALSE
  /\ Goto(c, IF lock = NoCall THEN "failed" ELSE next)
  /\ UNCHANGED <<saw, expired, alive>>

\* removeExactLock for a dead holder: its second half.
Unlink(c) ==
  /\ pc[c] = "unlinking"
  /\ Remove(c, "trying")

\* wait(pollMs), unless the timeout has passed.
Poll(c) ==
  /\ pc[c] = "waiting"
  /\ Goto(c, IF TimedOut(c) THEN "failed" ELSE "trying")
  /\ UNCHANGED <<lock, written, saw, expired, alive>>

\* Date.now() - createdAt reaches timeoutMs.
DeadlinePasses(c) ==
  /\ pc[c] \in Acquiring
  /\ ~expired[c]
  /\ expired' = [expired EXCEPT ![c] = TRUE]
  /\ UNCHANGED <<lock, written, pc, saw, alive>>

\* The action returned or threw.
Finish(c) ==
  /\ pc[c] = "held"
  /\ Goto(c, "releasing")
  /\ UNCHANGED <<lock, written, saw, expired, alive>>

\* removeExactLock for the call's own record: a lock that is gone counts as
\* released, another record or an unreadable one makes the call throw.
CheckOwn(c) ==
  /\ pc[c] = "releasing"
  /\ \/ lock = NoCall /\ Goto(c, "done")
     \/ lock # NoCall /\ ~OwnsFile(c) /\ Goto(c, "failed")
     \/ lock # NoCall /\ OwnsFile(c) /\ Goto(c, "dropping")
  /\ UNCHANGED <<lock, written, saw, expired, alive>>

Drop(c) ==
  /\ pc[c] = "dropping"
  /\ Remove(c, "done")

\* A process dies where it is; the lock file stays.
Crash(p) ==
  /\ alive[p]
  /\ alive' = [alive EXCEPT ![p] = FALSE]
  /\ pc' = [c \in Call |->
              IF pid[c] = p /\ pc[c] \in Running THEN "crashed" ELSE pc[c]]
  /\ UNCHANGED <<lock, written, saw, expired>>

\* The pid is given to another process, which may make the idle calls of p.
Respawn(p) ==
  /\ ~alive[p]
  /\ alive' = [alive EXCEPT ![p] = TRUE]
  /\ UNCHANGED <<lock, written, pc, saw, expired>>

Advance(c) ==
  \/ Create(c)
  \/ Write(c)
  \/ FindExisting(c)
  \/ Read(c)
  \/ Judge(c)
  \/ Recheck(c)
  \/ Unlink(c)
  \/ Poll(c)
  \/ Finish(c)
  \/ CheckOwn(c)
  \/ Drop(c)

Next ==
  \/ \E c \in Call : Begin(c) \/ Advance(c) \/ WriteFails(c) \/ DeadlinePasses(c)
  \/ \E p \in Process : Crash(p) \/ Respawn(p)

Spec == Init /\ [][Next]_vars

(***************************************************************************)
(* A live process is scheduled, the protected action returns, and the      *)
(* clock advances.  Beginning a call, crashes and pid reuse are left free. *)
(***************************************************************************)
FairSpec ==
  Spec /\ \A c \in Call : WF_vars(Advance(c)) /\ WF_vars(DeadlinePasses(c))

-----------------------------------------------------------------------------

TypeOK ==
  /\ lock \in Call \union {NoCall}
  /\ written \in BOOLEAN
  /\ written => lock # NoCall
  /\ pc \in [Call -> {"idle"} \union Running \union Ended]
  /\ saw \in [Call -> Call \union {NoCall}]
  /\ expired \in [Call -> BOOLEAN]
  /\ alive \in [Process -> BOOLEAN]

\* "Serializes every project-local Operate writer, migration, and rollback":
\* two actions never run together.
MutualExclusion ==
  \A c, d \in Call : pc[c] = "held" /\ pc[d] = "held" => c = d

\* The same while no call has died half-way: whatever processes come and go
\* around the calls, a reclaiming call never takes the lock of a live one.
ExclusionUntilACrash ==
  (\A c \in Call : pc[c] # "crashed") => MutualExclusion

\* A call that returned or threw has not left its record behind, where it
\* would keep every later call waiting on a live pid.
NoRecordLeftBehind ==
  \A c \in Call : pc[c] \in {"done", "failed"} => ~(lock = c /\ written)

\* No call waits for ever: it runs, times out, throws or dies, whatever
\* crashed while creating or holding the lock.
EveryCallEnds ==
  \A c \in Call : pc[c] = "trying" ~> pc[c] \in Ended

=============================================================================
