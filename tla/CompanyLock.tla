------------------------------ MODULE CompanyLock ------------------------------
(***************************************************************************)
(* The lock that the company commands take around sign-in state            *)
(* (CompanyAuthStore.locked, packages/cli/src/services/                    *)
(* company-auth-store.ts) and around a publication binding                 *)
(* (withBindingLock, company-sync-service.ts).                             *)
(*                                                                         *)
(* A call writes its owner file in full and links it to the lock's name,   *)
(* so the lock is never seen half-written, and the call stands for its     *)
(* nonce and for the bytes.  The lock of a dead call is unlinked under a   *)
(* claim: a second file, created with 'wx', that is named after the dead   *)
(* call's nonce.                                                           *)
(*                                                                         *)
(* The two functions differ in what a call does that finds the lock        *)
(* taken: sign-in polls for thirty seconds, a binding is refused at once   *)
(* or after three attempts.                                                *)
(*                                                                         *)
(* polls says which of the two is modelled, quiet how the calls come:      *)
(* one after the other, with no pid reused, or in any way at all.          *)
(***************************************************************************)
EXTENDS Integers

CONSTANTS
  Call,              \* the calls
  NoCall,            \* the lock's name is free
  Process,           \* the pids
  pid,               \* the process each call runs in
  MaxAttempts        \* the attempts of a call that does not poll

ASSUME CallAssumption == NoCall \notin Call
ASSUME PidAssumption == pid \in [Call -> Process]
ASSUME AttemptAssumption == MaxAttempts \in Nat \ {0, 1}

VARIABLES
  polls,     \* the function: a call polls (sign-in) or is refused (binding)
  quiet,     \* calls come one after the other, and no pid is reused
  lock,      \* the call whose owner file has the lock's name, or NoCall
  claims,    \* the calls whose nonce a recovery file is named after
  pc,        \* pc[c]: where the call is
  saw,       \* saw[c]: the owner c read
  attempts,  \* attempts[c]: the attempts c has made, if it does not poll
  alive      \* alive[p]: process.kill(p, 0) finds the process

world == <<polls, quiet>>
vars == <<world, lock, claims, pc, saw, attempts, alive>>

Inside == {"held", "releasing", "dropping"}
Claiming == {"claimed", "unlinking", "unclaiming"}
Running == Inside \union Claiming \union {"trying", "reading", "judging",
                                          "recovering", "waiting"}
Ended == {"done", "busy", "cancelled", "crashed"}

Init ==
  /\ polls \in BOOLEAN
  /\ quiet \in BOOLEAN
  /\ lock = NoCall
  /\ claims = {}
  /\ pc = [c \in Call |-> "idle"]
  /\ saw = [c \in Call |-> NoCall]
  /\ attempts = [c \in Call |-> 0]
  /\ alive = [p \in Process |-> TRUE]

-----------------------------------------------------------------------------

Goto(c, l) == pc' = [pc EXCEPT ![c] = l]

\* The owner file is written; the loop begins.
Begin(c) ==
  /\ pc[c] = "idle"
  /\ alive[pid[c]]
  /\ quiet => \A d \in Call : pc[d] \notin Running
  /\ Goto(c, "trying")
  /\ UNCHANGED <<world, lock, claims, saw, attempts, alive>>

\* Mutant of Exhausted: the loop runs once more.
ExhaustedLate(c) == ~polls /\ attempts[c] > MaxAttempts

\* The loop of a call that does not poll has run MaxAttempts times.
Exhausted(c) == ~polls /\ attempts[c] = MaxAttempts

\* link(ownerPath, lock) succeeds.
Link(c) ==
  /\ pc[c] = "trying"
  /\ ~Exhausted(c)
  /\ lock = NoCall
  /\ lock' = c
  /\ Goto(c, "held")
  /\ UNCHANGED <<world, claims, saw, attempts, alive>>

\* EEXIST.
FindTaken(c) ==
  /\ pc[c] = "trying"
  /\ ~Exhausted(c)
  /\ lock # NoCall
  /\ Goto(c, "reading")
  /\ attempts' = IF polls THEN attempts ELSE [attempts EXCEPT ![c] = @ + 1]
  /\ UNCHANGED <<world, lock, claims, saw, alive>>

\* "The binding lock changed during recovery."
RunOut(c) ==
  /\ pc[c] = "trying"
  /\ Exhausted(c)
  /\ Goto(c, "busy")
  /\ UNCHANGED <<world, lock, claims, saw, attempts, alive>>

\* The lock is read: released in the meantime, or the owner is known.
Read(c) ==
  /\ pc[c] = "reading"
  /\ \/ /\ lock = NoCall
        /\ Goto(c, "trying")
        /\ UNCHANGED saw
     \/ /\ lock # NoCall
        /\ saw' = [saw EXCEPT ![c] = lock]
        /\ Goto(c, "judging")
  /\ UNCHANGED <<world, lock, claims, attempts, alive>>

\* Mutant of Terminated: no owner is ever taken for dead.
NeverTerminated(d) == FALSE

\* process.kill fails with ESRCH.
Terminated(d) == ~alive[pid[d]]

\* A dead owner's lock is to be recovered; a live one's is waited for, or
\* the call is refused.
Judge(c) ==
  /\ pc[c] = "judging"
  /\ \/ Terminated(saw[c]) /\ Goto(c, "recovering")
     \/ ~Terminated(saw[c]) /\ Goto(c, IF polls THEN "waiting" ELSE "busy")
  /\ UNCHANGED <<world, lock, claims, saw, attempts, alive>>

\* open(recoveryPath, 'wx') succeeds.
Unclaimed(d) == d \notin claims

\* The claim on the dead owner, or, when another call has it, the wait or
\* the refusal.
Claim(c) ==
  /\ pc[c] = "recovering"
  /\ \/ /\ Unclaimed(saw[c])
        /\ claims' = claims \union {saw[c]}
        /\ Goto(c, "claimed")
     \/ /\ ~Unclaimed(saw[c])
        /\ Goto(c, IF polls THEN "waiting" ELSE "busy")
        /\ UNCHANGED claims
  /\ UNCHANGED <<world, lock, saw, attempts, alive>>

\* Mutant of StillThere: the owner is not read again under the claim.
StillThereOrNot(c) == lock # NoCall

\* The lock, read again under the claim, still has the dead owner's bytes.
StillThere(c) == lock = saw[c]

Recheck(c) ==
  /\ pc[c] = "claimed"
  /\ Goto(c, IF StillThere(c) THEN "unlinking" ELSE "unclaiming")
  /\ UNCHANGED <<world, lock, claims, saw, attempts, alive>>

\* unlink removes whatever has the lock's name.
Unlink(c) ==
  /\ pc[c] = "unlinking"
  /\ lock' = NoCall
  /\ Goto(c, "unclaiming")
  /\ UNCHANGED <<world, claims, saw, attempts, alive>>

\* Mutant of ClaimsLeft: the recovery file is not removed.
ClaimsKept(c) == claims

\* The recovery files once c has removed its own.
ClaimsLeft(c) == claims \ {saw[c]}

Unclaim(c) ==
  /\ pc[c] = "unclaiming"
  /\ claims' = ClaimsLeft(c)
  /\ Goto(c, "trying")
  /\ UNCHANGED <<world, lock, saw, attempts, alive>>

\* The delay is over; or the thirty seconds are, and the call is refused.
Poll(c) ==
  /\ pc[c] = "waiting"
  /\ Goto(c, "trying") \/ Goto(c, "busy")
  /\ UNCHANGED <<world, lock, claims, saw, attempts, alive>>

\* The caller of a sign-in aborts it.
Cancel(c) ==
  /\ polls
  /\ pc[c] \in {"trying", "waiting"}
  /\ Goto(c, "cancelled")
  /\ UNCHANGED <<world, lock, claims, saw, attempts, alive>>

\* The action returns or throws.
Finish(c) ==
  /\ pc[c] = "held"
  /\ Goto(c, "releasing")
  /\ UNCHANGED <<world, lock, claims, saw, attempts, alive>>

\* finally: the lock is read, and is the call's own.
CheckOwn(c) ==
  /\ pc[c] = "releasing"
  /\ Goto(c, IF lock = c THEN "dropping" ELSE "done")
  /\ UNCHANGED <<world, lock, claims, saw, attempts, alive>>

Drop(c) ==
  /\ pc[c] = "dropping"
  /\ lock' = NoCall
  /\ Goto(c, "done")
  /\ UNCHANGED <<world, claims, saw, attempts, alive>>

\* A process dies, with every call in it.
Crash(p) ==
  /\ alive[p]
  /\ alive' = [alive EXCEPT ![p] = FALSE]
  /\ pc' = [c \in Call |-> IF pid[c] = p /\ pc[c] \in Running
                           THEN "crashed" ELSE pc[c]]
  /\ UNCHANGED <<world, lock, claims, saw, attempts>>

\* The pid is given to a new process.
Respawn(p) ==
  /\ ~quiet
  /\ ~alive[p]
  /\ alive' = [alive EXCEPT ![p] = TRUE]
  /\ UNCHANGED <<world, lock, claims, pc, saw, attempts>>

Advance(c) ==
  \/ Begin(c)
  \/ Link(c)
  \/ FindTaken(c)
  \/ RunOut(c)
  \/ Read(c)
  \/ Judge(c)
  \/ Claim(c)
  \/ Recheck(c)
  \/ Unlink(c)
  \/ Unclaim(c)
  \/ Poll(c)
  \/ Cancel(c)
  \/ Finish(c)
  \/ CheckOwn(c)
  \/ Drop(c)

Next ==
  \/ \E c \in Call : Advance(c)
  \/ \E p \in Process : Crash(p) \/ Respawn(p)

Spec == Init /\ [][Next]_vars

-----------------------------------------------------------------------------

TypeOK ==
  /\ polls \in BOOLEAN
  /\ quiet \in BOOLEAN
  /\ lock \in Call \union {NoCall}
  /\ claims \subseteq Call
  /\ pc \in [Call -> {"idle"} \union Running \union Ended]
  /\ saw \in [Call -> Call \union {NoCall}]
  /\ \A c \in Call : pc[c] \in Claiming \union {"judging", "recovering"}
       => saw[c] # NoCall
  /\ attempts \in [Call -> 0..MaxAttempts]
  /\ alive \in [Process -> BOOLEAN]

\* "Across CLI processes, only one company credential write/refresh can run at
\* once": no two calls are inside, whoever dies, whoever recovers whom, and
\* whatever pids are reused.
MutualExclusion ==
  \A c, d \in Call : pc[c] \in Inside /\ pc[d] \in Inside => c = d

\* A call that ends without dying leaves neither the lock nor a claim behind:
\* the lock belongs to a call inside or dead, a claim to a call that is
\* recovering or died recovering.
OnlyTheDeadLeaveFiles ==
  /\ lock # NoCall => pc[lock] \in Inside \union {"crashed"}
  /\ \A d \in claims :
       \E c \in Call : saw[c] = d /\ pc[c] \in Claiming \union {"crashed"}

\* A call that has the lock to itself is refused only if a call that died
\* recovering the lock left its claim, whatever the calls before it left.
OnlyClaimsBlock ==
  quiet => \A c \in Call : pc[c] = "busy" => lock # NoCall /\ lock \in claims

=============================================================================
