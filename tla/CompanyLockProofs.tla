--------------------------- MODULE CompanyLockProofs ---------------------------
(***************************************************************************)
(* Proofs about the company locks, for every set of calls and every        *)
(* assignment of calls to processes, whatever dies and whatever pids are   *)
(* reused.  What makes the lock safe where the project transaction lock is *)
(* not: the call that unlinks a dead owner's file has the only claim on    *)
(* that owner, and has seen the file after it took the claim.              *)
(* OnlyClaimsBlock is about calls that come one after the other; the last  *)
(* theorem is the abstract promise that the locks implement.               *)
(***************************************************************************)
EXTENDS CompanyLock, TLAPS

\* A call that has read an owner may act on what it read.
Judging == {"judging", "recovering"} \union Claiming

\* The calls that run are in processes that live.
RunningAlive == \A c \in Call : pc[c] \in Running => alive[pid[c]]

\* The lock's name belongs to the one call inside, or to a dead one.
InsideHasLock == \A c \in Call : pc[c] \in Inside => lock = c
LockHasOwner == lock # NoCall => pc[lock] \in Inside \union {"crashed"}

\* An owner that was read has been inside; one taken for dead has ended.
SawOwner == \A c \in Call : pc[c] \in Judging => pc[saw[c]] \in Inside \union Ended
SawEnded == \A c \in Call : pc[c] \in Claiming \union {"recovering"}
                              => pc[saw[c]] \in Ended

\* A claim has one holder, and its file is there.
ClaimHeld == \A c \in Call : pc[c] \in Claiming => saw[c] \in claims
OneClaimant ==
  \A c, d \in Call : pc[c] \in Claiming /\ pc[d] \in Claiming /\ saw[c] = saw[d]
                       => c = d
ClaimHasOwner ==
  \A d \in claims : \E c \in Call : saw[c] = d /\ pc[c] \in Claiming \union {"crashed"}

\* The holder of the claim saw the dead owner's file, and nobody else removes it.
UnlinksWhatItSaw == \A c \in Call : pc[c] = "unlinking" => lock = saw[c]

IInv ==
  /\ RunningAlive
  /\ InsideHasLock /\ LockHasOwner
  /\ SawOwner /\ SawEnded
  /\ ClaimHeld /\ OneClaimant /\ ClaimHasOwner
  /\ UnlinksWhatItSaw

-----------------------------------------------------------------------------

\* Every variable keeps its type, a call that judges or claims has read an
\* owner, and no call outruns its attempts.
THEOREM TypeCorrect == Spec => []TypeOK
<1> USE CallAssumption, PidAssumption, AttemptAssumption
<1> USE DEF Inside, Claiming, Running, Ended, world
<1>1. Init => TypeOK
  BY DEF Init, TypeOK
<1>2. TypeOK /\ [Next]_vars => TypeOK'
  <2> SUFFICES ASSUME TypeOK, [Next]_vars PROVE TypeOK'
    OBVIOUS
  <2> USE DEF TypeOK, Goto
  <2>1. ASSUME NEW c \in Call, Begin(c) \/ Link(c) \/ RunOut(c) PROVE TypeOK'
    BY <2>1 DEF Begin, Link, RunOut
  <2>2. ASSUME NEW c \in Call, FindTaken(c) PROVE TypeOK'
    <3>1. attempts' \in [Call -> 0..MaxAttempts]
      <4>1. CASE polls
        BY <2>2, <4>1 DEF FindTaken
      <4>2. CASE ~polls
        <5>1. attempts[c] # MaxAttempts
          BY <2>2, <4>2 DEF FindTaken, Exhausted
        <5>2. attempts[c] + 1 \in 0..MaxAttempts
          BY <5>1
        <5>3. QED
          BY <2>2, <4>2, <5>2 DEF FindTaken
      <4>3. QED
        BY <4>1, <4>2
    <3>2. QED
      BY <2>2, <3>1 DEF FindTaken
  <2>3. ASSUME NEW c \in Call, Read(c) \/ Judge(c) PROVE TypeOK'
    BY <2>3 DEF Read, Judge
  <2>4. ASSUME NEW c \in Call, Claim(c) PROVE TypeOK'
    BY <2>4 DEF Claim
  <2>5. ASSUME NEW c \in Call, Recheck(c) \/ Unlink(c) \/ Unclaim(c) PROVE TypeOK'
    BY <2>5 DEF Recheck, Unlink, Unclaim, ClaimsLeft
  <2>6. ASSUME NEW c \in Call, Poll(c) \/ Cancel(c) PROVE TypeOK'
    BY <2>6 DEF Poll, Cancel
  <2>7. ASSUME NEW c \in Call, Finish(c) \/ CheckOwn(c) \/ Drop(c) PROVE TypeOK'
    BY <2>7 DEF Finish, CheckOwn, Drop
  <2>8. ASSUME NEW p \in Process, Crash(p) PROVE TypeOK'
    <3>1. pc' \in [Call -> {"idle"} \union Running \union Ended]
      BY <2>8 DEF Crash
    <3>2. alive' \in [Process -> BOOLEAN]
      BY <2>8 DEF Crash
    <3>3. \A c \in Call : pc'[c] = pc[c] \/ pc'[c] = "crashed"
      BY <2>8 DEF Crash
    <3>4. QED
      BY <2>8, <3>1, <3>2, <3>3 DEF Crash
  <2>9. ASSUME NEW p \in Process, Respawn(p) PROVE TypeOK'
    BY <2>9 DEF Respawn
  <2>10. CASE UNCHANGED vars
    BY <2>10 DEF vars
  <2>11. QED
    BY <2>1, <2>2, <2>3, <2>4, <2>5, <2>6, <2>7, <2>8, <2>9, <2>10
       DEF Next, Advance
<1>3. QED
  BY <1>1, <1>2, PTL DEF Spec

-----------------------------------------------------------------------------

LEMMA IInvHolds == Spec => []IInv
<1> USE CallAssumption, PidAssumption
<1> USE DEF IInv, RunningAlive, InsideHasLock, LockHasOwner, SawOwner, SawEnded,
            ClaimHeld, OneClaimant, ClaimHasOwner, UnlinksWhatItSaw
<1> USE DEF Inside, Claiming, Running, Ended, Judging, world
<1>1. Init => IInv
  BY DEF Init
<1>2. TypeOK /\ IInv /\ [Next]_vars => IInv'
  <2> SUFFICES ASSUME TypeOK, IInv, [Next]_vars PROVE IInv'
    OBVIOUS
  <2> USE DEF TypeOK, Goto
  <2>1. ASSUME NEW c \in Call, Begin(c) PROVE IInv'
    BY <2>1 DEF Begin
  <2>2. ASSUME NEW c \in Call, Link(c) PROVE IInv'
    BY <2>2 DEF Link
  <2>3. ASSUME NEW c \in Call, FindTaken(c) \/ RunOut(c) PROVE IInv'
    BY <2>3 DEF FindTaken, RunOut
  <2>4. ASSUME NEW c \in Call, Read(c) PROVE IInv'
    BY <2>4 DEF Read
  <2>5. ASSUME NEW c \in Call, Judge(c) PROVE IInv'
    BY <2>5 DEF Judge, Terminated
  <2>6. ASSUME NEW c \in Call, Claim(c) PROVE IInv'
    BY <2>6 DEF Claim, Unclaimed
  <2>7. ASSUME NEW c \in Call, Recheck(c) PROVE IInv'
    BY <2>7 DEF Recheck, StillThere
  <2>8. ASSUME NEW c \in Call, Unlink(c) PROVE IInv'
    BY <2>8 DEF Unlink
  <2>9. ASSUME NEW c \in Call, Unclaim(c) PROVE IInv'
    BY <2>9 DEF Unclaim, ClaimsLeft
  <2>10. ASSUME NEW c \in Call, Poll(c) \/ Cancel(c) PROVE IInv'
    BY <2>10 DEF Poll, Cancel
  <2>11. ASSUME NEW c \in Call, Finish(c) \/ CheckOwn(c) PROVE IInv'
    BY <2>11 DEF Finish, CheckOwn
  <2>12. ASSUME NEW c \in Call, Drop(c) PROVE IInv'
    BY <2>12 DEF Drop
  <2>13. ASSUME NEW p \in Process, Crash(p) PROVE IInv'
    BY <2>13 DEF Crash
  <2>14. ASSUME NEW p \in Process, Respawn(p) PROVE IInv'
    BY <2>14 DEF Respawn
  <2>15. CASE UNCHANGED vars
    BY <2>15 DEF vars
  <2>16. QED
    BY <2>1, <2>2, <2>3, <2>4, <2>5, <2>6, <2>7, <2>8, <2>9, <2>10, <2>11,
       <2>12, <2>13, <2>14, <2>15 DEF Next, Advance
<1>3. QED
  BY <1>1, <1>2, TypeCorrect, PTL DEF Spec

\* No two calls are inside at once: each would have the lock's one name.
THEOREM MutualExclusionHolds == Spec => []MutualExclusion
<1>1. IInv => MutualExclusion
  BY DEF IInv, InsideHasLock, MutualExclusion
<1>2. QED
  BY <1>1, IInvHolds, PTL

\* A call that ends without dying leaves neither the lock nor a claim behind.
THEOREM OnlyTheDeadLeaveFilesHolds == Spec => []OnlyTheDeadLeaveFiles
<1>1. IInv => OnlyTheDeadLeaveFiles
  BY DEF IInv, LockHasOwner, ClaimHasOwner, OnlyTheDeadLeaveFiles
<1>2. QED
  BY <1>1, IInvHolds, PTL

-----------------------------------------------------------------------------

\* What a quiet world adds: one call runs at a time, and the dead stay dead.
OneRuns == \A c, d \in Call : pc[c] \in Running /\ pc[d] \in Running => c = d
DeadStayDead == \A c \in Call : pc[c] = "crashed" => ~alive[pid[c]]

\* The lock that a call found, or is about to remove, is still there.
FindsWhatItSaw ==
  /\ \A c \in Call : pc[c] = "reading" => lock # NoCall
  /\ \A c \in Call : pc[c] \in {"judging", "recovering", "claimed"} => lock = saw[c]
  /\ \A c \in Call : pc[c] = "unclaiming" => lock = NoCall

\* A call that was put off met a lock whose claim nobody will give back.
PutOffByClaim ==
  \A c \in Call : pc[c] \in {"waiting", "busy"} =>
    /\ lock # NoCall /\ lock \in claims
    /\ \A d \in Call : pc[d] \notin Claiming \union Inside

\* One attempt finds the lock taken, the next finds it free.
FewAttempts ==
  ~polls => \A c \in Call :
    /\ pc[c] = "idle" => attempts[c] = 0
    /\ pc[c] = "trying" => attempts[c] = 0 \/ (attempts[c] = 1 /\ lock = NoCall)
    /\ pc[c] \in {"reading", "judging", "recovering"} \union Claiming
         => attempts[c] = 1
    /\ pc[c] # "waiting"

QuietInv == OneRuns /\ DeadStayDead /\ FindsWhatItSaw /\ PutOffByClaim /\ FewAttempts

LEMMA QuietInvHolds == Spec => [](quiet => QuietInv)
<1> USE CallAssumption, PidAssumption, AttemptAssumption
<1> USE DEF QuietInv, OneRuns, DeadStayDead, FindsWhatItSaw, PutOffByClaim,
            FewAttempts, Inside, Claiming, Running, Ended, world
<1>1. Init => QuietInv
  BY DEF Init
<1>2. ASSUME TypeOK, IInv, quiet => QuietInv, [Next]_vars
      PROVE  (quiet => QuietInv)'
  <2> USE <1>2
  <2> USE DEF TypeOK, Goto
  <2>1. quiet' = quiet /\ polls' = polls
    BY DEF Next, Advance, Begin, Link, FindTaken, RunOut, Read, Judge, Claim,
           Recheck, Unlink, Unclaim, Poll, Cancel, Finish, CheckOwn, Drop, Crash,
           Respawn, vars
  <2> SUFFICES ASSUME quiet PROVE QuietInv'
    BY <2>1
  <2> USE <2>1
  <2>2. ASSUME NEW c \in Call, Begin(c) PROVE QuietInv'
    BY <2>2 DEF Begin
  <2>3. ASSUME NEW c \in Call, Link(c) PROVE QuietInv'
    BY <2>3 DEF Link
  <2>4. ASSUME NEW c \in Call, FindTaken(c) PROVE QuietInv'
    BY <2>4 DEF FindTaken
  <2>5. ASSUME NEW c \in Call, RunOut(c) PROVE QuietInv'
    BY <2>5 DEF RunOut, Exhausted
  <2>6. ASSUME NEW c \in Call, Read(c) PROVE QuietInv'
    BY <2>6 DEF Read
  <2>7. ASSUME NEW c \in Call, Judge(c) PROVE QuietInv'
    BY <2>7 DEF Judge, Terminated, IInv, LockHasOwner
  <2>8. ASSUME NEW c \in Call, Claim(c) PROVE QuietInv'
    BY <2>8 DEF Claim, Unclaimed
  <2>9. ASSUME NEW c \in Call, Recheck(c) PROVE QuietInv'
    BY <2>9 DEF Recheck, StillThere
  <2>10. ASSUME NEW c \in Call, Unlink(c) PROVE QuietInv'
    BY <2>10 DEF Unlink
  <2>11. ASSUME NEW c \in Call, Unclaim(c) PROVE QuietInv'
    BY <2>11 DEF Unclaim, ClaimsLeft
  <2>12. ASSUME NEW c \in Call, Poll(c) \/ Cancel(c) PROVE QuietInv'
    BY <2>12 DEF Poll, Cancel
  <2>13. ASSUME NEW c \in Call, Finish(c) \/ CheckOwn(c) PROVE QuietInv'
    BY <2>13 DEF Finish, CheckOwn
  <2>14. ASSUME NEW c \in Call, Drop(c) PROVE QuietInv'
    BY <2>14 DEF Drop
  <2>15. ASSUME NEW p \in Process, Crash(p) PROVE QuietInv'
    BY <2>15 DEF Crash
  <2>16. ASSUME NEW p \in Process, Respawn(p) PROVE QuietInv'
    BY <2>16 DEF Respawn
  <2>17. CASE UNCHANGED vars
    BY <2>17 DEF vars
  <2>18. QED
    BY <2>2, <2>3, <2>4, <2>5, <2>6, <2>7, <2>8, <2>9, <2>10, <2>11, <2>12,
       <2>13, <2>14, <2>15, <2>16, <2>17 DEF Next, Advance
<1>3. QED
  BY <1>1, <1>2, TypeCorrect, IInvHolds, PTL DEF Spec

\* A call that has the lock to itself is refused only because of a claim that
\* a dead process left: wherever else the calls before it died, it is served.
THEOREM OnlyClaimsBlockHolds == Spec => []OnlyClaimsBlock
<1>1. (quiet => QuietInv) => OnlyClaimsBlock
  BY DEF QuietInv, PutOffByClaim, OnlyClaimsBlock
<1>2. QED
  BY <1>1, QuietInvHolds, PTL

-----------------------------------------------------------------------------
(* The lock is an exclusion lock. *)

Holders == {c \in Call : pc[c] \in Inside}
Lock == INSTANCE Exclusion WITH Caller <- Call, inside <- Holders

\* A step that lets at most one call in, under mutual exclusion before and
\* after, is a step of the exclusion lock.
LEMMA OneEnters ==
  ASSUME MutualExclusion, MutualExclusion',
         \/ Holders' \subseteq Holders
         \/ \E c \in Call \ Holders : Holders' = Holders \union {c}
  PROVE  [Lock!Next]_Holders
<1>1. \A c, d \in Holders : c = d
  BY DEF MutualExclusion, Holders
<1>2. \A c, d \in Holders' : c = d
  BY DEF MutualExclusion, Holders
<1> DEFINE H == Holders
           J == Holders'
<1>3. (\A c, d \in H : c = d) /\ (\A c, d \in J : c = d)
  BY <1>1, <1>2
<1>4. J \subseteq H \/ \E c \in Call \ H : J = H \union {c}
  OBVIOUS
<1> HIDE DEF H, J
<1>5. J = H \/ (H # {} /\ J = {}) \/ \E c \in Call : H = {} /\ J = {c}
  BY <1>3, <1>4
<1>6. QED
  BY <1>5 DEF H, J, Lock!Next, Lock!Enter, Lock!Leave

\* The sign-in lock and the binding lock let the next call in only when the
\* one inside has left or died.
ImplementsExclusion == Lock!Spec

\* What CompanyAuth and CompanySync rely on when they let one exchange, and
\* one operation, run at a time.
THEOREM ImplementsExclusionHolds == Spec => ImplementsExclusion
<1>1. Init => Lock!Init
  BY DEF Init, Lock!Init, Holders, Inside
<1>2. TypeOK /\ MutualExclusion /\ MutualExclusion' /\ [Next]_vars
        => [Lock!Next]_Holders
  <2> SUFFICES ASSUME TypeOK, MutualExclusion, MutualExclusion', [Next]_vars
               PROVE  \/ Holders' \subseteq Holders
                      \/ \E c \in Call \ Holders : Holders' = Holders \union {c}
    BY OneEnters
  <2> USE DEF TypeOK, Goto, Holders, Inside
  <2>1. ASSUME NEW c \in Call, Link(c)
        PROVE  c \in Call \ Holders /\ Holders' = Holders \union {c}
    BY <2>1 DEF Link
  <2>2. ASSUME NEW c \in Call, Advance(c), ~Link(c) PROVE Holders' \subseteq Holders
    BY <2>2 DEF Advance, Begin, FindTaken, RunOut, Read, Judge, Claim, Recheck,
       Unlink, Unclaim, Poll, Cancel, Finish, CheckOwn, Drop
  <2>3. ASSUME NEW p \in Process, Crash(p) \/ Respawn(p)
        PROVE  Holders' \subseteq Holders
    BY <2>3 DEF Crash, Respawn
  <2>4. CASE UNCHANGED vars
    BY <2>4 DEF vars
  <2>5. QED
    BY <2>1, <2>2, <2>3, <2>4 DEF Next
<1>3. QED
  BY <1>1, <1>2, TypeCorrect, MutualExclusionHolds, PTL
     DEF Spec, ImplementsExclusion, Lock!Spec

=============================================================================
