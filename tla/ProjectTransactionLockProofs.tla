--------------------- MODULE ProjectTransactionLockProofs ---------------------
(***************************************************************************)
(* Proofs about the project transaction lock, for every set of calls and   *)
(* every assignment of calls to processes.  That no call leaves its record *)
(* behind holds whatever dies; exclusion holds until a call has died       *)
(* half-way, and after that as long as no two calls are removing a dead    *)
(* holder's record together.                                               *)
(***************************************************************************)
EXTENDS ProjectTransactionLock, TLAPS

\* Every variable keeps its type, and a record is never remembered without a
\* file that carries it.
THEOREM TypeCorrect == Spec => []TypeOK
<1> USE CallAssumption, PidAssumption
<1> USE DEF Inside, Acquiring, Running, Ended
<1>1. Init => TypeOK
  BY DEF Init, TypeOK
<1>2. TypeOK /\ [Next]_vars => TypeOK'
  <2> SUFFICES ASSUME TypeOK, [Next]_vars PROVE TypeOK'
    OBVIOUS
  <2> USE DEF TypeOK, Goto
  <2>1. ASSUME NEW c \in Call, Begin(c) PROVE TypeOK'
    BY <2>1 DEF Begin
  <2>2. ASSUME NEW c \in Call, Create(c) \/ Write(c) \/ WriteFails(c)
        PROVE  TypeOK'
    <3>1. CASE Create(c)
      BY <3>1 DEF Create, NameIsFree
    <3>2. CASE Write(c) /\ lock = c
      BY <3>2 DEF Write
    <3>3. CASE Write(c) /\ lock # c
      BY <3>3 DEF Write
    <3>4. CASE WriteFails(c)
      BY <3>4 DEF WriteFails
    <3>5. QED
      BY <2>2, <3>1, <3>2, <3>3, <3>4
  <2>3. ASSUME NEW c \in Call, FindExisting(c) \/ Read(c) \/ Judge(c)
        PROVE  TypeOK'
    BY <2>3 DEF FindExisting, Read, Judge
  <2>4. ASSUME NEW c \in Call, Recheck(c) PROVE TypeOK'
    BY <2>4 DEF Recheck
  <2>5. ASSUME NEW c \in Call, Unlink(c) \/ Drop(c) PROVE TypeOK'
    BY <2>5 DEF Unlink, Drop, Remove
  <2>6. ASSUME NEW c \in Call, Poll(c) \/ DeadlinePasses(c) PROVE TypeOK'
    <3>1. CASE Poll(c)
      BY <3>1 DEF Poll
    <3>2. CASE DeadlinePasses(c)
      <4>1. expired' \in [Call -> BOOLEAN]
        BY <3>2 DEF DeadlinePasses
      <4>2. QED
        BY <3>2, <4>1 DEF DeadlinePasses
    <3>3. QED
      BY <2>6, <3>1, <3>2
  <2>7. ASSUME NEW c \in Call, Finish(c) \/ CheckOwn(c) PROVE TypeOK'
    BY <2>7 DEF Finish, CheckOwn
  <2>8. ASSUME NEW p \in Process, Crash(p) \/ Respawn(p) PROVE TypeOK'
    <3>1. alive' \in [Process -> BOOLEAN]
      BY <2>8 DEF Crash, Respawn
    <3>2. CASE Crash(p)
      <4>1. pc' \in [Call -> {"idle"} \union Running \union Ended]
        BY <3>2 DEF Crash
      <4>2. QED
        BY <3>1, <3>2, <4>1 DEF Crash
    <3>3. CASE Respawn(p)
      BY <3>1, <3>3 DEF Respawn
    <3>4. QED
      BY <2>8, <3>2, <3>3
  <2>9. CASE UNCHANGED vars
    BY <2>9 DEF vars
  <2>10. QED
    BY <2>1, <2>2, <2>3, <2>4, <2>5, <2>6, <2>7, <2>8, <2>9 DEF Next, Advance
<1>3. QED
  BY <1>1, <1>2, PTL DEF Spec

-----------------------------------------------------------------------------

\* What holds whatever dies.

Early == {"idle", "trying", "reading", "judging", "reclaiming", "unlinking",
          "waiting"}

\* A call has a file only from its creation on, and a call that ended alive
\* has at most an empty one.
LockBelongsToCreator ==
  /\ \A c \in Call : pc[c] \in Early => lock # c
  /\ \A c \in Call : pc[c] = "writing" /\ lock = c => ~written
  /\ NoRecordLeftBehind

\* The calls that run are in processes that live.
RunningAlive == \A c \in Call : pc[c] \in Running => alive[pid[c]]

\* A holder that was read has created its file, one taken for dead has ended.
SawStarted ==
  \A c \in Call : pc[c] \in {"judging", "reclaiming", "unlinking"}
                    => saw[c] \in Call /\ pc[saw[c]] \notin Early \union {"writing"}
SawEnded ==
  \A c \in Call : pc[c] \in {"reclaiming", "unlinking"} => pc[saw[c]] \in Ended

\* A record can be read only after its call wrote it.
WrittenByOwner == written => pc[lock] \in Inside \union Ended

Custody ==
  /\ LockBelongsToCreator
  /\ RunningAlive
  /\ SawStarted /\ SawEnded
  /\ WrittenByOwner

LEMMA CustodyHolds == Spec => []Custody
<1> USE CallAssumption, PidAssumption
<1> USE DEF Custody, LockBelongsToCreator, NoRecordLeftBehind, RunningAlive,
            SawStarted, SawEnded, WrittenByOwner
<1> USE DEF Early, Inside, Acquiring, Running, Ended
<1>1. Init => Custody
  BY DEF Init
<1>2. TypeOK /\ Custody /\ [Next]_vars => Custody'
  <2> SUFFICES ASSUME TypeOK, Custody, [Next]_vars PROVE Custody'
    OBVIOUS
  <2> USE DEF TypeOK, Goto
  <2>1. ASSUME NEW c \in Call, Begin(c) PROVE Custody'
    BY <2>1 DEF Begin
  <2>2. ASSUME NEW c \in Call, Create(c) PROVE Custody'
    BY <2>2 DEF Create, NameIsFree
  <2>3. ASSUME NEW c \in Call, Write(c) PROVE Custody'
    <3>1. CASE lock = c
      BY <2>3, <3>1 DEF Write
    <3>2. CASE lock # c
      BY <2>3, <3>2 DEF Write
    <3>3. QED
      BY <3>1, <3>2
  <2>4. ASSUME NEW c \in Call, WriteFails(c) PROVE Custody'
    BY <2>4 DEF WriteFails
  <2>5. ASSUME NEW c \in Call, FindExisting(c) \/ Read(c) PROVE Custody'
    BY <2>5 DEF FindExisting, Read
  <2>6. ASSUME NEW c \in Call, Judge(c) PROVE Custody'
    BY <2>6 DEF Judge, HolderIsDead
  <2>7. ASSUME NEW c \in Call, Recheck(c) PROVE Custody'
    BY <2>7 DEF Recheck
  <2>8. ASSUME NEW c \in Call, Unlink(c) \/ Drop(c) PROVE Custody'
    BY <2>8 DEF Unlink, Drop, Remove
  <2>9. ASSUME NEW c \in Call, Poll(c) \/ DeadlinePasses(c) PROVE Custody'
    BY <2>9 DEF Poll, DeadlinePasses
  <2>10. ASSUME NEW c \in Call, Finish(c) \/ CheckOwn(c) PROVE Custody'
    BY <2>10 DEF Finish, CheckOwn, OwnsFile
  <2>11. ASSUME NEW p \in Process, Crash(p) PROVE Custody'
    BY <2>11 DEF Crash
  <2>12. ASSUME NEW p \in Process, Respawn(p) PROVE Custody'
    BY <2>12 DEF Respawn
  <2>13. CASE UNCHANGED vars
    BY <2>13 DEF vars
  <2>14. QED
    BY <2>1, <2>2, <2>3, <2>4, <2>5, <2>6, <2>7, <2>8, <2>9, <2>10, <2>11,
       <2>12, <2>13 DEF Next, Advance
<1>3. QED
  BY <1>1, <1>2, TypeCorrect, PTL DEF Spec

\* A call that returned or threw has not left its record behind.
THEOREM NoRecordLeftBehindHolds == Spec => []NoRecordLeftBehind
<1>1. Custody => NoRecordLeftBehind
  BY DEF Custody, LockBelongsToCreator
<1>2. QED
  BY <1>1, CustodyHolds, PTL

-----------------------------------------------------------------------------

NoCallCrashed == \A c \in Call : pc[c] # "crashed"

\* The file a call created stays until that call removes it, and no call is
\* about to remove another's.
HolderKeepsLock ==
  /\ \A c \in Call : pc[c] \in Inside \union {"writing"} => lock = c
  /\ \A c \in Call : pc[c] \in Inside => written
  /\ \A c \in Call : pc[c] # "unlinking"

\* A dead holder that did not crash in its call has removed its record, so
\* the second look of removeExactLock never finds it.
LEMMA HolderKeepsLockHolds == Spec => [](NoCallCrashed => HolderKeepsLock)
<1> USE CallAssumption, PidAssumption
<1> USE DEF HolderKeepsLock, NoCallCrashed, Inside
<1>1. Init => HolderKeepsLock
  BY DEF Init
<1>2. ASSUME TypeOK, Custody, NoCallCrashed => HolderKeepsLock, [Next]_vars
      PROVE  (NoCallCrashed => HolderKeepsLock)'
  <2> USE <1>2
  <2> SUFFICES ASSUME NoCallCrashed' PROVE HolderKeepsLock'
    OBVIOUS
  <2> USE DEF TypeOK, Goto
  <2>1. NoCallCrashed
    <3> SUFFICES ASSUME NEW d \in Call, pc[d] = "crashed" PROVE pc'[d] = "crashed"
      OBVIOUS
    <3>1. ASSUME NEW c \in Call,
                 Begin(c) \/ Advance(c) \/ WriteFails(c) \/ DeadlinePasses(c)
          PROVE  pc'[d] = "crashed"
      BY <3>1 DEF Begin, Advance, WriteFails, DeadlinePasses, Create, Write,
                  FindExisting, Read, Judge, Recheck, Unlink, Remove, Poll,
                  Finish, CheckOwn, Drop
    <3>2. ASSUME NEW p \in Process, Crash(p) \/ Respawn(p) PROVE pc'[d] = "crashed"
      BY <3>2 DEF Crash, Respawn
    <3>3. QED
      BY <3>1, <3>2 DEF Next, vars
  <2> USE <2>1
  <2>2. ASSUME NEW c \in Call, Begin(c) \/ WriteFails(c) PROVE HolderKeepsLock'
    BY <2>2 DEF Begin, WriteFails
  <2>3. ASSUME NEW c \in Call, Create(c) PROVE HolderKeepsLock'
    BY <2>3 DEF Create, NameIsFree
  <2>4. ASSUME NEW c \in Call, Write(c) PROVE HolderKeepsLock'
    <3>1. lock = c /\ lock' = lock /\ written' /\ pc' = [pc EXCEPT ![c] = "held"]
      BY <2>4 DEF Write
    <3>2. QED
      BY <3>1
  <2>5. ASSUME NEW c \in Call, FindExisting(c) \/ Read(c) \/ Judge(c)
        PROVE  HolderKeepsLock'
    BY <2>5 DEF FindExisting, Read, Judge
  <2>6. ASSUME NEW c \in Call, Recheck(c) PROVE HolderKeepsLock'
    <3>1. saw[c] \in Call /\ pc[saw[c]] \in {"done", "failed"}
      BY <2>6 DEF Recheck, Custody, SawStarted, SawEnded, Ended
    <3>2. ~(lock = saw[c] /\ written)
      BY <3>1 DEF Custody, LockBelongsToCreator, NoRecordLeftBehind
    <3>3. QED
      BY <2>6, <3>2 DEF Recheck
  <2>7. ASSUME NEW c \in Call, Unlink(c) \/ Drop(c) PROVE HolderKeepsLock'
    BY <2>7 DEF Unlink, Drop, Remove
  <2>8. ASSUME NEW c \in Call, Poll(c) \/ DeadlinePasses(c) PROVE HolderKeepsLock'
    BY <2>8 DEF Poll, DeadlinePasses
  <2>9. ASSUME NEW c \in Call, Finish(c) \/ CheckOwn(c) PROVE HolderKeepsLock'
    BY <2>9 DEF Finish, CheckOwn, OwnsFile
  <2>10. ASSUME NEW p \in Process, Crash(p) \/ Respawn(p) PROVE HolderKeepsLock'
    <3>1. pc' = pc
      BY <2>10 DEF Crash, Respawn
    <3>2. QED
      BY <2>10, <3>1 DEF Crash, Respawn
  <2>11. CASE UNCHANGED vars
    BY <2>11 DEF vars
  <2>12. QED
    BY <2>2, <2>3, <2>4, <2>5, <2>6, <2>7, <2>8, <2>9, <2>10, <2>11
       DEF Next, Advance
<1>3. QED
  BY <1>1, <1>2, TypeCorrect, CustodyHolds, PTL DEF Spec

\* Until a call has died half-way, two actions never run together: the file of
\* each of two calls inside would have the one name.
THEOREM ExclusionUntilACrashHolds == Spec => []ExclusionUntilACrash
<1>1. (NoCallCrashed => HolderKeepsLock) => ExclusionUntilACrash
  BY DEF HolderKeepsLock, NoCallCrashed, ExclusionUntilACrash, MutualExclusion,
         Inside
<1>2. QED
  BY <1>1, HolderKeepsLockHolds, PTL

-----------------------------------------------------------------------------
(***************************************************************************)
(* What the exclusion takes once calls have died: the one window of the    *)
(* code that breaks it lies between the two halves of removeExactLock.     *)
(***************************************************************************)

\* No two calls are between comparing a dead holder's record and removing it.
OneUnlinker ==
  \A c, d \in Call : pc[c] = "unlinking" /\ pc[d] = "unlinking" => c = d

\* A call inside has its record in the file, and a call about to remove a
\* dead holder's record still has that record before it.
UnlinksWhatItSaw ==
  /\ \A c \in Call : pc[c] \in Inside \union {"writing"} => lock = c
  /\ \A c \in Call : pc[c] \in Inside => written
  /\ \A c \in Call : pc[c] = "unlinking" => lock = saw[c] /\ written

LEMMA UnlinksWhatItSawHolds == Spec /\ []OneUnlinker => []UnlinksWhatItSaw
<1> USE CallAssumption, PidAssumption
<1> USE DEF UnlinksWhatItSaw, Inside
<1>1. Init => UnlinksWhatItSaw
  BY DEF Init
<1>2. ASSUME TypeOK, Custody, OneUnlinker, UnlinksWhatItSaw, [Next]_vars
      PROVE  UnlinksWhatItSaw'
  <2> USE <1>2
  <2> USE DEF TypeOK, Goto
  <2>0. \A c \in Call : pc[c] = "unlinking"
          => saw[c] \in Call /\ pc[saw[c]] \in {"done", "failed", "crashed"}
    BY DEF Custody, SawStarted, SawEnded, Ended
  <2>1. ASSUME NEW c \in Call, Begin(c) \/ WriteFails(c) PROVE UnlinksWhatItSaw'
    BY <2>1 DEF Begin, WriteFails
  <2>2. ASSUME NEW c \in Call, Create(c) PROVE UnlinksWhatItSaw'
    BY <2>2 DEF Create, NameIsFree
  <2>3. ASSUME NEW c \in Call, Write(c) PROVE UnlinksWhatItSaw'
    <3>1. lock = c /\ lock' = lock /\ written' /\ saw' = saw
          /\ pc' = [pc EXCEPT ![c] = "held"]
      BY <2>3 DEF Write
    <3>2. QED
      BY <3>1
  <2>4. ASSUME NEW c \in Call, FindExisting(c) \/ Judge(c)
        PROVE  UnlinksWhatItSaw'
    BY <2>4 DEF FindExisting, Judge
  <2>5. ASSUME NEW c \in Call, Read(c) PROVE UnlinksWhatItSaw'
    BY <2>5 DEF Read
  <2>6. ASSUME NEW c \in Call, Recheck(c) PROVE UnlinksWhatItSaw'
    BY <2>6 DEF Recheck
  <2>7. ASSUME NEW c \in Call, Unlink(c) PROVE UnlinksWhatItSaw'
    <3>1. \A d \in Call : pc[d] = "unlinking" => d = c
      BY <2>7 DEF OneUnlinker, Unlink
    <3>2. \A d \in Call : pc[d] \notin Inside \union {"writing"}
      BY <2>0, <2>7 DEF Unlink
    <3>3. \E l \in {"trying", "failed"} : pc' = [pc EXCEPT ![c] = l]
      BY <2>7 DEF Unlink, Remove
    <3>4. QED
      BY <3>1, <3>2, <3>3
  <2>8. ASSUME NEW c \in Call, Drop(c) PROVE UnlinksWhatItSaw'
    <3>1. \A d \in Call : pc[d] # "unlinking"
      BY <2>0, <2>8 DEF Drop
    <3>2. \A d \in Call : pc[d] \in Inside \union {"writing"} => d = c
      BY <2>8 DEF Drop
    <3>3. \E l \in {"done", "failed"} : pc' = [pc EXCEPT ![c] = l]
      BY <2>8 DEF Drop, Remove
    <3>4. QED
      BY <3>1, <3>2, <3>3
  <2>9. ASSUME NEW c \in Call, Poll(c) \/ DeadlinePasses(c) PROVE UnlinksWhatItSaw'
    BY <2>9 DEF Poll, DeadlinePasses
  <2>10. ASSUME NEW c \in Call, Finish(c) \/ CheckOwn(c) PROVE UnlinksWhatItSaw'
    BY <2>10 DEF Finish, CheckOwn, OwnsFile
  <2>11. ASSUME NEW p \in Process, Crash(p) \/ Respawn(p) PROVE UnlinksWhatItSaw'
    <3>1. \A d \in Call : pc'[d] = pc[d] \/ pc'[d] = "crashed"
      BY <2>11 DEF Crash, Respawn
    <3>2. UNCHANGED <<lock, written, saw>>
      BY <2>11 DEF Crash, Respawn
    <3>3. QED
      BY <3>1, <3>2
  <2>12. CASE UNCHANGED vars
    BY <2>12 DEF vars
  <2>13. QED
    BY <2>1, <2>2, <2>3, <2>4, <2>5, <2>6, <2>7, <2>8, <2>9, <2>10, <2>11,
       <2>12 DEF Next, Advance
<1>3. QED
  BY <1>1, <1>2, TypeCorrect, CustodyHolds, PTL DEF Spec

\* Whatever died, two actions run together only if two calls were between the
\* halves of removeExactLock at once: the second to unlink removes the record
\* of the call that took the lock after the first.
THEOREM ExclusionWithOneUnlinker == Spec /\ []OneUnlinker => []MutualExclusion
<1>1. UnlinksWhatItSaw => MutualExclusion
  BY DEF UnlinksWhatItSaw, MutualExclusion, Inside
<1>2. QED
  BY <1>1, UnlinksWhatItSawHolds, PTL

-----------------------------------------------------------------------------
(* The lock is an exclusion lock. *)

Holders == {c \in Call : pc[c] = "held"}
Lock == INSTANCE Exclusion WITH Caller <- Call, inside <- Holders

\* A step that lets at most one call in, under mutual exclusion before and
\* after, is a step of the exclusion lock.
LEMMA OneEnters ==
  ASSUME MutualExclusion, MutualExclusion',
         \/ Holders' \subseteq Holders
         \/ \E c \in Call \ Holders : Holders' = Holders \union {c}
  PROVE  [Lock!Next]_Holders
<1>1. \A c, d \in Holders : c = d
  BY DEF MutualExclusion, Holders
<1>2. \A c, d \in Holders' : c = d
  BY DEF MutualExclusion, Holders
<1> DEFINE H == Holders
           J == Holders'
<1>3. (\A c, d \in H : c = d) /\ (\A c, d \in J : c = d)
  BY <1>1, <1>2
<1>4. J \subseteq H \/ \E c \in Call \ H : J = H \union {c}
  OBVIOUS
<1> HIDE DEF H, J
<1>5. J = H \/ (H # {} /\ J = {}) \/ \E c \in Call : H = {} /\ J = {c}
  BY <1>3, <1>4
<1>6. QED
  BY <1>5 DEF H, J, Lock!Next, Lock!Enter, Lock!Leave

\* The project transaction lock lets the next call in only when the one
\* inside has left or died.
ImplementsExclusion == Lock!Spec

\* Under the hypothesis of ExclusionWithOneUnlinker it is an exclusion lock.
THEOREM ExclusionLockWithOneUnlinker == Spec /\ []OneUnlinker => ImplementsExclusion
<1>1. Init => Lock!Init
  BY DEF Init, Lock!Init, Holders
<1>2. TypeOK /\ MutualExclusion /\ MutualExclusion' /\ [Next]_vars
        => [Lock!Next]_Holders
  <2> SUFFICES ASSUME TypeOK, MutualExclusion, MutualExclusion', [Next]_vars
               PROVE  \/ Holders' \subseteq Holders
                      \/ \E c \in Call \ Holders : Holders' = Holders \union {c}
    BY OneEnters
  <2> USE DEF TypeOK, Goto, Holders
  <2>1. ASSUME NEW c \in Call, Write(c)
        PROVE  c \in Call \ Holders /\ Holders' = Holders \union {c}
    <3>1. pc[c] = "writing" /\ pc' = [pc EXCEPT ![c] = "held"]
      BY <2>1 DEF Write
    <3>2. QED
      BY <3>1
  <2>2. ASSUME NEW c \in Call,
               Begin(c) \/ WriteFails(c) \/ DeadlinePasses(c) \/ Advance(c), ~Write(c)
        PROVE  Holders' \subseteq Holders
    BY <2>2 DEF Advance, Begin, WriteFails, DeadlinePasses, Create, FindExisting,
       Read, Judge, Recheck, Unlink, Remove, Poll, Finish, CheckOwn, Drop
  <2>3. ASSUME NEW p \in Process, Crash(p) \/ Respawn(p)
        PROVE  Holders' \subseteq Holders
    BY <2>3 DEF Crash, Respawn
  <2>4. CASE UNCHANGED vars
    BY <2>4 DEF vars
  <2>5. QED
    BY <2>1, <2>2, <2>3, <2>4 DEF Next
<1>3. QED
  BY <1>1, <1>2, TypeCorrect, ExclusionWithOneUnlinker, PTL
     DEF Spec, ImplementsExclusion, Lock!Spec

=============================================================================
