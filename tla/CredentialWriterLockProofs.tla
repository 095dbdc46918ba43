--------------------- MODULE CredentialWriterLockProofs ---------------------
(***************************************************************************)
(* Proofs about the credential writer lock, for every set of calls, every  *)
(* assignment of calls to processes and every ticket limit.                *)
(***************************************************************************)
EXTENDS CredentialWriterLock, TLAPS

\* Every variable keeps its type: in particular no ticket exceeds the limit
\* the code checks before it announces one.
THEOREM TypeCorrect == Spec => []TypeOK
<1> USE WriterAssumption, ProcessAssumption, TicketAssumption
<1>1. Init => TypeOK
  BY DEF Init, TypeOK, Ticket, Absent, NoWriter, Running, Scanning, Ended
<1>2. TypeOK /\ [Next]_vars => TypeOK'
  <2> SUFFICES ASSUME TypeOK, [Next]_vars PROVE TypeOK'
    OBVIOUS
  <2> USE DEF TypeOK, Ticket, Absent, NoWriter, Running, Scanning, Ended
  <2>1. ASSUME NEW w \in Writer, Announce(w) PROVE TypeOK'
    BY <2>1 DEF Announce
  <2>2. ASSUME NEW w \in Writer, NEW v \in Writer, Read(w, v) PROVE TypeOK'
    <3>1. CASE SkipAbsent(w, v)
      BY <2>2, <3>1 DEF Read, SkipAbsent
    <3>2. CASE FindDead(w, v)
      BY <2>2, <3>2 DEF Read, FindDead
    <3>3. CASE CountLive(w, v)
      <4>1. highest' \in [Writer -> 0..MaxTicket]
        BY <3>3 DEF CountLive, Blocks
      <4>2. blocked' \in [Writer -> BOOLEAN]
        BY <3>3 DEF CountLive, Blocks
      <4>3. QED
        BY <2>2, <3>3, <4>1, <4>2 DEF Read, CountLive
    <3>4. QED
      BY <2>2, <3>1, <3>2, <3>3 DEF Read
  <2>3. ASSUME NEW w \in Writer, Reclaim(w) PROVE TypeOK'
    BY <2>3 DEF Reclaim
  <2>4. ASSUME NEW w \in Writer, TakeTicket(w) PROVE TypeOK'
    BY <2>4 DEF TakeTicket, TicketLeft
  <2>5. ASSUME NEW w \in Writer, RefuseTicket(w) PROVE TypeOK'
    BY <2>5 DEF RefuseTicket, Leave
  <2>6. ASSUME NEW w \in Writer, Enter(w) PROVE TypeOK'
    BY <2>6 DEF Enter
  <2>7. ASSUME NEW w \in Writer, Rescan(w) PROVE TypeOK'
    BY <2>7 DEF Rescan
  <2>8. ASSUME NEW w \in Writer, GiveUp(w) PROVE TypeOK'
    BY <2>8 DEF GiveUp, Leave
  <2>9. ASSUME NEW w \in Writer, Release(w) PROVE TypeOK'
    BY <2>9 DEF Release, Leave
  <2>10. ASSUME NEW p \in Process, Crash(p) PROVE TypeOK'
    BY <2>10 DEF Crash
  <2>11. ASSUME NEW p \in Process, Respawn(p) PROVE TypeOK'
    BY <2>11 DEF Respawn
  <2>12. CASE UNCHANGED vars
    BY <2>12 DEF vars
  <2>13. QED
    BY <2>1, <2>2, <2>3, <2>4, <2>5, <2>6, <2>7, <2>8, <2>9, <2>10, <2>11,
       <2>12 DEF Next, WriterStep
<1>3. QED
  BY <1>1, <1>2, PTL DEF Spec

-----------------------------------------------------------------------------

\* The strengthening is inductive: the records, the liveness of the processes
\* and the order between a call and every call it has read past stay true.
LEMMA InductiveInvariant == Spec => []IInv
<1> USE WriterAssumption, ProcessAssumption, TicketAssumption
<1>1. Init => IInv
  <2> SUFFICES ASSUME Init PROVE IInv
    OBVIOUS
  <2>1. TypeOK
    BY DEF Init, TypeOK, Ticket, Absent, NoWriter, Running, Scanning, Ended
  <2>2. LivenessKnown
    BY DEF Init, LivenessKnown, Running, Scanning
  <2>3. RecordAgrees
    BY DEF Init, RecordAgrees, RecordKept, Running, Scanning
  <2>4. ReadImpliesBehind
    BY DEF Init, ReadImpliesBehind
  <2>5. QED
    BY <2>1, <2>2, <2>3, <2>4 DEF IInv
<1>2. IInv /\ TypeOK' /\ [Next]_vars => IInv'
  <2> SUFFICES ASSUME IInv, TypeOK', [Next]_vars PROVE IInv'
    OBVIOUS
  <2> USE DEF IInv, TypeOK, Ticket, Absent, NoWriter, Running, Scanning, Ended,
              RecordAgrees, RecordKept, LivenessKnown, ReadImpliesBehind,
              Behind, Earlier, ScanDone, Dead, Blocks, TicketLeft
  <2>1. ASSUME NEW w \in Writer, Announce(w) PROVE IInv'
    <3>1. LivenessKnown' BY <2>1 DEF Announce
    <3>2. RecordAgrees' BY <2>1 DEF Announce
    <3>3. ReadImpliesBehind' BY <2>1 DEF Announce
    <3>4. QED BY <3>1, <3>2, <3>3
  <2>2. ASSUME NEW w \in Writer, NEW v \in Writer, Read(w, v) PROVE IInv'
    <3>1. LivenessKnown'
      BY <2>2 DEF Read, SkipAbsent, FindDead, CountLive
    <3>2. RecordAgrees'
      BY <2>2 DEF Read, SkipAbsent, FindDead, CountLive
    <3>3. ReadImpliesBehind'
      <4>1. CASE SkipAbsent(w, v)
        BY <2>2, <4>1 DEF Read, SkipAbsent
      <4>2. CASE FindDead(w, v)
        BY <2>2, <4>2 DEF Read, FindDead
      <4>3. CASE CountLive(w, v)
        BY <2>2, <4>3 DEF Read, CountLive
      <4>4. QED
        BY <2>2, <4>1, <4>2, <4>3 DEF Read
    <3>4. QED BY <3>1, <3>2, <3>3
  <2>3. ASSUME NEW w \in Writer, Reclaim(w) PROVE IInv'
    BY <2>3 DEF Reclaim
  <2>4. ASSUME NEW w \in Writer, TakeTicket(w) PROVE IInv'
    <3>1. LivenessKnown' BY <2>4 DEF TakeTicket
    <3>2. RecordAgrees' BY <2>4 DEF TakeTicket
    <3>3. ReadImpliesBehind' BY <2>4 DEF TakeTicket
    <3>4. QED BY <3>1, <3>2, <3>3
  <2>5. ASSUME NEW w \in Writer, RefuseTicket(w) PROVE IInv'
    BY <2>5 DEF RefuseTicket, Leave
  <2>6. ASSUME NEW w \in Writer, Enter(w) PROVE IInv'
    BY <2>6 DEF Enter
  <2>7. ASSUME NEW w \in Writer, Rescan(w) PROVE IInv'
    BY <2>7 DEF Rescan
  <2>8. ASSUME NEW w \in Writer, GiveUp(w) PROVE IInv'
    BY <2>8 DEF GiveUp, Leave
  <2>9. ASSUME NEW w \in Writer, Release(w) PROVE IInv'
    BY <2>9 DEF Release, Leave
  <2>10. ASSUME NEW p \in Process, Crash(p) PROVE IInv'
    <3>1. LivenessKnown' BY <2>10 DEF Crash
    <3>2. RecordAgrees' BY <2>10 DEF Crash
    <3>3. ReadImpliesBehind' BY <2>10 DEF Crash
    <3>4. QED BY <3>1, <3>2, <3>3
  <2>11. ASSUME NEW p \in Process, Respawn(p) PROVE IInv'
    BY <2>11 DEF Respawn
  <2>12. CASE UNCHANGED vars
    BY <2>12 DEF vars
  <2>13. QED
    BY <2>1, <2>2, <2>3, <2>4, <2>5, <2>6, <2>7, <2>8, <2>9, <2>10, <2>11,
       <2>12 DEF Next, WriterStep
<1>3. QED
  BY <1>1, <1>2, TypeCorrect, PTL DEF Spec

-----------------------------------------------------------------------------

\* Two calls are never inside their actions together.  A call that holds has
\* read every other call unblocked, so each of two holders would come before
\* the other.
THEOREM MutualExclusionHolds == Spec => []MutualExclusion
<1>1. IInv => MutualExclusion
  <2> SUFFICES ASSUME IInv,
                      NEW v \in Writer, NEW w \in Writer,
                      pc[v] = "held", pc[w] = "held", v # w
               PROVE  FALSE
    BY DEF MutualExclusion
  <2>1. /\ ScanDone(v) /\ ~blocked[v]
        /\ ScanDone(w) /\ ~blocked[w]
    BY DEF IInv, RecordAgrees
  <2>2. Behind(v, w) /\ Behind(w, v)
    BY <2>1 DEF IInv, ReadImpliesBehind, ScanDone
  <2>3. Earlier(ticket[v], v, ticket[w], w) /\ Earlier(ticket[w], w, ticket[v], v)
    BY <2>2 DEF Behind
  <2>4. ticket[v] \in Nat /\ ticket[w] \in Nat /\ v \in Nat /\ w \in Nat
    BY WriterAssumption, TicketAssumption DEF IInv, TypeOK, Ticket
  <2>5. QED
    BY <2>3, <2>4 DEF Earlier
<1>2. QED
  BY <1>1, InductiveInvariant, PTL

\* A call is inside its action only while it comes before every call that
\* waits with a ticket.
THEOREM ServedInOrderHolds == Spec => []ServedInOrder
<1>1. IInv => ServedInOrder
  <2> SUFFICES ASSUME IInv,
                      NEW v \in Writer, NEW w \in Writer,
                      pc[w] = "held", pc[v] = "waiting"
               PROVE  Earlier(ticket[w], w, ticket[v], v)
    BY DEF ServedInOrder
  <2>1. v # w /\ ScanDone(w) /\ ~blocked[w]
    BY DEF IInv, RecordAgrees
  <2>2. Behind(w, v)
    BY <2>1 DEF IInv, ReadImpliesBehind, ScanDone
  <2>3. QED
    BY <2>2 DEF Behind
<1>2. QED
  BY <1>1, InductiveInvariant, PTL

\* A running call's record stays in the directory with its ticket, whatever
\* other calls reclaim.
THEOREM RecordKeptHolds == Spec => []RecordKept
<1>1. IInv => RecordKept
  BY DEF IInv, RecordAgrees
<1>2. QED
  BY <1>1, InductiveInvariant, PTL

\* A record leaves the directory only in the step in which its own call ends,
\* or when that call is already dead.
THEOREM NoForeignUnlink == Spec => OnlyOwnerOrDeadUnlinked
<1> DEFINE A == \A w \in Writer :
                  record[w] # Absent /\ record'[w] = Absent
                    => pc[w] = "crashed" \/ pc'[w] \in {"done", "failed"}
<1>1. IInv /\ [Next]_vars => [A]_vars
  <2> SUFFICES ASSUME IInv, Next, NEW u \in Writer,
                      record[u] # Absent, record'[u] = Absent
               PROVE  pc[u] = "crashed" \/ pc'[u] \in {"done", "failed"}
    OBVIOUS
  <2> USE WriterAssumption, TicketAssumption DEF IInv, TypeOK, Ticket, Absent
  <2>1. ASSUME NEW w \in Writer,
               Announce(w) \/ TakeTicket(w) \/ Enter(w) \/ Rescan(w)
        PROVE  FALSE
    BY <2>1 DEF Announce, TakeTicket, Enter, Rescan
  <2>2. ASSUME NEW w \in Writer, NEW v \in Writer, Read(w, v) PROVE FALSE
    BY <2>2 DEF Read
  <2>3. ASSUME NEW w \in Writer, Reclaim(w) PROVE pc[u] = "crashed"
    BY <2>3 DEF Reclaim, LivenessKnown
  <2>4. ASSUME NEW w \in Writer, RefuseTicket(w) \/ GiveUp(w) \/ Release(w)
        PROVE  pc'[u] \in {"done", "failed"}
    BY <2>4 DEF RefuseTicket, GiveUp, Release, Leave
  <2>5. ASSUME NEW p \in Process, Crash(p) \/ Respawn(p) PROVE FALSE
    BY <2>5 DEF Crash, Respawn
  <2>6. QED
    BY <2>1, <2>2, <2>3, <2>4, <2>5 DEF Next, WriterStep
<1>2. QED
  BY <1>1, InductiveInvariant, PTL DEF Spec, OnlyOwnerOrDeadUnlinked

-----------------------------------------------------------------------------
(* The lock is an exclusion lock. *)

Holders == {c \in Writer : pc[c] = "held"}
Lock == INSTANCE Exclusion WITH Caller <- Writer, inside <- Holders

\* A step that lets at most one call in, under mutual exclusion before and
\* after, is a step of the exclusion lock.
LEMMA OneEnters ==
  ASSUME MutualExclusion, MutualExclusion',
         \/ Holders' \subseteq Holders
         \/ \E c \in Writer \ Holders : Holders' = Holders \union {c}
  PROVE  [Lock!Next]_Holders
<1>1. \A c, d \in Holders : c = d
  BY DEF MutualExclusion, Holders
<1>2. \A c, d \in Holders' : c = d
  BY DEF MutualExclusion, Holders
<1> DEFINE H == Holders
           J == Holders'
<1>3. (\A c, d \in H : c = d) /\ (\A c, d \in J : c = d)
  BY <1>1, <1>2
<1>4. J \subseteq H \/ \E c \in Writer \ H : J = H \union {c}
  OBVIOUS
<1> HIDE DEF H, J
<1>5. J = H \/ (H # {} /\ J = {}) \/ \E c \in Writer : H = {} /\ J = {c}
  BY <1>3, <1>4
<1>6. QED
  BY <1>5 DEF H, J, Lock!Next, Lock!Enter, Lock!Leave

\* The credential writer lock lets the next call in only when the one inside
\* has left or died.
ImplementsExclusion == Lock!Spec

\* No call enters beside another, across timeouts, crashes and reused pids.
THEOREM ImplementsExclusionHolds == Spec => ImplementsExclusion
<1>1. Init => Lock!Init
  BY DEF Init, Lock!Init, Holders
<1>2. TypeOK /\ MutualExclusion /\ MutualExclusion' /\ [Next]_vars
        => [Lock!Next]_Holders
  <2> SUFFICES ASSUME TypeOK, MutualExclusion, MutualExclusion', [Next]_vars
               PROVE  \/ Holders' \subseteq Holders
                      \/ \E c \in Writer \ Holders : Holders' = Holders \union {c}
    BY OneEnters
  <2> USE DEF TypeOK, Holders
  <2>1. ASSUME NEW c \in Writer, Enter(c)
        PROVE  c \in Writer \ Holders /\ Holders' = Holders \union {c}
    BY <2>1 DEF Enter
  <2>2. ASSUME NEW c \in Writer, WriterStep(c), ~Enter(c)
        PROVE  Holders' \subseteq Holders
    BY <2>2 DEF WriterStep, Announce, Read, Reclaim, TakeTicket, RefuseTicket,
       Rescan, GiveUp, Release, Leave
  <2>3. ASSUME NEW p \in Process, Crash(p) \/ Respawn(p)
        PROVE  Holders' \subseteq Holders
    BY <2>3 DEF Crash, Respawn
  <2>4. CASE UNCHANGED vars
    BY <2>4 DEF vars
  <2>5. QED
    BY <2>1, <2>2, <2>3, <2>4 DEF Next
<1>3. QED
  BY <1>1, <1>2, TypeCorrect, MutualExclusionHolds, PTL
     DEF Spec, ImplementsExclusion, Lock!Spec

=============================================================================
