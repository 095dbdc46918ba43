-------------------------- MODULE OperateStoreProofs --------------------------
(***************************************************************************)
(* Proofs about the Operate store, for every set of sessions and           *)
(* generations and every bound: the types, the inductive invariant, what   *)
(* follows from it about acknowledged and restorable generations, that the *)
(* store implements the version history and what it inherits from it, that *)
(* load accuses the disk only with a cause, and that the writers use LOCK  *)
(* as an exclusion lock.                                                   *)
(***************************************************************************)
EXTENDS OperateStore, SequenceTheorems, TLAPS

(***************************************************************************)
(* Why the store is one history: the inductive invariant.                  *)
(***************************************************************************)

\* A client in the middle of a write holds LOCK, so there is at most one.
WriterHoldsLock == \A c \in Client : pc[c] \in Writing => lock = c

\* The generations a commit on the head inherits its line from.
LineOfHead == IF journal = <<>> THEN {} ELSE lineage[HeadGeneration]

\* A generation is on its own line, and the journal holds whole lines only.
LinesAreJournaled ==
  /\ \A g \in Generation : Published(g) => g \in lineage[g]
  /\ \A g \in Journaled : Published(g) /\ lineage[g] \subseteq Journaled

\* The anchor is a record of the journal, the last or the last but one, and
\* the pointer names a journaled generation.
AnchorIsJournaled ==
  /\ custody.seq = 0 => custody.gen = NoGeneration
  /\ custody.seq > 0 => custody.gen = journal[custody.seq]
  /\ Len(journal) <= custody.seq + 1
  /\ current \in Journaled \union {NoGeneration}

\* What a writer is about to journal extends the line of the head or lies on
\* it; what it anchors and points at is the head.
GoalExtendsHead ==
  \A c \in Client :
    /\ pc[c] \in {"journaling", "appending"} =>
         /\ Len(journal) = custody.seq
         /\ goal[c].gen \in Generation
         /\ \/ /\ goal[c].gen \notin Journaled
               /\ lineage[goal[c].gen] = {goal[c].gen} \union LineOfHead
            \/ goal[c].gen \in LineOfHead
    /\ pc[c] \in {"anchoring", "pointing", "committed"} =>
         journal # <<>> /\ goal[c].gen = HeadGeneration

\* The inductive invariant.
IInv ==
  /\ TypeOK
  /\ WriterHoldsLock
  /\ LinesAreJournaled
  /\ AnchorIsJournaled
  /\ GoalExtendsHead
  /\ WorksOnJournaled

-----------------------------------------------------------------------------

Why == {"none", "truncated", "unanchored", "diverge"}

\* The types of the durable files.
FileTypes ==
  /\ lineage \in [Generation -> SUBSET Generation]
  /\ journal \in Seq(Generation)
  /\ torn \in BOOLEAN
  /\ custody \in [gen : Generation \union {NoGeneration}, seq : Nat]
  /\ custody.seq <= Len(journal)
  /\ current \in Generation \union {NoGeneration}

\* The types of what the sessions hold.
SessionTypes ==
  /\ lock \in Client \union {Free, Stale}
  /\ pc \in [Client -> Resting \union Writing \union Loading \union Inspecting]
  /\ known \in [Client -> Generation \union {NoGeneration, Unknown}]
  /\ goal \in [Client -> [kind : {"none", "commit", "restore"},
                          gen : Generation \union {NoGeneration}]]
  /\ saw \in [Client -> Sight]
  /\ settling \in [Client -> [left : SUBSET {"current", "lock"},
                              quiet : BOOLEAN, why : Why]]
  /\ quiet \in [Client -> [cur : Generation \union {NoGeneration}, why : Why]]
  /\ advice \in [Client -> Generation \union {NoGeneration}]
  /\ faults \in Nat

\* Updating one entry of a function, or one field of a record, keeps its type.
LEMMA UpdatedEntry ==
  ASSUME NEW D, NEW R, NEW f \in [D -> R], NEW d \in D, NEW x \in R
  PROVE  [f EXCEPT ![d] = x] \in [D -> R]
  OBVIOUS

LEMMA UpdatedSight ==
  ASSUME NEW G, NEW N, NEW B, NEW s \in [cur : G, head : G, len : N, empty : B],
         NEW g \in G, NEW n \in N, NEW b \in B
  PROVE  /\ [s EXCEPT !.cur = g] \in [cur : G, head : G, len : N, empty : B]
         /\ [s EXCEPT !.head = g, !.len = n]
              \in [cur : G, head : G, len : N, empty : B]
         /\ [s EXCEPT !.empty = b] \in [cur : G, head : G, len : N, empty : B]
  OBVIOUS

LEMMA UpdatedSettling ==
  ASSUME NEW L, NEW B, NEW W, NEW s \in [left : L, quiet : B, why : W],
         NEW l \in L, NEW b \in B
  PROVE  [s EXCEPT !.left = l, !.quiet = b] \in [left : L, quiet : B, why : W]
  OBVIOUS

LEMMA TypeParts == TypeOK <=> FileTypes /\ SessionTypes
  BY DEF TypeOK, FileTypes, SessionTypes, Why

\* The head of a journal that is not empty is a generation.
LEMMA HeadType ==
  ASSUME journal \in Seq(Generation)
  PROVE  /\ Len(journal) \in Nat
         /\ HeadGeneration \in Generation \union {NoGeneration}
         /\ journal # <<>> => /\ Len(journal) > 0
                              /\ HeadGeneration = journal[Len(journal)]
                              /\ HeadGeneration \in Journaled
                              /\ HeadGeneration \in Generation
         /\ Journaled \subseteq Generation
<1>1. Len(journal) \in Nat
  BY LenProperties
<1>2. \A i \in 1..Len(journal) : journal[i] \in Generation
  BY ElementOfSeq
<1>3. journal # <<>> => Len(journal) > 0
  BY EmptySeq, <1>1
<1>4. Journaled \subseteq Generation
  BY <1>2 DEF Journaled
<1>5. ASSUME journal # <<>> PROVE Len(journal) \in 1..Len(journal)
  BY <1>1, <1>3, <1>5
<1>6. ASSUME journal # <<>>
      PROVE  /\ HeadGeneration = journal[Len(journal)]
             /\ HeadGeneration \in Journaled
             /\ HeadGeneration \in Generation
  BY <1>2, <1>5, <1>6 DEF HeadGeneration, Journaled
<1>7. HeadGeneration \in Generation \union {NoGeneration}
  BY <1>6 DEF HeadGeneration
<1>8. QED
  BY <1>1, <1>3, <1>4, <1>6, <1>7

-----------------------------------------------------------------------------
(* Each group of actions preserves the inductive invariant.                *)

\* Nothing durable changes: the parts of the invariant about the files hold.
LEMMA FilesUnchanged ==
  ASSUME IInv, UNCHANGED disk
  PROVE  FileTypes' /\ LinesAreJournaled' /\ AnchorIsJournaled'
  BY TypeParts
  DEF IInv, disk, FileTypes, LinesAreJournaled, AnchorIsJournaled, Published,
      Journaled

\* The initial state satisfies the invariant.
LEMMA InitIInv ==
  ASSUME ClientAssumption, GenerationAssumption, Init
  PROVE  IInv
<1>1. FileTypes
  <2>1. journal \in Seq(Generation) /\ Len(journal) = 0
    BY EmptySeq DEF Init
  <2>2. custody \in [gen : Generation \union {NoGeneration}, seq : Nat]
        /\ custody.seq = 0
    BY DEF Init, NoCustody
  <2>3. torn \in BOOLEAN
    BY DEF Init
  <2>4. lineage \in [Generation -> SUBSET Generation]
        /\ current \in Generation \union {NoGeneration}
    BY DEF Init
  <2>5. QED
    BY <2>1, <2>2, <2>3, <2>4 DEF FileTypes
<1>2. SessionTypes
  BY DEF Init, SessionTypes, Resting, Sight, NoSight, NoGoal, NoFailure,
         NotSettling, Why
<1>3. Journaled = {} /\ Len(journal) = 0
  BY DEF Init, Journaled
<1>4. WriterHoldsLock /\ GoalExtendsHead
  BY DEF Init, WriterHoldsLock, GoalExtendsHead, Writing
<1>5. LinesAreJournaled
  BY <1>3 DEF Init, LinesAreJournaled, Published
<1>6. AnchorIsJournaled
  BY <1>3 DEF Init, AnchorIsJournaled, NoCustody
<1>7. WorksOnJournaled
  BY <1>3 DEF Init, WorksOnJournaled
<1>8. QED
  BY <1>1, <1>2, <1>4, <1>5, <1>6, <1>7, TypeParts DEF IInv

\* A load or an inspection changes nothing but what its session holds.
LEMMA ReaderKeepsIInv ==
  ASSUME ClientAssumption, GenerationAssumption,
         IInv, NEW c \in Client, Load(c) \/ Inspect(c)
  PROVE  IInv'
<1>0. /\ FileTypes /\ SessionTypes
      /\ Len(journal) \in Nat
      /\ HeadGeneration \in Generation \union {NoGeneration}
  BY TypeParts, HeadType DEF IInv, FileTypes
<1>1. UNCHANGED disk /\ UNCHANGED lock /\ UNCHANGED goal /\ UNCHANGED faults
  BY DEF Load, Inspect, LoadCurrent, LoadJournal, LoadCustody, LoadRecheck,
         LoadSettle, LoadJudge, LoadGivesUp, InspectLock, InspectNames,
         InspectJournal, InspectCurrent, InspectCustody, disk
<1>2. UNCHANGED <<lineage, journal, torn, custody, current, lock, goal, faults>>
  BY <1>1 DEF disk
<1>3. \E l \in Resting \union Loading \union Inspecting :
        pc' = [pc EXCEPT ![c] = l]
  <2> USE DEF Goto, Resting, Loading, Inspecting
  <2>1. CASE Load(c)
    BY <1>0, <2>1 DEF Load, LoadCurrent, LoadJournal, LoadFails, LoadCustody,
        LoadRecheck, LoadSettle, LoadJudge, LoadGivesUp, SessionTypes
  <2>2. CASE Inspect(c)
    BY <2>2 DEF Inspect, Report, InspectLock, InspectNames, InspectJournal,
        InspectCurrent, InspectCustody
  <2>3. QED
    BY <2>1, <2>2
<1>4. known' \in [Client -> Journaled \union {NoGeneration, Unknown}]
  <2>1. known \in [Client -> Journaled \union {NoGeneration, Unknown}]
    BY <1>0 DEF IInv, SessionTypes, WorksOnJournaled
  <2>2. current \in Journaled \union {NoGeneration}
    BY DEF IInv, AnchorIsJournaled
  <2>3. known' = known \/ known' = [known EXCEPT ![c] = current]
    BY DEF Load, Inspect, LoadCurrent, LoadJournal, LoadCustody, LoadRecheck,
           LoadSettle, LoadJudge, LoadGivesUp, InspectLock, InspectNames,
           InspectJournal, InspectCurrent, InspectCustody
  <2>4. QED
    BY <2>1, <2>2, <2>3
<1>5. saw' \in [Client -> Sight]
  <2>1. saw \in [Client -> Sight]
    BY <1>0 DEF SessionTypes
  <2>2. \E x \in Sight : saw' = saw \/ saw' = [saw EXCEPT ![c] = x]
    <3> DEFINE r == saw[c]
    <3>1. r \in Sight
      BY <2>1
    <3>2. NothingPublished \in BOOLEAN
      BY DEF NothingPublished
    <3>3. current \in Generation \union {NoGeneration}
      BY <1>0 DEF FileTypes
    <3>4. NoSight \in Sight
      BY DEF NoSight, Sight
    <3>5. /\ [r EXCEPT !.cur = current] \in Sight
          /\ [r EXCEPT !.head = HeadGeneration, !.len = Len(journal)] \in Sight
          /\ [r EXCEPT !.empty = NothingPublished] \in Sight
      BY <1>0, <3>1, <3>2, <3>3, UpdatedSight DEF Sight
    <3>6. \/ saw' = saw
          \/ saw' = [saw EXCEPT ![c] = NoSight]
          \/ saw' = [saw EXCEPT ![c] = [r EXCEPT !.cur = current]]
          \/ saw' = [saw EXCEPT
                ![c] = [r EXCEPT !.head = HeadGeneration, !.len = Len(journal)]]
          \/ saw' = [saw EXCEPT ![c] = [r EXCEPT !.empty = NothingPublished]]
      BY DEF Load, Inspect, LoadCurrent, LoadJournal, LoadFails, LoadCustody,
             LoadRecheck, LoadSettle, LoadJudge, LoadGivesUp, InspectLock,
             InspectNames, InspectJournal, InspectCurrent, InspectCustody, Report
    <3> HIDE DEF r
    <3>7. QED
      BY <3>1, <3>4, <3>5, <3>6
  <2>3. QED
    BY <2>1, <2>2, UpdatedEntry
<1>6. settling' \in [Client -> [left : SUBSET {"current", "lock"},
                                 quiet : BOOLEAN, why : Why]]
  <2> USE <1>0 DEF SessionTypes
  <2>1. CASE UNCHANGED settling
    BY <2>1
  <2>2. ASSUME NEW why \in Why, LoadFails(c, why)
        PROVE  settling' \in [Client -> [left : SUBSET {"current", "lock"},
                                         quiet : BOOLEAN, why : Why]]
    BY <2>2 DEF LoadFails
  <2>3. CASE LoadSettle(c)
    <3>1. PICK read \in settling[c].left :
            settling' = [settling EXCEPT
              ![c].left = @ \ {read},
              ![c].quiet = @ /\ FindsQuiet(c, read)]
      BY <2>3 DEF LoadSettle
    <3> DEFINE r == settling[c]
               l == r.left \ {read}
               b == r.quiet /\ FindsQuiet(c, read)
    <3>2. b \in BOOLEAN
      OBVIOUS
    <3>3. r \in [left : SUBSET {"current", "lock"}, quiet : BOOLEAN, why : Why]
          /\ l \in SUBSET {"current", "lock"}
      OBVIOUS
    <3>4. settling' = [settling EXCEPT ![c] = [r EXCEPT !.left = l, !.quiet = b]]
      BY <3>1
    <3> HIDE DEF l, b, r
    <3>5. [r EXCEPT !.left = l, !.quiet = b]
            \in [left : SUBSET {"current", "lock"}, quiet : BOOLEAN, why : Why]
      BY <3>2, <3>3, UpdatedSettling
    <3>6. QED
      BY <3>4, <3>5, UpdatedEntry
  <2>4. CASE LoadJudge(c)
    BY <2>4 DEF LoadJudge, NotSettling, Why
  <2>5. QED
    BY <2>1, <2>2, <2>3, <2>4 DEF Load, Inspect, LoadCurrent, LoadJournal,
       LoadCustody, LoadRecheck, LoadGivesUp, InspectLock, InspectNames,
       InspectJournal, InspectCurrent, InspectCustody, Why
<1>7. quiet' \in [Client -> [cur : Generation \union {NoGeneration}, why : Why]]
  <2> USE <1>0 DEF SessionTypes
  <2>1. [cur |-> saw[c].cur, why |-> settling[c].why]
          \in [cur : Generation \union {NoGeneration}, why : Why]
    BY DEF Sight
  <2>2. NoFailure \in [cur : Generation \union {NoGeneration}, why : Why]
    BY DEF NoFailure, Why
  <2>3. \/ quiet' = quiet
        \/ quiet' = [quiet EXCEPT ![c] = NoFailure]
        \/ quiet' = [quiet EXCEPT
                       ![c] = [cur |-> saw[c].cur, why |-> settling[c].why]]
    BY DEF Load, Inspect, LoadCurrent, LoadJournal, LoadCustody, LoadRecheck,
           LoadSettle, LoadJudge, LoadGivesUp, InspectLock, InspectNames,
           InspectJournal, InspectCurrent, InspectCustody
  <2>4. ASSUME NEW f \in [cur : Generation \union {NoGeneration}, why : Why],
               quiet' = [quiet EXCEPT ![c] = f]
        PROVE  quiet' \in [Client -> [cur : Generation \union {NoGeneration}, why : Why]]
    BY <2>4
  <2>5. QED
    BY <2>1, <2>2, <2>3, <2>4
<1>8. advice' \in [Client -> Generation \union {NoGeneration}]
  <2> USE <1>0 DEF SessionTypes
  <2>1. \/ advice' = advice
        \/ advice' = [advice EXCEPT ![c] = NoGeneration]
        \/ advice' = [advice EXCEPT ![c] = saw[c].head]
    BY DEF Load, Inspect, LoadCurrent, LoadJournal, LoadCustody, LoadRecheck,
           LoadSettle, LoadJudge, LoadGivesUp, InspectLock, InspectNames,
           InspectJournal, InspectCurrent, InspectCustody, Report
  <2>2. QED
    BY <2>1 DEF Sight
<1>9. SessionTypes'
  <2>1. pc' \in [Client -> Resting \union Writing \union Loading \union Inspecting]
    BY <1>0, <1>3 DEF SessionTypes
  <2>2. known' \in [Client -> Generation \union {NoGeneration, Unknown}]
    <3>1. Journaled \subseteq Generation
      BY <1>0, HeadType DEF FileTypes
    <3>2. QED
      BY <1>4, <3>1
  <2>3. QED
    BY <1>0, <1>2, <1>5, <1>6, <1>7, <1>8, <2>1, <2>2 DEF SessionTypes
<1>10. WriterHoldsLock'
  BY <1>0, <1>2, <1>3
  DEF IInv, WriterHoldsLock, SessionTypes, Writing, Resting, Loading, Inspecting
<1>11. GoalExtendsHead'
  BY <1>0, <1>2, <1>3
  DEF IInv, GoalExtendsHead, SessionTypes, Resting, Loading, Inspecting,
      Journaled, LineOfHead, HeadGeneration
<1>12. WorksOnJournaled'
  BY <1>2, <1>4 DEF WorksOnJournaled, Journaled
<1>13. QED
  <2>1. FileTypes' /\ LinesAreJournaled' /\ AnchorIsJournaled'
    BY <1>1, FilesUnchanged
  <2>2. TypeOK'
    BY <1>9, <2>1 DEF TypeOK, FileTypes, SessionTypes, Why
  <2>3. QED
    BY <1>10, <1>11, <1>12, <2>1, <2>2 DEF IInv

-----------------------------------------------------------------------------

\* At most one client is in the middle of a write.
LEMMA OnlyWriter ==
  ASSUME WriterHoldsLock, NEW c \in Client, pc[c] \in Writing
  PROVE  lock = c /\ \A d \in Client \ {c} : pc[d] \notin Writing
  BY DEF WriterHoldsLock

\* A client that takes LOCK meets no other writer.
LEMMA NoWriter ==
  ASSUME WriterHoldsLock, ~LockIsLive
  PROVE  \A d \in Client : pc[d] \notin Writing
  BY DEF WriterHoldsLock, LockIsLive

\* A writer's steps keep the types of what the sessions hold.
LEMMA WriterKeepsSessionTypes ==
  ASSUME ClientAssumption, GenerationAssumption,
         IInv, NEW c \in Client, Write(c)
  PROVE  SessionTypes'
<1>0. SessionTypes /\ FileTypes
  BY TypeParts DEF IInv
<1>1. UNCHANGED <<saw, settling, quiet, advice>>
  BY DEF Write, BeginCommit, RefuseCommit, Publish, BeginRestore, RefuseRestore,
         SelectRestore, StartAppend, AppendHead, Anchor, Point, Release,
         WriteFails, Crash, ClearStaleLock, local
<1>2. \E l \in Resting \union Writing : pc' = pc \/ pc' = [pc EXCEPT ![c] = l]
  BY DEF Write, BeginCommit, RefuseCommit, Publish, BeginRestore, RefuseRestore,
         SelectRestore, StartAppend, AppendHead, Anchor, Point, Release,
         WriteFails, Crash, ClearStaleLock, Goto, Resting, Writing
<1>3. \/ lock' \in {lock, c, Free, Stale}
  BY DEF Write, BeginCommit, RefuseCommit, Publish, BeginRestore, RefuseRestore,
         SelectRestore, StartAppend, AppendHead, Anchor, Point, Release,
         WriteFails, Crash, ClearStaleLock, AcquireLock
<1>4. faults' = faults \/ faults' = faults + 1
  BY DEF Write, BeginCommit, RefuseCommit, Publish, BeginRestore, RefuseRestore,
         SelectRestore, StartAppend, AppendHead, Anchor, Point, Release,
         WriteFails, Crash, ClearStaleLock
<1>5. \E x \in Generation \union {NoGeneration, Unknown} :
        known' = known \/ known' = [known EXCEPT ![c] = x]
  <2>1. goal[c].gen \in Generation \union {NoGeneration}
    BY <1>0 DEF SessionTypes
  <2>2. \/ known' = known
        \/ known' = [known EXCEPT ![c] = Unknown]
        \/ known' = [known EXCEPT ![c] = goal[c].gen]
    BY DEF Write, BeginCommit, RefuseCommit, Publish, BeginRestore,
           RefuseRestore, SelectRestore, StartAppend, AppendHead, Anchor, Point,
           Release, WriteFails, Crash, ClearStaleLock, local, Returned
  <2>3. QED
    BY <2>1, <2>2
<1>6. \E x \in [kind : {"none", "commit", "restore"},
                 gen : Generation \union {NoGeneration}] :
        goal' = goal \/ goal' = [goal EXCEPT ![c] = x]
  <2>1. \/ goal' = goal
        \/ goal' = [goal EXCEPT ![c] = NoGoal]
        \/ \E g \in Generation :
             \/ goal' = [goal EXCEPT ![c] = [kind |-> "commit", gen |-> g]]
             \/ goal' = [goal EXCEPT ![c] = [kind |-> "restore", gen |-> g]]
    BY DEF Write, BeginCommit, RefuseCommit, Publish, BeginRestore,
           RefuseRestore, SelectRestore, StartAppend, AppendHead, Anchor, Point,
           Release, WriteFails, Crash, ClearStaleLock, local
  <2>2. NoGoal \in [kind : {"none", "commit", "restore"},
                    gen : Generation \union {NoGeneration}]
    BY DEF NoGoal
  <2>3. QED
    BY <2>1, <2>2
<1>7. QED
  <2>1. pc' \in [Client -> Resting \union Writing \union Loading \union Inspecting]
    BY <1>0, <1>2 DEF SessionTypes
  <2>2. known' \in [Client -> Generation \union {NoGeneration, Unknown}]
    BY <1>0, <1>5 DEF SessionTypes
  <2>3. goal' \in [Client -> [kind : {"none", "commit", "restore"},
                              gen : Generation \union {NoGeneration}]]
    <3> DEFINE Goals == [kind : {"none", "commit", "restore"},
                         gen : Generation \union {NoGeneration}]
    <3>1. goal \in [Client -> Goals]
      BY <1>0 DEF SessionTypes
    <3>2. PICK x \in Goals : goal' = goal \/ goal' = [goal EXCEPT ![c] = x]
      BY <1>6
    <3> HIDE DEF Goals
    <3>3. [goal EXCEPT ![c] = x] \in [Client -> Goals]
      BY <3>1, UpdatedEntry
    <3>4. goal' \in [Client -> Goals]
      BY <3>1, <3>2, <3>3
    <3>5. QED
      BY <3>4 DEF Goals
  <2>4. lock' \in Client \union {Free, Stale} /\ faults' \in Nat
    BY <1>0, <1>3, <1>4 DEF SessionTypes
  <2>5. QED
    BY <1>0, <1>1, <2>1, <2>2, <2>3, <2>4 DEF SessionTypes

\* The rest of the invariant, for the steps that write no file.
LEMMA QuietWriterKeepsIInv ==
  ASSUME ClientAssumption, GenerationAssumption,
         IInv, NEW c \in Client, SessionTypes',
         \/ BeginCommit(c) \/ RefuseCommit(c) \/ RefuseRestore(c)
         \/ \E g \in Generation : BeginRestore(c, g)
         \/ Release(c) \/ WriteFails(c) \/ Crash(c) \/ ClearStaleLock(c)
  PROVE  IInv'
<1>0. SessionTypes /\ FileTypes /\ HeadGeneration \in Generation \union {NoGeneration}
  BY TypeParts, HeadType DEF IInv, FileTypes
<1>1. UNCHANGED disk
  BY DEF BeginCommit, RefuseCommit, RefuseRestore, BeginRestore, Release,
         WriteFails, Crash, ClearStaleLock
<1>2. UNCHANGED <<lineage, journal, torn, custody, current>>
  BY <1>1 DEF disk
<1>3. WriterHoldsLock'
  <2>1. CASE BeginCommit(c) \/ \E g \in Generation : BeginRestore(c, g)
    <3>1. ~LockIsLive /\ lock' = c
      BY <2>1 DEF BeginCommit, BeginRestore, AcquireLock
    <3>2. \A d \in Client \ {c} : pc'[d] = pc[d]
      BY <1>0, <2>1 DEF BeginCommit, BeginRestore, Goto, SessionTypes
    <3>3. QED
      BY <3>1, <3>2, NoWriter DEF WriterHoldsLock, IInv
  <2>2. CASE RefuseCommit(c) \/ RefuseRestore(c) \/ WriteFails(c)
    <3>1. pc[c] \in Writing /\ lock' = lock
      BY <2>2 DEF RefuseCommit, RefuseRestore, WriteFails, Writing
    <3>2. \A d \in Client \ {c} : pc'[d] = pc[d]
      BY <1>0, <2>2 DEF RefuseCommit, RefuseRestore, WriteFails, Goto, SessionTypes
    <3>3. QED
      BY <3>1, <3>2, OnlyWriter DEF WriterHoldsLock, IInv
  <2>3. CASE Release(c) \/ Crash(c)
    <3>1. pc[c] \in Writing
      BY <2>3 DEF Release, Crash, Writing
    <3>2. pc' = [pc EXCEPT ![c] = "idle"]
      BY <2>3 DEF Release, Crash, Goto
    <3>3. \A d \in Client : pc'[d] \notin Writing
      BY <1>0, <3>1, <3>2, OnlyWriter DEF IInv, SessionTypes, Writing
    <3>4. QED
      BY <3>3 DEF WriterHoldsLock
  <2>4. CASE ClearStaleLock(c)
    <3>1. ~LockIsLive /\ pc' = pc
      BY <2>4, ClientAssumption DEF ClearStaleLock, LockIsLive
    <3>2. QED
      BY <3>1, NoWriter DEF WriterHoldsLock, IInv
  <2>5. QED
    BY <2>1, <2>2, <2>3, <2>4
<1>4. GoalExtendsHead'
  <2>1. \A d \in Client \ {c} : pc'[d] = pc[d] /\ goal'[d] = goal[d]
    BY <1>0 DEF BeginCommit, RefuseCommit, RefuseRestore, BeginRestore, Release,
                WriteFails, Crash, ClearStaleLock, Goto, SessionTypes, local
  <2>2. pc'[c] \notin {"journaling", "appending", "anchoring", "pointing", "committed"}
    BY <1>0 DEF BeginCommit, RefuseCommit, RefuseRestore, BeginRestore, Release,
                WriteFails, Crash, ClearStaleLock, Goto, SessionTypes, Resting
  <2>3. HeadGeneration' = HeadGeneration /\ LineOfHead' = LineOfHead
        /\ Journaled' = Journaled
    BY <1>2 DEF HeadGeneration, LineOfHead, Journaled
  <2>4. QED
    BY <1>2, <2>1, <2>2, <2>3 DEF IInv, GoalExtendsHead
<1>5. WorksOnJournaled'
  <2>1. \/ known' = known
        \/ known' = [known EXCEPT ![c] = Unknown]
        \/ pc[c] = "committed" /\ known' = [known EXCEPT ![c] = goal[c].gen]
    BY DEF BeginCommit, RefuseCommit, RefuseRestore, BeginRestore, Release,
           WriteFails, Crash, ClearStaleLock, local, Returned
  <2>2. pc[c] = "committed" => goal[c].gen \in Journaled
    BY <1>0, HeadType DEF IInv, GoalExtendsHead, FileTypes
  <2>3. Journaled' = Journaled
    BY <1>2 DEF Journaled
  <2>4. QED
    BY <1>0, <2>1, <2>2, <2>3 DEF IInv, WorksOnJournaled, SessionTypes
<1>6. QED
  <2>1. FileTypes' /\ LinesAreJournaled' /\ AnchorIsJournaled'
    BY <1>1, FilesUnchanged
  <2>2. TypeOK'
    BY <2>1 DEF TypeOK, FileTypes, SessionTypes, Why
  <2>3. QED
    BY <1>3, <1>4, <1>5, <2>1, <2>2 DEF IInv

-----------------------------------------------------------------------------
(* The steps of a writer between its checks and its release.               *)

\* While c goes on writing it holds LOCK, and nobody else writes.
LEMMA WriterGoesOn ==
  ASSUME SessionTypes, WriterHoldsLock, NEW c \in Client, NEW l,
         pc[c] \in Writing, pc' = [pc EXCEPT ![c] = l], lock' = lock
  PROVE  /\ WriterHoldsLock'
         /\ pc'[c] = l
         /\ \A d \in Client \ {c} : pc'[d] \notin Writing
<1>1. lock = c /\ \A d \in Client \ {c} : pc[d] \notin Writing
  BY OnlyWriter
<1>2. pc'[c] = l /\ \A d \in Client \ {c} : pc'[d] = pc[d]
  BY DEF SessionTypes
<1>3. QED
  BY <1>1, <1>2 DEF WriterHoldsLock

\* With nobody else writing, only the writer's own goal matters.
LEMMA GoalOfWriter ==
  ASSUME NEW c \in Client,
         \A d \in Client \ {c} : pc'[d] \notin Writing,
         pc'[c] \in {"journaling", "appending"} =>
           /\ Len(journal') = custody'.seq
           /\ goal'[c].gen \in Generation
           /\ \/ /\ goal'[c].gen \notin Journaled'
                 /\ lineage'[goal'[c].gen] = {goal'[c].gen} \union LineOfHead'
              \/ goal'[c].gen \in LineOfHead',
         pc'[c] \in {"anchoring", "pointing", "committed"} =>
           journal' # <<>> /\ goal'[c].gen = HeadGeneration'
  PROVE  GoalExtendsHead'
<1>1. ASSUME NEW d \in Client, d # c
      PROVE  pc'[d] \notin {"journaling", "appending", "anchoring", "pointing",
                           "committed"}
  BY <1>1 DEF Writing
<1>2. QED
  BY <1>1 DEF GoalExtendsHead

\* What restore selects is the head, or lies on the line of an anchored head.
LEMMA SelectRestoreKeepsIInv ==
  ASSUME IInv, NEW c \in Client, SelectRestore(c), SessionTypes'
  PROVE  IInv'
<1>0. SessionTypes /\ FileTypes
  BY TypeParts DEF IInv
<1>1. UNCHANGED disk
  BY DEF SelectRestore
<1>2. UNCHANGED <<lineage, journal, custody, known, goal, lock>>
  BY DEF SelectRestore, disk, local
<1>3. PICK l : pc' = [pc EXCEPT ![c] = l]
               /\ l = IF goal[c].gen = HeadGeneration
                      THEN "anchoring" ELSE "journaling"
  BY DEF SelectRestore, Goto
<1>4. pc[c] \in Writing
  BY DEF SelectRestore, Writing
<1>5. /\ WriterHoldsLock'
      /\ pc'[c] = l
      /\ \A d \in Client \ {c} : pc'[d] \notin Writing
  BY <1>0, <1>2, <1>3, <1>4, WriterGoesOn DEF IInv
<1>6. HeadGeneration' = HeadGeneration /\ LineOfHead' = LineOfHead
      /\ Journaled' = Journaled
  BY <1>2 DEF HeadGeneration, LineOfHead, Journaled
<1>7. journal # <<>>
  BY DEF SelectRestore, RestoreAccepted
<1>8. ASSUME goal[c].gen # HeadGeneration
      PROVE  /\ Len(journal) = custody.seq
             /\ goal[c].gen \in Generation
             /\ goal[c].gen \in LineOfHead
  <2>1. custody.seq = Len(journal) /\ goal[c].gen \in lineage[custody.gen]
    BY <1>8 DEF SelectRestore, RestoreAccepted, HeadSequence
  <2>2. custody.gen = HeadGeneration /\ HeadGeneration \in Generation
    BY <1>0, <1>7, <2>1, HeadType DEF IInv, AnchorIsJournaled, FileTypes
  <2>3. lineage[HeadGeneration] \subseteq Generation
    BY <1>0, <2>2 DEF FileTypes
  <2>4. QED
    BY <1>7, <2>1, <2>2, <2>3 DEF LineOfHead
<1>9. GoalExtendsHead'
  <2>1. CASE goal[c].gen = HeadGeneration
    <3>1. pc'[c] = "anchoring"
      BY <1>3, <1>5, <2>1
    <3>2. QED
      BY <1>2, <1>5, <1>6, <1>7, <2>1, <3>1, GoalOfWriter
  <2>2. CASE goal[c].gen # HeadGeneration
    <3>1. pc'[c] = "journaling"
      BY <1>3, <1>5, <2>2
    <3>2. QED
      BY <1>2, <1>5, <1>6, <1>8, <2>2, <3>1, GoalOfWriter
  <2>3. QED
    BY <2>1, <2>2
<1>10. WorksOnJournaled'
  BY <1>2, <1>6 DEF IInv, WorksOnJournaled
<1>11. QED
  <2>1. FileTypes' /\ LinesAreJournaled' /\ AnchorIsJournaled'
    BY <1>1, FilesUnchanged
  <2>2. TypeOK'
    BY <2>1 DEF TypeOK, FileTypes, SessionTypes, Why
  <2>3. QED
    BY <1>5, <1>9, <1>10, <2>1, <2>2 DEF IInv

\* A published generation continues the line of the head it is based on.
LEMMA PublishKeepsIInv ==
  ASSUME GenerationAssumption, IInv, NEW c \in Client, Publish(c), SessionTypes'
  PROVE  IInv'
<1>0. SessionTypes /\ FileTypes
  BY TypeParts DEF IInv
<1>1. UNCHANGED <<journal, torn, custody, current, known, lock>>
  BY DEF Publish
<1>2. PICK g \in Generation :
        /\ ~Published(g)
        /\ lineage' = [lineage EXCEPT
             ![g] = {g} \union
                    IF known[c] = NoGeneration THEN {} ELSE lineage[known[c]]]
        /\ goal' = [goal EXCEPT ![c] = [kind |-> "commit", gen |-> g]]
  BY DEF Publish
<1>3. /\ WriterHoldsLock'
      /\ pc'[c] = "journaling"
      /\ \A d \in Client \ {c} : pc'[d] \notin Writing
  <2>1. pc[c] \in Writing /\ pc' = [pc EXCEPT ![c] = "journaling"] /\ lock' = lock
    BY DEF Publish, Goto, Writing
  <2>2. QED
    BY <1>0, <2>1, WriterGoesOn DEF IInv
<1>4. g \notin Journaled
  BY <1>2 DEF IInv, LinesAreJournaled
<1>5. Journaled' = Journaled /\ HeadGeneration' = HeadGeneration
  BY <1>1 DEF Journaled, HeadGeneration
<1>6. /\ Len(journal) \in Nat
      /\ Journaled \subseteq Generation
      /\ journal # <<>> => HeadGeneration \in Journaled
  BY <1>0, HeadType DEF FileTypes
<1>7. /\ IF known[c] = NoGeneration
         THEN journal = <<>> ELSE journal # <<>> /\ known[c] = HeadGeneration
      /\ Len(journal) = custody.seq
  <2>1. CommitAccepted(known[c])
    BY DEF Publish
  <2>2. CASE journal = <<>>
    <3>1. custody = NoCustody /\ Len(journal) = 0
      BY <2>1, <2>2 DEF CommitAccepted
    <3>2. Journaled = {}
      BY <3>1 DEF Journaled
    <3>3. known[c] = NoGeneration
      BY <2>1, <3>2 DEF CommitAccepted, IInv, AnchorIsJournaled
    <3>4. QED
      BY <2>2, <3>1, <3>3 DEF NoCustody
  <2>3. CASE journal # <<>>
    <3>1. HeadGeneration = known[c] /\ custody = HeadCustody
      BY <2>1, <2>3 DEF CommitAccepted
    <3>2. known[c] # NoGeneration
      BY <1>6, <2>3, <3>1, GenerationAssumption
    <3>3. QED
      BY <2>3, <3>1, <3>2 DEF HeadCustody, HeadSequence
  <2>4. QED
    BY <2>2, <2>3
<1>8. lineage' = [lineage EXCEPT ![g] = {g} \union LineOfHead]
  BY <1>2, <1>7 DEF LineOfHead
<1>9. LineOfHead \subseteq Generation
  BY <1>0, <1>6 DEF LineOfHead, FileTypes
<1>10. /\ lineage' \in [Generation -> SUBSET Generation]
       /\ lineage'[g] = {g} \union LineOfHead
       /\ \A h \in Generation \ {g} : lineage'[h] = lineage[h]
  BY <1>0, <1>8, <1>9 DEF FileTypes
<1>11. LineOfHead' = LineOfHead
  <2>1. CASE journal = <<>>
    BY <1>1, <2>1 DEF LineOfHead
  <2>2. CASE journal # <<>>
    <3>1. HeadGeneration \in Generation \ {g}
      BY <1>4, <1>6, <2>2
    <3>2. QED
      BY <1>1, <1>5, <1>10, <2>2, <3>1 DEF LineOfHead
  <2>3. QED
    BY <2>1, <2>2
<1>12. FileTypes'
  BY <1>0, <1>1, <1>10 DEF FileTypes
<1>13. LinesAreJournaled'
  <2>1. ASSUME NEW h \in Generation, lineage'[h] # {}
        PROVE  h \in lineage'[h]
    BY <1>10, <2>1 DEF IInv, LinesAreJournaled, Published
  <2>2. ASSUME NEW h \in Journaled
        PROVE  lineage'[h] # {} /\ lineage'[h] \subseteq Journaled
    <3>1. h \in Generation \ {g}
      BY <1>4, <1>6
    <3>2. QED
      BY <1>10, <3>1 DEF IInv, LinesAreJournaled, Published
  <2>3. QED
    BY <1>5, <2>1, <2>2 DEF LinesAreJournaled, Published
<1>14. AnchorIsJournaled'
  BY <1>1, <1>5 DEF IInv, AnchorIsJournaled
<1>15. GoalExtendsHead'
  <2>1. goal'[c].gen = g
    BY <1>0, <1>2 DEF SessionTypes
  <2>2. QED
    BY <1>1, <1>3, <1>4, <1>5, <1>7, <1>10, <1>11, <2>1, GoalOfWriter
<1>16. WorksOnJournaled'
  BY <1>1, <1>5 DEF IInv, WorksOnJournaled
<1>17. QED
  <2>1. TypeOK'
    BY <1>12 DEF TypeOK, FileTypes, SessionTypes, Why
  <2>2. QED
    BY <1>3, <1>13, <1>14, <1>15, <1>16, <2>1 DEF IInv

\* Part of a record changes nothing that a later step relies on.
LEMMA StartAppendKeepsIInv ==
  ASSUME IInv, NEW c \in Client, StartAppend(c), SessionTypes'
  PROVE  IInv'
<1>0. SessionTypes /\ FileTypes
  BY TypeParts DEF IInv
<1>1. UNCHANGED <<lineage, journal, custody, current, known, goal, lock>>
  BY DEF StartAppend, local
<1>2. /\ WriterHoldsLock'
      /\ pc'[c] = "appending"
      /\ \A d \in Client \ {c} : pc'[d] \notin Writing
  <2>1. pc[c] \in Writing /\ pc' = [pc EXCEPT ![c] = "appending"]
    BY DEF StartAppend, Goto, Writing
  <2>2. QED
    BY <1>0, <1>1, <2>1, WriterGoesOn DEF IInv
<1>3. Journaled' = Journaled /\ LineOfHead' = LineOfHead
  BY <1>1 DEF Journaled, LineOfHead, HeadGeneration
<1>4. FileTypes'
  <2>1. torn' \in BOOLEAN
    BY DEF StartAppend
  <2>2. QED
    BY <1>0, <1>1, <2>1 DEF FileTypes
<1>5. LinesAreJournaled' /\ AnchorIsJournaled' /\ WorksOnJournaled'
  BY <1>1, <1>3
  DEF IInv, LinesAreJournaled, AnchorIsJournaled, WorksOnJournaled, Published
<1>6. GoalExtendsHead'
  <2>1. /\ Len(journal) = custody.seq
        /\ goal[c].gen \in Generation
        /\ \/ /\ goal[c].gen \notin Journaled
              /\ lineage[goal[c].gen] = {goal[c].gen} \union LineOfHead
           \/ goal[c].gen \in LineOfHead
    BY DEF IInv, GoalExtendsHead, StartAppend
  <2>2. QED
    BY <1>1, <1>2, <1>3, <2>1, GoalOfWriter
<1>7. QED
  <2>1. TypeOK'
    BY <1>4 DEF TypeOK, FileTypes, SessionTypes, Why
  <2>2. QED
    BY <1>2, <1>5, <1>6, <2>1 DEF IInv

\* What a writer that is about to journal knows of its goal.
LEMMA GoalOfAppend ==
  ASSUME GoalExtendsHead, NEW c \in Client, AppendHead(c)
  PROVE  /\ Len(journal) = custody.seq
         /\ goal[c].gen \in Generation
         /\ \/ /\ goal[c].gen \notin Journaled
               /\ lineage[goal[c].gen] = {goal[c].gen} \union LineOfHead
            \/ goal[c].gen \in LineOfHead
<1>1. pc[c] \in {"journaling", "appending"}
  BY DEF AppendHead
<1>2. QED
  BY <1>1 DEF GoalExtendsHead

\* A record more: the journal holds one more generation, its new head.
LEMMA AppendedJournal ==
  ASSUME journal \in Seq(Generation), NEW g \in Generation,
         journal' = Append(journal, g)
  PROVE  /\ journal' \in Seq(Generation)
         /\ journal' # <<>>
         /\ Len(journal') = Len(journal) + 1
         /\ \A i \in 1..Len(journal) : journal'[i] = journal[i]
         /\ HeadGeneration' = g
         /\ Journaled' = Journaled \union {g}
<1>1. /\ journal' \in Seq(Generation)
      /\ journal' # <<>>
      /\ Len(journal') = Len(journal) + 1
      /\ \A i \in 1..Len(journal) : journal'[i] = journal[i]
      /\ journal'[Len(journal) + 1] = g
  BY AppendProperties
<1>2. Len(journal) \in Nat
  BY LenProperties
<1>3. HeadGeneration' = g
  BY <1>1 DEF HeadGeneration
<1>4. ASSUME NEW h
      PROVE  h \in Journaled' <=> h \in Journaled \union {g}
  <2>1. ASSUME h \in Journaled' PROVE h \in Journaled \union {g}
    <3>1. PICK i \in 1..Len(journal) + 1 : h = journal'[i]
      BY <1>1, <2>1 DEF Journaled
    <3>2. CASE i = Len(journal) + 1
      BY <1>1, <3>1, <3>2
    <3>3. CASE i # Len(journal) + 1
      <4>1. i \in 1..Len(journal)
        BY <1>2, <3>3
      <4>2. QED
        BY <1>1, <3>1, <4>1 DEF Journaled
    <3>4. QED
      BY <3>2, <3>3
  <2>2. ASSUME h \in Journaled PROVE h \in Journaled'
    <3>1. PICK i \in 1..Len(journal) : h = journal[i]
      BY <2>2 DEF Journaled
    <3>2. i \in 1..Len(journal') /\ h = journal'[i]
      BY <1>1, <1>2, <3>1
    <3>3. QED
      BY <3>2 DEF Journaled
  <2>3. g \in Journaled'
    <3>1. Len(journal) + 1 \in 1..Len(journal')
      BY <1>1, <1>2
    <3>2. QED
      BY <1>1, <3>1 DEF Journaled
  <2>4. QED
    BY <2>1, <2>2, <2>3
<1>5. Journaled' = Journaled \union {g}
  BY <1>4
<1>6. QED
  BY <1>1, <1>3, <1>5

\* The journaled generation brings a line the journal already holds.
LEMMA AppendHeadKeepsIInv ==
  ASSUME IInv, NEW c \in Client, AppendHead(c), SessionTypes'
  PROVE  IInv'
<1> DEFINE g == goal[c].gen
<1>0. SessionTypes /\ FileTypes
  BY TypeParts DEF IInv
<1>1. UNCHANGED <<lineage, custody, current, known, goal, lock>>
  BY DEF AppendHead, local
<1>2. /\ WriterHoldsLock'
      /\ pc'[c] = "anchoring"
      /\ \A d \in Client \ {c} : pc'[d] \notin Writing
  <2>1. pc[c] \in Writing /\ pc' = [pc EXCEPT ![c] = "anchoring"]
    BY DEF AppendHead, Goto, Writing
  <2>2. QED
    BY <1>0, <1>1, <2>1, WriterGoesOn DEF IInv
<1>3. /\ Len(journal) = custody.seq
      /\ g \in Generation
      /\ \/ g \notin Journaled /\ lineage[g] = {g} \union LineOfHead
         \/ g \in LineOfHead
  BY GoalOfAppend DEF IInv
<1>4. journal' = Append(journal, g) /\ torn' = FALSE
  BY DEF AppendHead
<1> HIDE DEF g
<1>5. /\ journal' \in Seq(Generation)
      /\ journal' # <<>>
      /\ Len(journal') = Len(journal) + 1
      /\ \A i \in 1..Len(journal) : journal'[i] = journal[i]
      /\ HeadGeneration' = g
      /\ Journaled' = Journaled \union {g}
  BY <1>0, <1>3, <1>4, AppendedJournal DEF FileTypes
<1>6. LineOfHead \subseteq Journaled
  BY <1>0, HeadType DEF LineOfHead, FileTypes, IInv, LinesAreJournaled
<1>7. LinesAreJournaled'
  <2>1. ASSUME NEW h \in Journaled' PROVE Published(h) /\ lineage[h] \subseteq Journaled'
    <3>1. CASE h \in Journaled
      BY <1>5, <3>1 DEF IInv, LinesAreJournaled
    <3>2. CASE h = g /\ g \notin Journaled
      BY <1>3, <1>5, <1>6, <3>2 DEF Published
    <3>3. QED
      BY <1>5, <2>1, <3>1, <3>2
  <2>2. QED
    BY <1>1, <2>1 DEF IInv, LinesAreJournaled, Published
<1>8. FileTypes'
  <2>1. Len(journal) \in Nat
    BY <1>0, HeadType DEF FileTypes
  <2>2. custody.seq <= Len(journal')
    BY <1>0, <1>3, <1>5, <2>1
  <2>3. torn' \in BOOLEAN
    BY <1>4
  <2>4. QED
    BY <1>0, <1>1, <1>5, <2>2, <2>3 DEF FileTypes
<1>9. AnchorIsJournaled'
  <2>1. Len(journal) \in Nat
    BY <1>0, HeadType DEF FileTypes
  <2>2. custody.seq > 0 => custody.gen = journal'[custody.seq]
    BY <1>3, <1>5, <2>1 DEF IInv, AnchorIsJournaled
  <2>3. Len(journal') <= custody.seq + 1
    BY <1>3, <1>5, <2>1
  <2>4. QED
    BY <1>1, <1>5, <2>2, <2>3 DEF IInv, AnchorIsJournaled
<1>10. GoalExtendsHead'
  BY <1>1, <1>2, <1>5, GoalOfWriter DEF g
<1>11. WorksOnJournaled'
  BY <1>1, <1>5 DEF IInv, WorksOnJournaled
<1>12. QED
  <2>1. TypeOK'
    BY <1>8 DEF TypeOK, FileTypes, SessionTypes, Why
  <2>2. QED
    BY <1>2, <1>7, <1>9, <1>10, <1>11, <2>1 DEF IInv

\* The anchor and the pointer are brought up to the head.
LEMMA AnchorAndPointKeepIInv ==
  ASSUME IInv, NEW c \in Client, Anchor(c) \/ Point(c), SessionTypes'
  PROVE  IInv'
<1>0. SessionTypes /\ FileTypes
  BY TypeParts DEF IInv
<1>1. UNCHANGED <<lineage, journal, torn, known, goal, lock>>
  BY DEF Anchor, Point, local
<1>2. PICK l \in {"pointing", "committed", "restored"} : pc' = [pc EXCEPT ![c] = l]
  BY DEF Anchor, Point, Goto
<1>3. /\ WriterHoldsLock'
      /\ pc'[c] = l
      /\ \A d \in Client \ {c} : pc'[d] \notin Writing
  <2>1. pc[c] \in Writing
    BY DEF Anchor, Point, Writing
  <2>2. QED
    BY <1>0, <1>1, <1>2, <2>1, WriterGoesOn DEF IInv
<1>4. /\ journal # <<>>
      /\ goal[c].gen = HeadGeneration
  BY DEF Anchor, Point, IInv, GoalExtendsHead
<1>5. /\ Len(journal) \in Nat
      /\ Len(journal) > 0
      /\ HeadGeneration = journal[Len(journal)]
      /\ HeadGeneration \in Journaled
      /\ HeadGeneration \in Generation
  BY <1>0, <1>4, HeadType DEF FileTypes
<1>6. /\ Journaled' = Journaled
      /\ HeadGeneration' = HeadGeneration
      /\ LineOfHead' = LineOfHead
  BY <1>1 DEF Journaled, LineOfHead, HeadGeneration
<1>7. GoalExtendsHead'
  BY <1>1, <1>3, <1>4, <1>6, GoalOfWriter
<1>8. LinesAreJournaled' /\ WorksOnJournaled'
  BY <1>1, <1>6 DEF IInv, LinesAreJournaled, WorksOnJournaled, Published
<1>9. FileTypes' /\ AnchorIsJournaled'
  <2>1. CASE Anchor(c)
    <3>1. custody' = [gen |-> HeadGeneration, seq |-> Len(journal)]
          /\ current' = current
      BY <1>4, <2>1 DEF Anchor, HeadSequence
    <3>2. FileTypes'
      BY <1>0, <1>1, <1>5, <3>1 DEF FileTypes
    <3>3. AnchorIsJournaled'
      BY <1>1, <1>5, <1>6, <3>1 DEF IInv, AnchorIsJournaled
    <3>4. QED
      BY <3>2, <3>3
  <2>2. CASE Point(c)
    <3>1. custody' = custody /\ current' = HeadGeneration
      BY <1>4, <2>2 DEF Point
    <3>2. FileTypes'
      BY <1>0, <1>1, <1>5, <3>1 DEF FileTypes
    <3>3. AnchorIsJournaled'
      BY <1>1, <1>5, <1>6, <3>1 DEF IInv, AnchorIsJournaled
    <3>4. QED
      BY <3>2, <3>3
  <2>3. QED
    BY <2>1, <2>2
<1>10. QED
  <2>1. TypeOK'
    BY <1>9 DEF TypeOK, FileTypes, SessionTypes, Why
  <2>2. QED
    BY <1>3, <1>7, <1>8, <1>9, <2>1 DEF IInv

-----------------------------------------------------------------------------
(* The theorems.                                                           *)

\* IInv is an invariant: it holds at first and every step preserves it.
THEOREM IInvHolds == Spec => []IInv
<1>1. Init => IInv
  BY ClientAssumption, GenerationAssumption, InitIInv
<1>2. ASSUME IInv, [Next]_vars
      PROVE  IInv'
  <2>1. CASE UNCHANGED vars
    <3>1. UNCHANGED disk /\ UNCHANGED <<journal, lock, pc, local, faults>>
      BY <2>1 DEF vars, disk
    <3>2. FileTypes' /\ LinesAreJournaled' /\ AnchorIsJournaled'
      BY <1>2, <3>1, FilesUnchanged
    <3>3. SessionTypes'
      <4>1. SessionTypes
        BY <1>2, TypeParts DEF IInv
      <4>2. QED
        BY <3>1, <4>1 DEF SessionTypes, local
    <3>4. TypeOK'
      BY <3>2, <3>3 DEF TypeOK, FileTypes, SessionTypes, Why
    <3>5. WriterHoldsLock' /\ WorksOnJournaled'
      BY <1>2, <3>1 DEF IInv, WriterHoldsLock, WorksOnJournaled, Journaled, local
    <3>6. GoalExtendsHead'
      BY <1>2, <3>1 DEF IInv, GoalExtendsHead, Journaled, LineOfHead,
         HeadGeneration, disk, local
    <3>7. QED
      BY <3>2, <3>4, <3>5, <3>6 DEF IInv
  <2>2. ASSUME NEW c \in Client, Write(c)
        PROVE  IInv'
    <3>1. SessionTypes'
      BY <1>2, <2>2, ClientAssumption, GenerationAssumption, WriterKeepsSessionTypes
    <3>2. CASE \/ BeginCommit(c) \/ RefuseCommit(c) \/ RefuseRestore(c)
               \/ \E g \in Generation : BeginRestore(c, g)
               \/ Release(c) \/ WriteFails(c) \/ Crash(c) \/ ClearStaleLock(c)
      BY <1>2, <3>1, <3>2, ClientAssumption, GenerationAssumption,
         QuietWriterKeepsIInv
    <3>3. CASE Publish(c)
      BY <1>2, <3>1, <3>3, GenerationAssumption, PublishKeepsIInv
    <3>4. CASE SelectRestore(c)
      BY <1>2, <3>1, <3>4, SelectRestoreKeepsIInv
    <3>5. CASE StartAppend(c)
      BY <1>2, <3>1, <3>5, StartAppendKeepsIInv
    <3>6. CASE AppendHead(c)
      BY <1>2, <3>1, <3>6, AppendHeadKeepsIInv
    <3>7. CASE Anchor(c) \/ Point(c)
      BY <1>2, <3>1, <3>7, AnchorAndPointKeepIInv
    <3>8. QED
      BY <2>2, <3>2, <3>3, <3>4, <3>5, <3>6, <3>7 DEF Write
  <2>3. ASSUME NEW c \in Client, Load(c) \/ Inspect(c)
        PROVE  IInv'
    BY <1>2, <2>3, ClientAssumption, GenerationAssumption, ReaderKeepsIInv
  <2>4. QED
    BY <1>2, <2>1, <2>2, <2>3 DEF Next
<1>3. QED
  BY <1>1, <1>2, PTL DEF Spec

\* Every variable keeps its type.
THEOREM TypeCorrect == Spec => []TypeOK
<1>1. IInv => TypeOK
  BY DEF IInv
<1>2. QED
  BY <1>1, IInvHolds, PTL

\* No session works on a generation that is not in the journal.
THEOREM WorksOnJournaledHolds == Spec => []WorksOnJournaled
<1>1. IInv => WorksOnJournaled
  BY DEF IInv
<1>2. QED
  BY <1>1, IInvHolds, PTL

\* Whatever crashed or failed before, a store that was established and whose
\* journal is whole accepts a restore of its head.
THEOREM HeadStaysRestorableHolds == Spec => []HeadStaysRestorable
<1>1. ASSUME IInv PROVE HeadStaysRestorable
  <2>1. SUFFICES ASSUME custody # NoCustody, ~torn
                 PROVE  RestoreAccepted(HeadGeneration)
    BY DEF HeadStaysRestorable
  <2>2. FileTypes
    BY <1>1, TypeParts DEF IInv
  <2>3. custody.seq > 0 /\ custody.seq <= Len(journal) /\ Len(journal) \in Nat
    <3>1. custody.seq = 0 => custody = NoCustody
      BY <1>1, <2>2 DEF IInv, AnchorIsJournaled, NoCustody, FileTypes
    <3>2. custody.seq \in Nat
      BY <2>2 DEF FileTypes
    <3>3. QED
      BY <2>1, <2>2, <3>1, <3>2, HeadType DEF FileTypes
  <2>4. journal # <<>>
    BY <2>2, <2>3, EmptySeq DEF FileTypes
  <2>5. /\ HeadGeneration \in Journaled
        /\ HeadGeneration \in Generation
        /\ HeadGeneration = journal[Len(journal)]
    BY <2>2, <2>4, HeadType DEF FileTypes
  <2>6. HeadGeneration \in lineage[HeadGeneration]
    BY <1>1, <2>5 DEF IInv, LinesAreJournaled
  <2>7. CASE custody.seq = Len(journal)
    BY <1>1, <2>1, <2>3, <2>4, <2>5, <2>6, <2>7
    DEF RestoreAccepted, HeadSequence, IInv, AnchorIsJournaled
  <2>8. CASE custody.seq # Len(journal)
    <3>1. custody.seq + 1 = Len(journal)
      BY <1>1, <2>2, <2>3, <2>8 DEF IInv, AnchorIsJournaled, FileTypes
    <3>2. QED
      BY <2>1, <2>4, <2>6, <3>1 DEF RestoreAccepted, InterruptedAppend
  <2>9. QED
    BY <2>7, <2>8
<1>2. QED
  BY <1>1, IInvHolds, PTL

-----------------------------------------------------------------------------
(* The store implements the version history.                               *)

\* The line of a version: that of its generation, once it is journaled.
LineOf == [g \in Generation |-> IF g \in Journaled THEN lineage[g] ELSE {}]

\* A history step: the version a writer journals is new, and its line that
\* of the head and itself, or it lies on the line of the head.
LEMMA AppendHeadIsVersion ==
  ASSUME IInv, NEW c \in Client, AppendHead(c)
  PROVE  History!Next
<1> DEFINE g == goal[c].gen
<1>0. FileTypes
  BY TypeParts DEF IInv
<1>1. /\ g \in Generation
      /\ \/ g \notin Journaled /\ lineage[g] = {g} \union LineOfHead
         \/ g \in LineOfHead
  BY GoalOfAppend DEF IInv
<1>2. journal' = Append(journal, g) /\ lineage' = lineage
  BY DEF AppendHead
<1> HIDE DEF g
<1>3. Journaled' = Journaled \union {g}
  BY <1>0, <1>1, <1>2, AppendedJournal DEF FileTypes
<1>4. LineOfHead = History!LineOfCurrent /\ LineOfHead \subseteq Journaled
  <2>1. CASE journal = <<>>
    BY <2>1 DEF LineOfHead, History!LineOfCurrent
  <2>2. CASE journal # <<>>
    <3>1. /\ HeadGeneration = journal[Len(journal)]
          /\ HeadGeneration \in Journaled
          /\ HeadGeneration \in Generation
      BY <1>0, <2>2, HeadType DEF FileTypes
    <3>2. LineOf[HeadGeneration] = lineage[HeadGeneration]
      BY <3>1 DEF LineOf
    <3>3. QED
      BY <2>2, <3>1, <3>2
      DEF LineOfHead, LineOf, History!LineOfCurrent, IInv, LinesAreJournaled
  <2>3. QED
    BY <2>1, <2>2
<1>5. CASE g \notin Journaled /\ lineage[g] = {g} \union LineOfHead
  <2>1. LineOf[g] = {}
    BY <1>1, <1>5 DEF LineOf
  <2>2. LineOf' = [LineOf EXCEPT ![g] = {g} \union LineOfHead]
    BY <1>1, <1>2, <1>3, <1>5 DEF LineOf
  <2>3. PICK v \in Generation : v = g
    BY <1>1
  <2>4. History!Commit(v)
    BY <1>2, <1>4, <2>1, <2>2, <2>3 DEF LineOf, History!Commit
  <2>5. QED
    BY <2>4 DEF History!Next
<1>6. CASE g \in LineOfHead
  <2>1. LineOf' = LineOf
    BY <1>2, <1>3, <1>4, <1>6 DEF LineOf
  <2>2. History!Rewind(g)
    BY <1>2, <1>4, <1>6, <2>1 DEF LineOf, History!Rewind
  <2>3. QED
    BY <1>1, <2>2 DEF History!Next
<1>7. QED
  BY <1>1, <1>5, <1>6

\* What is published but not journaled is not a version yet.
LEMMA PublishIsNoVersion ==
  ASSUME IInv, NEW c \in Client, Publish(c)
  PROVE  journal' = journal /\ LineOf' = LineOf
<1>1. journal' = journal
  BY DEF Publish
<1>2. PICK g \in Generation :
        ~Published(g) /\ \E S : lineage' = [lineage EXCEPT ![g] = S]
  BY DEF Publish
<1>3. g \notin Journaled
  BY <1>2 DEF IInv, LinesAreJournaled
<1>4. lineage \in [Generation -> SUBSET Generation]
  BY DEF IInv, TypeOK
<1>5. Journaled' = Journaled
  BY <1>1 DEF Journaled
<1>6. \A h \in Journaled : lineage'[h] = lineage[h]
  BY <1>2, <1>3, <1>4
<1>7. QED
  BY <1>1, <1>5, <1>6 DEF LineOf

\* The journal of the store, with the lines of what it holds, is a version
\* history.
THEOREM ImplementsHistoryHolds == Spec => ImplementsHistory
<1>1. Init => History!Init
  BY DEF Init, History!Init, Journaled
<1>2. ASSUME IInv, [Next]_vars
      PROVE  [History!Next]_(History!vars)
  <2>1. ASSUME journal' = journal, LineOf' = LineOf
        PROVE  UNCHANGED History!vars
    BY <2>1 DEF LineOf, History!vars
  <2>2. ASSUME UNCHANGED <<journal, lineage>>
        PROVE  UNCHANGED History!vars
    BY <2>1, <2>2 DEF LineOf, Journaled
  <2>3. CASE UNCHANGED vars
    BY <2>2, <2>3 DEF vars, disk
  <2>4. ASSUME NEW c \in Client, AppendHead(c)
        PROVE  History!Next
    BY <1>2, <2>4, AppendHeadIsVersion
  <2>5. ASSUME NEW c \in Client, Publish(c)
        PROVE  UNCHANGED History!vars
    BY <1>2, <2>1, <2>5, PublishIsNoVersion
  <2>6. ASSUME NEW c \in Client, Write(c), ~AppendHead(c), ~Publish(c)
        PROVE  UNCHANGED <<journal, lineage>>
    BY <2>6 DEF Write, BeginCommit, RefuseCommit, BeginRestore, RefuseRestore,
       SelectRestore, StartAppend, Anchor, Point, Release, WriteFails, Crash,
       ClearStaleLock, disk
  <2>7. ASSUME NEW c \in Client, Load(c) \/ Inspect(c)
        PROVE  UNCHANGED <<journal, lineage>>
    BY <2>7 DEF Load, Inspect, LoadCurrent, LoadJournal, LoadCustody,
       LoadRecheck, LoadSettle, LoadJudge, LoadGivesUp, InspectLock,
       InspectNames, InspectJournal, InspectCurrent, InspectCustody, disk
  <2>8. QED
    BY <1>2, <2>2, <2>3, <2>4, <2>5, <2>6, <2>7 DEF Next
<1>3. QED
  BY <1>1, <1>2, IInvHolds, PTL DEF Spec, ImplementsHistory, History!Spec

-----------------------------------------------------------------------------
(***************************************************************************)
(* Why load blames the disk only with a cause: as long as no step failed   *)
(* and no generation became the head twice, the files differ only where    *)
(* the one writer has not come yet, and a read that failed began with a    *)
(* pointer that never comes back.                                          *)
(***************************************************************************)

\* No crash, no failed write, no rewind so far.
Undisturbed == faults = 0 /\ ~Rewound

\* A client is at one of these places.
SomeoneAt(places) == \E w \in Client : pc[w] \in places

\* The durable files disagree only in the middle of a write.
FilesFollowTheWriter ==
  /\ lock # Stale
  /\ torn => SomeoneAt({"appending"})
  /\ custody # HeadCustody =>
       SomeoneAt({"anchoring"}) /\ current # HeadGeneration
  /\ current # HeadGeneration => SomeoneAt({"anchoring", "pointing"})
  /\ journal = <<>> /\ ~NothingPublished => SomeoneAt({"journaling", "appending"})

\* The pointer has had, or still has, the value x.
WasPointer(x) == x \in Journaled \union {NoGeneration}

\* x is not the head, or a writer is about to append another one.
Passed(x) == x # HeadGeneration \/ SomeoneAt({"journaling", "appending"})

\* The pointer has moved on from x.
Gone(x) == x # HeadGeneration /\ x # current

\* What a read in progress knows of the pointer it began with.
SeesThePast(c) ==
  /\ pc[c] \in {"loadJournal", "loadCustody", "loadSettle"} =>
       /\ WasPointer(saw[c].cur)
       /\ quiet[c].why # "none" => saw[c].cur # quiet[c].cur
  /\ pc[c] \in {"loadJournal", "loadCustody"} =>
       (saw[c].cur = HeadGeneration => custody = HeadCustody)
  /\ pc[c] = "loadCustody" =>
       (saw[c].cur = HeadGeneration =>
          saw[c].head = HeadGeneration /\ saw[c].len = Len(journal))
  /\ pc[c] = "loadSettle" =>
       /\ settling[c].why # "none"
       /\ Passed(saw[c].cur)
       /\ settling[c].quiet /\ "lock" \notin settling[c].left => Gone(saw[c].cur)
  /\ quiet[c].why # "none" => WasPointer(quiet[c].cur) /\ Gone(quiet[c].cur)
  /\ pc[c] # "corrupt"

\* The second inductive invariant, relative to IInv.
UndisturbedInv ==
  Undisturbed => FilesFollowTheWriter /\ \A c \in Client : SeesThePast(c)

\* A journal that does not repeat itself grows by a new generation.
LEMMA AppendedIsNew ==
  ASSUME journal \in Seq(Generation), NEW g \in Generation,
         journal' = Append(journal, g), ~Rewound'
  PROVE  g \notin Journaled /\ ~Rewound
<1>1. /\ Len(journal) \in Nat
      /\ Len(journal') = Len(journal) + 1
      /\ \A i \in 1..Len(journal) : journal'[i] = journal[i]
      /\ journal'[Len(journal) + 1] = g
  BY AppendProperties, LenProperties
<1>2. \A i, j \in 1..Len(journal) + 1 : i # j => journal'[i] # journal'[j]
  BY <1>1 DEF Rewound
<1>3. \A i \in 1..Len(journal) :
        i \in 1..Len(journal) + 1 /\ i # Len(journal) + 1
  BY <1>1
<1>4. Len(journal) + 1 \in 1..Len(journal) + 1
  BY <1>1
<1>5. g \notin Journaled
  BY <1>1, <1>2, <1>3, <1>4 DEF Journaled
<1>6. ~Rewound
  BY <1>1, <1>2, <1>3 DEF Rewound
<1>7. QED
  BY <1>5, <1>6

\* What a writer's step, neither a fault nor a rewind, does to the files.
LEMMA WriterMoves ==
  ASSUME GenerationAssumption, IInv, NEW c \in Client, Write(c), Undisturbed'
  PROVE  /\ Undisturbed
         /\ ~WriteFails(c) /\ ~Crash(c)
         /\ UNCHANGED <<saw, settling, quiet>>
         /\ \A d \in Client \ {c} : pc'[d] = pc[d]
         /\ pc'[c] = pc[c] \/ pc'[c] \in Writing \union {"idle"}
         /\ \/ journal' = journal
            \/ /\ Journaled' = Journaled \union {HeadGeneration'}
               /\ HeadGeneration' \notin Journaled \union {NoGeneration}
         /\ custody' = custody \/ (journal' = journal /\ custody' = HeadCustody)
         /\ current' = current \/ (journal' = journal /\ current' = HeadGeneration)
<1>0. SessionTypes /\ FileTypes
  BY TypeParts DEF IInv
<1>1. ~WriteFails(c) /\ ~Crash(c)
  BY <1>0 DEF SessionTypes, WriteFails, Crash, Undisturbed
<1>2. UNCHANGED <<saw, settling, quiet, faults>>
  BY <1>1 DEF Write, BeginCommit, RefuseCommit, Publish, BeginRestore,
     RefuseRestore, SelectRestore, StartAppend, AppendHead, Anchor, Point,
     Release, ClearStaleLock, local
<1>3. \/ pc' = pc
      \/ \E l \in Writing \union {"idle"} : pc' = [pc EXCEPT ![c] = l]
  BY <1>1 DEF Write, BeginCommit, RefuseCommit, Publish, BeginRestore,
     RefuseRestore, SelectRestore, StartAppend, AppendHead, Anchor, Point,
     Release, ClearStaleLock, Goto, Writing
<1>4. CASE AppendHead(c)
  <2>1. goal[c].gen \in Generation
    BY <1>4, GoalOfAppend DEF IInv
  <2>2. journal' = Append(journal, goal[c].gen)
    BY <1>4 DEF AppendHead
  <2>3. goal[c].gen \notin Journaled /\ ~Rewound
    BY <1>0, <2>1, <2>2, AppendedIsNew DEF FileTypes, Undisturbed
  <2>4. HeadGeneration' = goal[c].gen /\ Journaled' = Journaled \union {goal[c].gen}
    BY <1>0, <2>1, <2>2, AppendedJournal DEF FileTypes
  <2>5. custody' = custody /\ current' = current
    BY <1>4 DEF AppendHead
  <2>6. goal[c].gen # NoGeneration
    BY <2>1, GenerationAssumption
  <2>7. Undisturbed
    BY <1>2, <2>3 DEF Undisturbed
  <2>8. QED
    BY <1>0, <1>1, <1>2, <1>3, <2>3, <2>4, <2>5, <2>6, <2>7 DEF SessionTypes
<1>5. CASE ~AppendHead(c)
  <2>1. journal' = journal
    BY <1>1, <1>5 DEF Write, BeginCommit, RefuseCommit, Publish, BeginRestore,
       RefuseRestore, SelectRestore, StartAppend, Anchor, Point, Release,
       ClearStaleLock, disk
  <2>2. Undisturbed
    BY <1>2, <2>1 DEF Undisturbed, Rewound
  <2>3. CASE Anchor(c)
    <3>1. goal[c].gen = HeadGeneration
      BY <2>3 DEF Anchor, IInv, GoalExtendsHead
    <3>2. custody' = HeadCustody /\ current' = current
      BY <2>3, <3>1 DEF Anchor, HeadCustody
    <3>3. QED
      BY <1>0, <1>1, <1>2, <1>3, <2>1, <2>2, <3>2 DEF SessionTypes
  <2>4. CASE Point(c)
    <3>1. goal[c].gen = HeadGeneration
      BY <2>4 DEF Point, IInv, GoalExtendsHead
    <3>2. custody' = custody /\ current' = HeadGeneration
      BY <2>4, <3>1 DEF Point
    <3>3. QED
      BY <1>0, <1>1, <1>2, <1>3, <2>1, <2>2, <3>2 DEF SessionTypes
  <2>5. CASE ~Anchor(c) /\ ~Point(c)
    <3>1. custody' = custody /\ current' = current
      BY <1>1, <1>5, <2>5 DEF Write, BeginCommit, RefuseCommit, Publish,
         BeginRestore, RefuseRestore, SelectRestore, StartAppend, Release,
         ClearStaleLock, disk
    <3>2. QED
      BY <1>0, <1>1, <1>2, <1>3, <2>1, <2>2, <3>1 DEF SessionTypes
  <2>6. QED
    BY <2>3, <2>4, <2>5
<1>6. QED
  BY <1>4, <1>5

\* Where a writer has begun to change the files, or a client holds LOCK.
MidWrite == {"journaling", "appending", "anchoring", "pointing"}

\* A step that leaves the files, and who is in the middle of a write, alone.
LEMMA FilesStillFollow ==
  ASSUME FilesFollowTheWriter, UNCHANGED disk, lock' # Stale,
         \A w \in Client : pc[w] \in MidWrite => pc'[w] = pc[w]
  PROVE  FilesFollowTheWriter'
<1>1. UNCHANGED <<lineage, journal, torn, custody, current>>
  BY DEF disk
<1>2. /\ HeadGeneration' = HeadGeneration /\ HeadCustody' = HeadCustody
      /\ NothingPublished' = NothingPublished
  BY <1>1 DEF HeadGeneration, HeadCustody, HeadSequence, NothingPublished, Published
<1>3. ASSUME NEW places \in SUBSET MidWrite, SomeoneAt(places)
      PROVE  SomeoneAt(places)'
  BY <1>3 DEF SomeoneAt
<1>4. /\ SomeoneAt({"appending"}) => SomeoneAt({"appending"})'
      /\ SomeoneAt({"anchoring"}) => SomeoneAt({"anchoring"})'
      /\ SomeoneAt({"anchoring", "pointing"}) => SomeoneAt({"anchoring", "pointing"})'
      /\ SomeoneAt({"journaling", "appending"})
           => SomeoneAt({"journaling", "appending"})'
  BY <1>3 DEF MidWrite
<1>5. QED
  BY <1>1, <1>2, <1>4 DEF FilesFollowTheWriter

\* While c is in the middle of a write, nobody else is.
LEMMA OnlyAt ==
  ASSUME WriterHoldsLock, NEW c \in Client, pc[c] \in Writing,
         NEW places \in SUBSET Writing, SomeoneAt(places)
  PROVE  pc[c] \in places
  BY DEF SomeoneAt, WriterHoldsLock

\* A writer's step leaves the files different only where the writer has not
\* come yet.
LEMMA WriterKeepsFiles ==
  ASSUME ClientAssumption, GenerationAssumption, IInv, FilesFollowTheWriter,
         NEW c \in Client, Write(c), Undisturbed'
  PROVE  FilesFollowTheWriter'
<1>0. /\ SessionTypes /\ FileTypes /\ WriterHoldsLock
      /\ ~WriteFails(c) /\ ~Crash(c)
  BY TypeParts, WriterMoves DEF IInv
<1>1. Stale \notin Client /\ Free # Stale
  BY ClientAssumption
<1>2. lock' # Stale
  BY <1>0, <1>1 DEF Write, BeginCommit, RefuseCommit, Publish, BeginRestore,
     RefuseRestore, SelectRestore, StartAppend, AppendHead, Anchor, Point,
     Release, ClearStaleLock, AcquireLock, FilesFollowTheWriter
<1>3. CASE \/ BeginCommit(c) \/ RefuseCommit(c) \/ RefuseRestore(c)
           \/ \E g \in Generation : BeginRestore(c, g)
           \/ SelectRestore(c) \/ Release(c) \/ ClearStaleLock(c)
  <2>1. UNCHANGED disk
    BY <1>3 DEF BeginCommit, RefuseCommit, BeginRestore, RefuseRestore,
       SelectRestore, Release, ClearStaleLock
  <2>2. pc[c] \notin MidWrite \/ pc' = pc
    BY <1>3 DEF BeginCommit, RefuseCommit, BeginRestore, RefuseRestore,
       SelectRestore, Release, ClearStaleLock, AcquireLock, Resting, MidWrite
  <2>3. \A w \in Client \ {c} : pc'[w] = pc[w]
    BY WriterMoves
  <2>4. QED
    BY <1>2, <2>1, <2>2, <2>3, FilesStillFollow
<1>4. CASE Publish(c)
  <2>1. /\ UNCHANGED <<journal, torn, custody, current>>
        /\ pc[c] = "committing" /\ pc' = [pc EXCEPT ![c] = "journaling"]
    BY <1>4 DEF Publish, Goto
  <2>2. pc[c] \in Writing
    BY <2>1 DEF Writing
  <2>3. /\ ~SomeoneAt({"appending"}) /\ ~SomeoneAt({"anchoring"})
        /\ ~SomeoneAt({"anchoring", "pointing"})
    BY <1>0, <2>1, <2>2, OnlyAt DEF Writing
  <2>4. HeadGeneration' = HeadGeneration /\ HeadCustody' = HeadCustody
    BY <2>1 DEF HeadGeneration, HeadCustody, HeadSequence
  <2>5. SomeoneAt({"journaling", "appending"})'
    BY <1>0, <2>1 DEF SomeoneAt, SessionTypes
  <2>6. QED
    BY <1>2, <2>1, <2>3, <2>4, <2>5 DEF FilesFollowTheWriter
<1>5. CASE StartAppend(c)
  <2>1. /\ UNCHANGED <<journal, custody, current>>
        /\ pc[c] = "journaling" /\ pc' = [pc EXCEPT ![c] = "appending"]
    BY <1>5 DEF StartAppend, Goto
  <2>2. pc[c] \in Writing
    BY <2>1 DEF Writing
  <2>3. ~SomeoneAt({"anchoring"}) /\ ~SomeoneAt({"anchoring", "pointing"})
    BY <1>0, <2>1, <2>2, OnlyAt DEF Writing
  <2>4. HeadGeneration' = HeadGeneration /\ HeadCustody' = HeadCustody
    BY <2>1 DEF HeadGeneration, HeadCustody, HeadSequence
  <2>5. SomeoneAt({"appending"})' /\ SomeoneAt({"journaling", "appending"})'
    BY <1>0, <2>1 DEF SomeoneAt, SessionTypes
  <2>6. QED
    BY <1>2, <2>1, <2>3, <2>4, <2>5 DEF FilesFollowTheWriter
<1>6. CASE AppendHead(c)
  <2>1. /\ UNCHANGED <<custody, current>> /\ ~torn'
        /\ pc' = [pc EXCEPT ![c] = "anchoring"]
        /\ journal' = Append(journal, goal[c].gen)
    BY <1>6 DEF AppendHead, Goto
  <2>2. goal[c].gen \in Generation
    BY <1>6, GoalOfAppend DEF IInv
  <2>3. /\ journal' # <<>>
        /\ HeadGeneration' = goal[c].gen
        /\ Journaled' = Journaled \union {goal[c].gen}
    BY <1>0, <2>1, <2>2, AppendedJournal DEF FileTypes
  <2>4. goal[c].gen \notin Journaled
    BY <1>0, <2>1, <2>2, AppendedIsNew DEF FileTypes, Undisturbed
  <2>5. current # HeadGeneration'
    BY <2>2, <2>3, <2>4, GenerationAssumption DEF IInv, AnchorIsJournaled
  <2>6. SomeoneAt({"anchoring"})' /\ SomeoneAt({"anchoring", "pointing"})'
    BY <1>0, <2>1 DEF SomeoneAt, SessionTypes
  <2>7. QED
    BY <1>2, <2>1, <2>3, <2>5, <2>6 DEF FilesFollowTheWriter
<1>7. CASE Anchor(c)
  <2>1. /\ UNCHANGED <<lineage, journal, torn, current>>
        /\ pc[c] = "anchoring" /\ pc' = [pc EXCEPT ![c] = "pointing"]
        /\ custody' = [gen |-> goal[c].gen, seq |-> HeadSequence]
    BY <1>7 DEF Anchor, Goto
  <2>2. pc[c] \in Writing
    BY <2>1 DEF Writing
  <2>3. ~SomeoneAt({"appending"}) /\ ~SomeoneAt({"journaling", "appending"})
    BY <1>0, <2>1, <2>2, OnlyAt DEF Writing
  <2>4. HeadGeneration' = HeadGeneration /\ HeadCustody' = HeadCustody
        /\ NothingPublished' = NothingPublished
    BY <2>1 DEF HeadGeneration, HeadCustody, HeadSequence, NothingPublished, Published
  <2>5. custody' = HeadCustody
    BY <2>1 DEF HeadCustody, IInv, GoalExtendsHead
  <2>6. SomeoneAt({"anchoring", "pointing"})'
    BY <1>0, <2>1 DEF SomeoneAt, SessionTypes
  <2>7. QED
    BY <1>2, <2>1, <2>3, <2>4, <2>5, <2>6 DEF FilesFollowTheWriter
<1>8. CASE Point(c)
  <2>1. /\ UNCHANGED <<lineage, journal, torn, custody>>
        /\ pc[c] = "pointing" /\ current' = goal[c].gen
    BY <1>8 DEF Point
  <2>2. pc[c] \in Writing
    BY <2>1 DEF Writing
  <2>3. /\ ~SomeoneAt({"appending"}) /\ ~SomeoneAt({"journaling", "appending"})
        /\ ~SomeoneAt({"anchoring"})
    BY <1>0, <2>1, <2>2, OnlyAt DEF Writing
  <2>4. HeadGeneration' = HeadGeneration /\ HeadCustody' = HeadCustody
        /\ NothingPublished' = NothingPublished
    BY <2>1 DEF HeadGeneration, HeadCustody, HeadSequence, NothingPublished, Published
  <2>5. current' = HeadGeneration
    BY <2>1 DEF IInv, GoalExtendsHead
  <2>6. QED
    BY <1>2, <2>1, <2>3, <2>4, <2>5 DEF FilesFollowTheWriter
<1>9. QED
  BY <1>0, <1>3, <1>4, <1>5, <1>6, <1>7, <1>8 DEF Write

\* What a read knows of the past stays true when a writer takes a step.
LEMMA WriterKeepsPast ==
  ASSUME ClientAssumption, GenerationAssumption, IInv,
         \A d \in Client : SeesThePast(d),
         NEW c \in Client, Write(c), Undisturbed', NEW d \in Client
  PROVE  SeesThePast(d)'
<1>0. SessionTypes /\ FileTypes /\ WriterHoldsLock
  BY TypeParts DEF IInv
<1>1. /\ saw' = saw /\ settling' = settling /\ quiet' = quiet
      /\ \A e \in Client \ {c} : pc'[e] = pc[e]
      /\ pc'[c] = pc[c] \/ pc'[c] \in Writing \union {"idle"}
      /\ \/ journal' = journal
         \/ /\ Journaled' = Journaled \union {HeadGeneration'}
            /\ HeadGeneration' \notin Journaled \union {NoGeneration}
      /\ custody' = custody \/ (journal' = journal /\ custody' = HeadCustody)
      /\ current' = current \/ (journal' = journal /\ current' = HeadGeneration)
  BY WriterMoves
<1>2. journal' = journal => /\ HeadGeneration' = HeadGeneration
                            /\ Journaled' = Journaled
                            /\ HeadCustody' = HeadCustody
  BY DEF HeadGeneration, Journaled, HeadCustody, HeadSequence
<1>3. ASSUME NEW x, WasPointer(x)
      PROVE  WasPointer(x)' /\ (x = HeadGeneration' => /\ x = HeadGeneration
                                                      /\ journal' = journal)
  BY <1>1, <1>2, <1>3 DEF WasPointer
<1>4. ASSUME NEW x, WasPointer(x), Gone(x)
      PROVE  Gone(x)'
  BY <1>1, <1>2, <1>3, <1>4 DEF Gone
<1>5. ASSUME NEW x, WasPointer(x), Passed(x)
      PROVE  Passed(x)'
  <2>1. CASE x # HeadGeneration
    BY <1>3, <1>5, <2>1 DEF Passed
  <2>2. CASE journal' # journal
    BY <1>3, <1>5, <2>2 DEF Passed
  <2>3. CASE x = HeadGeneration /\ journal' = journal
    <3>1. PICK w \in Client : pc[w] \in {"journaling", "appending"}
      BY <1>5, <2>3 DEF Passed, SomeoneAt
    <3>2. CASE w # c
      BY <1>1, <3>1, <3>2 DEF Passed, SomeoneAt
    <3>3. CASE w = c
      <4>1. ~AppendHead(c)
        <5>1. journal \in Seq(Generation)
          BY <1>0 DEF FileTypes
        <5>2. ASSUME NEW g \in Generation PROVE Append(journal, g) # journal
          BY <5>1, AppendProperties, LenProperties
        <5>3. QED
          BY <2>3, <5>2, GoalOfAppend DEF AppendHead, IInv
      <4>2. ~WriteFails(c) /\ ~Crash(c)
        BY WriterMoves
      <4>3. pc'[c] \in {"journaling", "appending"}
        BY <1>0, <3>1, <3>3, <4>1, <4>2
        DEF Write, BeginCommit, RefuseCommit, Publish, BeginRestore,
            RefuseRestore, SelectRestore, StartAppend, Anchor, Point, Release,
            ClearStaleLock, AcquireLock, Resting, Goto, SessionTypes
      <4>4. QED
        BY <4>3 DEF Passed, SomeoneAt
    <3>4. QED
      BY <3>2, <3>3
  <2>4. QED
    BY <2>1, <2>2, <2>3
<1>6. pc'[d] = pc[d] \/ pc'[d] \in Writing \union {"idle"}
  BY <1>1
<1>7. SeesThePast(d)
  OBVIOUS
<1>8. pc'[d] \in {"loadJournal", "loadCustody", "loadSettle", "corrupt"}
        => pc'[d] = pc[d]
  BY <1>6 DEF Writing
<1>9. pc[d] \in {"loadJournal", "loadCustody", "loadSettle"}
        => WasPointer(saw[d].cur)
  BY <1>7 DEF SeesThePast
<1>10. ASSUME pc'[d] \in {"loadJournal", "loadCustody"},
              saw[d].cur = HeadGeneration'
       PROVE  /\ custody' = HeadCustody'
              /\ saw[d].cur = HeadGeneration /\ journal' = journal
  <2>1. pc[d] \in {"loadJournal", "loadCustody"}
    BY <1>8, <1>10
  <2>2. saw[d].cur = HeadGeneration /\ journal' = journal
    BY <1>3, <1>9, <1>10, <2>1
  <2>3. custody = HeadCustody
    BY <1>7, <2>1, <2>2 DEF SeesThePast
  <2>4. QED
    BY <1>1, <1>2, <2>2, <2>3
<1>11. ASSUME pc'[d] = "loadCustody", saw[d].cur = HeadGeneration'
       PROVE  saw[d].head = HeadGeneration' /\ saw[d].len = Len(journal')
  BY <1>2, <1>7, <1>8, <1>10, <1>11 DEF SeesThePast
<1>12. ASSUME pc'[d] = "loadSettle"
       PROVE  /\ settling[d].why # "none"
              /\ Passed(saw[d].cur)'
              /\ settling[d].quiet /\ "lock" \notin settling[d].left
                   => Gone(saw[d].cur)'
  <2>1. pc[d] = "loadSettle"
    BY <1>8, <1>12
  <2>2. /\ settling[d].why # "none" /\ Passed(saw[d].cur) /\ WasPointer(saw[d].cur)
        /\ settling[d].quiet /\ "lock" \notin settling[d].left => Gone(saw[d].cur)
    BY <1>7, <2>1 DEF SeesThePast
  <2>3. Passed(saw[d].cur)'
    BY <1>1, <1>5, <2>2
  <2>4. Gone(saw[d].cur) => Gone(saw[d].cur)'
    BY <1>1, <1>4, <2>2
  <2>5. QED
    BY <2>2, <2>3, <2>4
<1>13. quiet[d].why # "none" => WasPointer(quiet[d].cur)' /\ Gone(quiet[d].cur)'
  <2>1. quiet[d].why # "none" => WasPointer(quiet[d].cur) /\ Gone(quiet[d].cur)
    BY <1>7 DEF SeesThePast
  <2>2. QED
    BY <1>1, <1>3, <1>4, <2>1
<1>14. ASSUME pc'[d] \in {"loadJournal", "loadCustody", "loadSettle"}
       PROVE  /\ WasPointer(saw[d].cur)'
              /\ quiet[d].why # "none" => saw[d].cur # quiet[d].cur
  <2>1. pc[d] \in {"loadJournal", "loadCustody", "loadSettle"}
    BY <1>8, <1>14
  <2>2. WasPointer(saw[d].cur)
    BY <1>9, <2>1
  <2>3. WasPointer(saw[d].cur)'
    BY <1>1, <1>3, <2>2
  <2>4. QED
    BY <1>7, <2>1, <2>3 DEF SeesThePast
<1>15. pc'[d] # "corrupt"
  BY <1>7, <1>8 DEF SeesThePast
<1>16. QED
  BY <1>1, <1>10, <1>11, <1>12, <1>13, <1>14, <1>15 DEF SeesThePast

\* A load or an inspection changes none of the files and no write.
LEMMA ReaderFrame ==
  ASSUME IInv, NEW c \in Client, Load(c) \/ Inspect(c)
  PROVE  /\ UNCHANGED disk /\ lock' = lock /\ faults' = faults
         /\ \A d \in Client \ {c} :
              /\ pc'[d] = pc[d] /\ saw'[d] = saw[d]
              /\ settling'[d] = settling[d] /\ quiet'[d] = quiet[d]
         /\ \A w \in Client : pc[w] \in MidWrite <=> pc'[w] \in MidWrite
         /\ \A w \in Client : pc[w] \in MidWrite => pc'[w] = pc[w]
<1>0. SessionTypes
  BY TypeParts DEF IInv
<1>1. UNCHANGED disk /\ lock' = lock /\ faults' = faults
  BY DEF Load, Inspect, LoadCurrent, LoadJournal, LoadCustody, LoadRecheck,
         LoadSettle, LoadJudge, LoadGivesUp, InspectLock, InspectNames,
         InspectJournal, InspectCurrent, InspectCustody
<1>2. pc[c] \in Resting \union Loading \union Inspecting
  BY DEF Load, Inspect, LoadCurrent, LoadJournal, LoadCustody, LoadRecheck,
         LoadSettle, LoadJudge, LoadGivesUp, InspectLock, InspectNames,
         InspectJournal, InspectCurrent, InspectCustody, Loading, Inspecting
<1>3. \/ pc' = pc
      \/ \E l \in Resting \union Loading \union Inspecting : pc' = [pc EXCEPT ![c] = l]
  BY DEF Load, Inspect, LoadCurrent, LoadJournal, LoadFails, LoadCustody,
         LoadRecheck, LoadSettle, LoadJudge, LoadGivesUp, InspectLock,
         InspectNames, InspectJournal, InspectCurrent, InspectCustody, Report,
         Goto, Resting, Loading, Inspecting
<1>4. \A d \in Client \ {c} : saw'[d] = saw[d]
  BY <1>0 DEF SessionTypes, Load, Inspect, LoadCurrent, LoadJournal, LoadFails,
         LoadCustody, LoadRecheck, LoadSettle, LoadJudge, LoadGivesUp, InspectLock,
         InspectNames, InspectJournal, InspectCurrent, InspectCustody, Report
<1>5. \A d \in Client \ {c} : settling'[d] = settling[d] /\ quiet'[d] = quiet[d]
  BY <1>0 DEF SessionTypes, Load, Inspect, LoadCurrent, LoadJournal, LoadFails,
         LoadCustody, LoadRecheck, LoadSettle, LoadJudge, LoadGivesUp, InspectLock,
         InspectNames, InspectJournal, InspectCurrent, InspectCustody, Report
<1>6. \A d \in Client \ {c} : pc'[d] = pc[d]
  BY <1>0, <1>3 DEF SessionTypes
<1>7. pc[c] \notin MidWrite /\ pc'[c] \notin MidWrite
  BY <1>0, <1>2, <1>3 DEF SessionTypes, Resting, Loading, Inspecting, MidWrite
<1>8. QED
  BY <1>1, <1>4, <1>5, <1>6, <1>7

\* While the files disagree only where the writer has not come yet, every
\* failure of a read means that the pointer it began with is passed, and two
\* quiet failures never began with the same pointer.
LEMMA LoadKeepsOwnPast ==
  ASSUME ClientAssumption, GenerationAssumption, IInv, FilesFollowTheWriter,
         NEW c \in Client, SeesThePast(c), Load(c) \/ Inspect(c)
  PROVE  SeesThePast(c)'
<1>0. SessionTypes /\ FileTypes /\ WriterHoldsLock
  BY TypeParts DEF IInv
<1>1. UNCHANGED disk /\ lock' = lock
  BY ReaderFrame
<1>2. UNCHANGED <<lineage, journal, torn, custody, current>>
  BY <1>1 DEF disk
<1>3. /\ HeadGeneration' = HeadGeneration /\ HeadCustody' = HeadCustody
      /\ Journaled' = Journaled
  BY <1>2 DEF HeadGeneration, HeadCustody, HeadSequence, Journaled
<1>4. SomeoneAt({"journaling", "appending"})' <=> SomeoneAt({"journaling", "appending"})
  <2>1. \A w \in Client : /\ pc[w] \in MidWrite => pc'[w] = pc[w]
                          /\ pc'[w] \in MidWrite => pc'[w] = pc[w]
    BY ReaderFrame
  <2>2. \A w \in Client : pc'[w] \in {"journaling", "appending"}
                            <=> pc[w] \in {"journaling", "appending"}
    BY <2>1 DEF MidWrite
  <2>3. QED
    BY <2>2 DEF SomeoneAt
<1>5. /\ \A x : WasPointer(x)' <=> WasPointer(x)
      /\ \A x : Passed(x)' <=> Passed(x)
      /\ \A x : Gone(x)' <=> Gone(x)
  BY <1>2, <1>3, <1>4 DEF WasPointer, Passed, Gone
<1>6. /\ c \in Client
      /\ pc \in [Client -> Resting \union Writing \union Loading \union Inspecting]
      /\ saw \in [Client -> Sight]
      /\ settling \in [Client -> [left : SUBSET {"current", "lock"},
                                  quiet : BOOLEAN, why : Why]]
      /\ quiet \in [Client -> [cur : Generation \union {NoGeneration}, why : Why]]
  BY <1>0 DEF SessionTypes
<1>7. quiet[c].why # "none" => WasPointer(quiet[c].cur) /\ Gone(quiet[c].cur)
  BY DEF SeesThePast
<1>8. NoFailure.why = "none"
  BY DEF NoFailure
<1>9. CASE LoadCurrent(c)
  <2>1. /\ pc'[c] = "loadJournal" /\ saw'[c].cur = current /\ quiet' = quiet
    BY <1>6, <1>9 DEF LoadCurrent, Goto, Sight
  <2>2. WasPointer(current)
    BY DEF WasPointer, IInv, AnchorIsJournaled
  <2>3. quiet[c].why # "none" => current # quiet[c].cur
    BY <1>7 DEF Gone
  <2>4. current = HeadGeneration => custody = HeadCustody
    BY DEF FilesFollowTheWriter
  <2>5. QED
    BY <1>2, <1>3, <1>5, <1>7, <2>1, <2>2, <2>3, <2>4 DEF SeesThePast
<1>10. ASSUME NEW why \in Why \ {"none"}, LoadFails(c, why), quiet' = quiet,
              pc[c] \in {"loadJournal", "loadCustody"}, Passed(saw[c].cur)
       PROVE  SeesThePast(c)'
  <2>1. /\ pc'[c] = "loadSettle" /\ saw' = saw
        /\ settling'[c] = [left |-> {"current", "lock"}, quiet |-> TRUE, why |-> why]
    BY <1>6, <1>10 DEF LoadFails, Goto
  <2>2. /\ WasPointer(saw[c].cur)
        /\ quiet[c].why # "none" => saw[c].cur # quiet[c].cur
    BY <1>10 DEF SeesThePast
  <2>3. settling'[c].why # "none" /\ "lock" \in settling'[c].left
    BY <1>10, <2>1
  <2>4. QED
    BY <1>5, <1>7, <1>10, <2>1, <2>2, <2>3 DEF SeesThePast
<1>11. ASSUME pc'[c] \in Inspecting \union {"idle", "loadRecheck", "loadAgain"},
              quiet'[c] = quiet[c] \/ quiet'[c] = NoFailure
       PROVE  SeesThePast(c)'
  BY <1>5, <1>7, <1>8, <1>11 DEF SeesThePast, Inspecting
<1>12. CASE LoadJournal(c)
  <2>1. quiet' = quiet /\ pc[c] = "loadJournal"
    BY <1>12 DEF LoadJournal
  <2>2. CASE torn
    <3>1. LoadFails(c, "truncated")
      BY <1>12, <2>2 DEF LoadJournal
    <3>2. Passed(saw[c].cur)
      BY <2>2 DEF FilesFollowTheWriter, Passed, SomeoneAt
    <3>3. QED
      BY <1>10, <2>1, <3>1, <3>2 DEF Why
  <2>3. CASE ~torn /\ saw[c].cur = NoGeneration /\ ~(journal = <<>> /\ NothingPublished)
    <3>1. LoadFails(c, "unanchored")
      BY <1>12, <2>3 DEF LoadJournal
    <3>2. CASE journal # <<>>
      <4>1. HeadGeneration # NoGeneration
        BY <1>0, <3>2, HeadType, GenerationAssumption DEF FileTypes
      <4>2. QED
        BY <1>10, <2>1, <2>3, <3>1, <4>1 DEF Passed, Why
    <3>3. CASE journal = <<>>
      <4>1. Passed(saw[c].cur)
        BY <2>3, <3>3 DEF FilesFollowTheWriter, Passed
      <4>2. QED
        BY <1>10, <2>1, <3>1, <4>1 DEF Why
    <3>4. QED
      BY <3>2, <3>3
  <2>4. CASE ~torn /\ saw[c].cur = NoGeneration /\ journal = <<>> /\ NothingPublished
    <3>1. pc'[c] = "loadRecheck"
      BY <1>6, <1>12, <2>4 DEF LoadJournal, Goto
    <3>2. QED
      BY <1>11, <2>1, <3>1
  <2>5. CASE ~torn /\ saw[c].cur # NoGeneration
    <3>1. /\ pc'[c] = "loadCustody"
          /\ saw' = [saw EXCEPT ![c].head = HeadGeneration, ![c].len = Len(journal)]
      BY <1>6, <1>12, <2>5 DEF LoadJournal, Goto
    <3>2. /\ saw'[c].cur = saw[c].cur /\ saw'[c].head = HeadGeneration
          /\ saw'[c].len = Len(journal)
      BY <1>6, <3>1 DEF Sight
    <3>3. /\ WasPointer(saw[c].cur)
          /\ quiet[c].why # "none" => saw[c].cur # quiet[c].cur
          /\ saw[c].cur = HeadGeneration => custody = HeadCustody
      BY <2>1 DEF SeesThePast
    <3>4. QED
      BY <1>2, <1>3, <1>5, <1>7, <2>1, <3>1, <3>2, <3>3 DEF SeesThePast
  <2>6. QED
    BY <2>2, <2>3, <2>4, <2>5 DEF FileTypes
<1>13. CASE LoadCustody(c)
  <2>1. quiet' = quiet /\ pc[c] = "loadCustody"
    BY <1>13 DEF LoadCustody
  <2>2. CASE custody = [gen |-> saw[c].cur, seq |-> saw[c].len]
             /\ saw[c].head = saw[c].cur
    <3>1. pc'[c] = "loadRecheck"
      BY <1>6, <1>13, <2>2 DEF LoadCustody, Goto
    <3>2. QED
      BY <1>11, <2>1, <3>1
  <2>3. CASE ~(custody = [gen |-> saw[c].cur, seq |-> saw[c].len]
               /\ saw[c].head = saw[c].cur)
    <3>1. LoadFails(c, "diverge")
      BY <1>13, <2>3 DEF LoadCustody
    <3>2. saw[c].cur # HeadGeneration
      BY <2>1, <2>3 DEF SeesThePast, HeadCustody, HeadSequence
    <3>3. QED
      BY <1>10, <2>1, <3>1, <3>2 DEF Passed, Why
  <2>4. QED
    BY <2>2, <2>3
<1>14. CASE LoadRecheck(c)
  BY <1>6, <1>11, <1>14 DEF LoadRecheck, Goto
<1>15. CASE LoadSettle(c)
  <2>1. PICK read \in settling[c].left :
          settling' = [settling EXCEPT
            ![c].left = @ \ {read},
            ![c].quiet = @ /\ FindsQuiet(c, read)]
    BY <1>15 DEF LoadSettle
  <2>2. /\ pc' = pc /\ saw' = saw /\ quiet' = quiet /\ pc[c] = "loadSettle"
    BY <1>15 DEF LoadSettle
  <2>3. /\ settling'[c].left = settling[c].left \ {read}
        /\ settling'[c].quiet <=> settling[c].quiet /\ FindsQuiet(c, read)
        /\ settling'[c].why = settling[c].why
    BY <1>6, <2>1
  <2>4. /\ settling[c].why # "none" /\ Passed(saw[c].cur) /\ WasPointer(saw[c].cur)
        /\ quiet[c].why # "none" => saw[c].cur # quiet[c].cur
        /\ settling[c].quiet /\ "lock" \notin settling[c].left => Gone(saw[c].cur)
    BY <2>2 DEF SeesThePast
  <2>5. ASSUME settling'[c].quiet, "lock" \notin settling'[c].left
        PROVE  Gone(saw[c].cur)
    <3>1. CASE read = "lock"
      <4>1. ~LockIsLive
        BY <2>3, <2>5, <3>1 DEF FindsQuiet
      <4>2. \A w \in Client : pc[w] \notin Writing
        BY <1>0, <4>1, NoWriter
      <4>3. /\ ~SomeoneAt({"journaling", "appending"})
            /\ ~SomeoneAt({"anchoring", "pointing"})
        BY <4>2 DEF SomeoneAt, Writing
      <4>4. QED
        BY <2>4, <4>3 DEF FilesFollowTheWriter, Passed, Gone
    <3>2. CASE read # "lock"
      BY <2>3, <2>4, <2>5, <3>2
    <3>3. QED
      BY <3>1, <3>2
  <2>6. QED
    BY <1>5, <1>7, <2>2, <2>3, <2>4, <2>5 DEF SeesThePast
<1>16. CASE LoadJudge(c)
  <2>1. pc[c] = "loadSettle" /\ settling[c].left = {}
    BY <1>16 DEF LoadJudge
  <2>2. /\ settling[c].why # "none" /\ WasPointer(saw[c].cur)
        /\ quiet[c].why # "none" => saw[c].cur # quiet[c].cur
        /\ settling[c].quiet => Gone(saw[c].cur)
    BY <2>1 DEF SeesThePast
  <2> DEFINE failure == [cur |-> saw[c].cur, why |-> settling[c].why]
  <2>3. quiet[c] # failure
    BY <2>2
  <2>4. /\ pc'[c] = "loadAgain"
        /\ quiet'[c] = IF settling[c].quiet THEN failure ELSE NoFailure
    BY <1>6, <1>16, <2>3 DEF LoadJudge, Goto
  <2>5. quiet'[c].why # "none" => WasPointer(quiet'[c].cur) /\ Gone(quiet'[c].cur)
    BY <1>8, <2>2, <2>4
  <2>6. quiet'[c].why # "none" => WasPointer(quiet[c].cur)' /\ Gone(quiet[c].cur)'
    BY <1>2, <1>3, <2>5 DEF WasPointer, Gone
  <2>7. QED
    BY <2>4, <2>6 DEF SeesThePast
<1>17. CASE LoadGivesUp(c)
  BY <1>6, <1>11, <1>17 DEF LoadGivesUp, Goto
<1>18. CASE Inspect(c)
  <2>1. quiet' = quiet
    BY <1>18 DEF Inspect, InspectLock, InspectNames, InspectJournal,
       InspectCurrent, InspectCustody
  <2>2. pc'[c] \in Inspecting \union {"idle"}
    BY <1>6, <1>18 DEF Inspect, InspectLock, InspectNames, InspectJournal,
       InspectCurrent, InspectCustody, Report, Goto, Inspecting
  <2>3. QED
    BY <1>11, <2>1, <2>2
<1>19. QED
  BY <1>9, <1>12, <1>13, <1>14, <1>15, <1>16, <1>17, <1>18 DEF Load

\* What the others know of the past does not change when one client reads.
LEMMA ReaderKeepsOthersPast ==
  ASSUME IInv, NEW c \in Client, Load(c) \/ Inspect(c),
         NEW d \in Client \ {c}, SeesThePast(d)
  PROVE  SeesThePast(d)'
<1>1. UNCHANGED <<lineage, journal, torn, custody, current>>
  BY ReaderFrame DEF disk
<1>2. /\ pc'[d] = pc[d] /\ saw'[d] = saw[d]
      /\ settling'[d] = settling[d] /\ quiet'[d] = quiet[d]
  BY ReaderFrame
<1>3. /\ HeadGeneration' = HeadGeneration /\ HeadCustody' = HeadCustody
      /\ Journaled' = Journaled
  BY <1>1 DEF HeadGeneration, HeadCustody, HeadSequence, Journaled
<1>4. SomeoneAt({"journaling", "appending"}) => SomeoneAt({"journaling", "appending"})'
  <2>1. \A w \in Client : pc[w] \in MidWrite => pc'[w] = pc[w]
    BY ReaderFrame
  <2>2. QED
    BY <2>1 DEF SomeoneAt, MidWrite
<1>5. /\ WasPointer(saw[d].cur) => WasPointer(saw[d].cur)'
      /\ Passed(saw[d].cur) => Passed(saw[d].cur)'
      /\ Gone(saw[d].cur) => Gone(saw[d].cur)'
      /\ WasPointer(quiet[d].cur) => WasPointer(quiet[d].cur)'
      /\ Gone(quiet[d].cur) => Gone(quiet[d].cur)'
  BY <1>1, <1>2, <1>3, <1>4 DEF WasPointer, Passed, Gone
<1>6. QED
  BY <1>1, <1>2, <1>3, <1>5 DEF SeesThePast

\* The second invariant: while nothing failed and nothing was rewound, the
\* files differ only where the writer has not come yet.
THEOREM UndisturbedInvHolds == Spec => []UndisturbedInv
<1>1. ASSUME Init PROVE UndisturbedInv
  <2>1. /\ lock = Free /\ ~torn /\ journal = <<>> /\ current = NoGeneration
        /\ custody = NoCustody
        /\ \A c \in Client : pc[c] = "idle" /\ quiet[c] = NoFailure
    BY <1>1 DEF Init
  <2>2. HeadGeneration = NoGeneration /\ HeadCustody = NoCustody
    BY <2>1, EmptySeq DEF HeadGeneration, HeadCustody, HeadSequence, NoCustody
  <2>3. NothingPublished
    BY <1>1 DEF Init, NothingPublished, Published
  <2>4. FilesFollowTheWriter
    BY <2>1, <2>2, <2>3, ClientAssumption DEF FilesFollowTheWriter
  <2>5. ASSUME NEW c \in Client PROVE SeesThePast(c)
    BY <2>1 DEF SeesThePast, NoFailure
  <2>6. QED
    BY <2>4, <2>5 DEF UndisturbedInv
<1>2. ASSUME IInv, UndisturbedInv, [Next]_vars
      PROVE  UndisturbedInv'
  <2>1. SUFFICES ASSUME Undisturbed'
                 PROVE  FilesFollowTheWriter' /\ \A d \in Client : SeesThePast(d)'
    BY DEF UndisturbedInv
  <2>2. CASE UNCHANGED vars
    <3>1. UNCHANGED <<lineage, journal, torn, custody, current, lock, pc, saw,
                      settling, quiet, faults>>
      BY <2>2 DEF vars, disk, local
    <3>2. /\ HeadGeneration' = HeadGeneration /\ HeadCustody' = HeadCustody
          /\ Journaled' = Journaled /\ NothingPublished' = NothingPublished
          /\ Undisturbed' = Undisturbed
      BY <3>1 DEF HeadGeneration, HeadCustody, HeadSequence, Journaled,
         NothingPublished, Published, Undisturbed, Rewound
    <3>3. FilesFollowTheWriter /\ \A d \in Client : SeesThePast(d)
      BY <1>2, <2>1, <3>2 DEF UndisturbedInv
    <3>4. FilesFollowTheWriter'
      BY <3>1, <3>2, <3>3 DEF FilesFollowTheWriter, SomeoneAt
    <3>5. ASSUME NEW d \in Client PROVE SeesThePast(d)'
      BY <3>1, <3>2, <3>3
      DEF SeesThePast, WasPointer, Passed, Gone, SomeoneAt
    <3>6. QED
      BY <3>4, <3>5
  <2>3. ASSUME NEW c \in Client, Write(c)
        PROVE  FilesFollowTheWriter' /\ \A d \in Client : SeesThePast(d)'
    <3>1. Undisturbed
      BY <1>2, <2>1, <2>3, GenerationAssumption, WriterMoves
    <3>2. FilesFollowTheWriter /\ \A d \in Client : SeesThePast(d)
      BY <1>2, <3>1 DEF UndisturbedInv
    <3>3. FilesFollowTheWriter'
      BY <1>2, <2>1, <2>3, <3>2, ClientAssumption, GenerationAssumption,
         WriterKeepsFiles
    <3>4. ASSUME NEW d \in Client PROVE SeesThePast(d)'
      BY <1>2, <2>1, <2>3, <3>2, ClientAssumption, GenerationAssumption,
         WriterKeepsPast
    <3>5. QED
      BY <3>3, <3>4
  <2>4. ASSUME NEW c \in Client, Load(c) \/ Inspect(c)
        PROVE  FilesFollowTheWriter' /\ \A d \in Client : SeesThePast(d)'
    <3>1. /\ UNCHANGED disk /\ lock' = lock /\ faults' = faults
          /\ \A w \in Client : pc[w] \in MidWrite => pc'[w] = pc[w]
      BY <1>2, <2>4, ReaderFrame
    <3>2. Undisturbed
      BY <2>1, <3>1 DEF Undisturbed, Rewound, disk
    <3>3. FilesFollowTheWriter /\ \A d \in Client : SeesThePast(d)
      BY <1>2, <3>2 DEF UndisturbedInv
    <3>4. FilesFollowTheWriter'
      BY <3>1, <3>3, FilesStillFollow DEF FilesFollowTheWriter
    <3>5. SeesThePast(c)'
      BY <1>2, <2>4, <3>3, ClientAssumption, GenerationAssumption, LoadKeepsOwnPast
    <3>6. ASSUME NEW d \in Client \ {c} PROVE SeesThePast(d)'
      BY <1>2, <2>4, <3>3, ReaderKeepsOthersPast
    <3>7. QED
      BY <3>4, <3>5, <3>6
  <2>5. QED
    BY <1>2, <2>2, <2>3, <2>4 DEF Next
<1>3. QED
  BY <1>1, <1>2, IInvHolds, PTL DEF Spec

\* load reports corruption only after a crash, a failed write or a rewind:
\* commits that finish never make it, however they interleave with its reads.
THEOREM CorruptionHasCauseHolds == Spec => []CorruptionHasCause
<1>1. IInv /\ UndisturbedInv => CorruptionHasCause
  <2>1. SUFFICES ASSUME IInv, UndisturbedInv, ReportsCorruption, faults = 0, ~Rewound
                 PROVE  FALSE
    BY DEF CorruptionHasCause, IInv, TypeOK
  <2>2. PICK c \in Client : pc[c] = "corrupt"
    BY <2>1 DEF ReportsCorruption
  <2>3. SeesThePast(c)
    BY <2>1 DEF UndisturbedInv, Undisturbed
  <2>4. QED
    BY <2>2, <2>3 DEF SeesThePast
<1>2. QED
  BY <1>1, IInvHolds, UndisturbedInvHolds, PTL

-----------------------------------------------------------------------------
(***************************************************************************)
(* What follows from being a version history.  The steps of the abstract   *)
(* specification suffice for each of these; the store inherits them.       *)
(***************************************************************************)

\* The invariant of the version history: lines are closed, and chains.
LinesOfHistory ==
  /\ journal \in Seq(Generation)
  /\ \A i \in 1..Len(journal) : LineOf[journal[i]] # {}
  /\ \A v \in Generation : \A u \in LineOf[v] :
       u \in Generation /\ LineOf[u] # {} /\ LineOf[u] \subseteq LineOf[v]
  /\ \A v \in Generation : \A u, w \in LineOf[v] :
       /\ u \in LineOf[w] \/ w \in LineOf[u]
       /\ u \in LineOf[w] /\ w \in LineOf[u] => u = w
  /\ \A v \in Generation : LineOf[v] # {} => v \in LineOf[v]

\* A commit puts one generation on top of the line of the current one.
LEMMA CommitKeepsLines ==
  ASSUME LinesOfHistory, NEW v \in Generation, History!Commit(v)
  PROVE  LinesOfHistory'
<1> DEFINE L == History!LineOfCurrent
           M == LineOf'
<1>1. /\ LineOf[v] = {} /\ M = [LineOf EXCEPT ![v] = {v} \union L]
      /\ journal' = Append(journal, v)
  BY DEF History!Commit, LineOf
<1>2. L = {} \/ \E h \in Generation : L = LineOf[h]
  <2>1. CASE journal = <<>>
    BY <2>1 DEF History!LineOfCurrent
  <2>2. CASE journal # <<>>
    <3>1. HeadGeneration \in Generation /\ HeadGeneration = journal[Len(journal)]
      BY <2>2, HeadType DEF LinesOfHistory
    <3>2. L = LineOf[HeadGeneration]
      BY <2>2, <3>1 DEF History!LineOfCurrent, LineOf
    <3> QED BY <3>1, <3>2
  <2> QED BY <2>1, <2>2
<1>3. /\ M[v] = {v} \union L
      /\ \A w \in Generation \ {v} : M[w] = LineOf[w]
  BY <1>1 DEF LineOf
<1>4. \A w \in Generation : v \notin LineOf[w]
  BY <1>1 DEF LinesOfHistory
<1>5. v \notin L /\ \A u \in L : u \in Generation \ {v} /\ M[u] = LineOf[u]
  BY <1>2, <1>3, <1>4 DEF LinesOfHistory
<1>6. ASSUME NEW x \in Generation \ {v}, NEW u \in LineOf[x]
      PROVE  u \in Generation \ {v} /\ M[u] = LineOf[u]
  BY <1>3, <1>4 DEF LinesOfHistory
<1> HIDE DEF M, L
<1>7. \A x \in Generation : \A u \in M[x] :
        u \in Generation /\ M[u] # {} /\ M[u] \subseteq M[x]
  <2>1. ASSUME NEW x \in Generation \ {v}, NEW u \in M[x]
        PROVE  u \in Generation /\ M[u] # {} /\ M[u] \subseteq M[x]
    BY <1>3, <1>6 DEF LinesOfHistory
  <2>2. ASSUME NEW u \in M[v]
        PROVE  u \in Generation /\ M[u] # {} /\ M[u] \subseteq M[v]
    <3>1. CASE u = v
      BY <1>3, <3>1
    <3>2. CASE u \in L
      BY <1>2, <1>3, <1>5, <3>2 DEF LinesOfHistory
    <3> QED BY <1>3, <2>2, <3>1, <3>2
  <2> QED BY <2>1, <2>2
<1>8. \A x \in Generation : \A u, w \in M[x] :
        /\ u \in M[w] \/ w \in M[u]
        /\ u \in M[w] /\ w \in M[u] => u = w
  <2>1. ASSUME NEW x \in Generation \ {v}, NEW u \in M[x], NEW w \in M[x]
        PROVE  /\ u \in M[w] \/ w \in M[u]
               /\ u \in M[w] /\ w \in M[u] => u = w
    BY <1>3, <1>6 DEF LinesOfHistory
  <2>2. ASSUME NEW u \in M[v], NEW w \in M[v]
        PROVE  /\ u \in M[w] \/ w \in M[u]
               /\ u \in M[w] /\ w \in M[u] => u = w
    <3>1. CASE u \in L /\ w \in L
      BY <1>2, <1>5, <3>1 DEF LinesOfHistory
    <3>2. CASE u = v /\ w \in L
      <4>1. v \notin M[w]
        BY <1>4, <1>5, <3>2
      <4> QED BY <1>3, <3>2, <4>1
    <3>3. CASE w = v /\ u \in L
      <4>1. v \notin M[u]
        BY <1>4, <1>5, <3>3
      <4> QED BY <1>3, <3>3, <4>1
    <3>4. CASE u = v /\ w = v
      BY <1>3, <3>4
    <3> QED BY <1>3, <2>2, <3>1, <3>2, <3>3, <3>4
  <2> QED BY <2>1, <2>2
<1>9. \A x \in Generation : M[x] # {} => x \in M[x]
  BY <1>3 DEF LinesOfHistory
<1>10. journal' \in Seq(Generation) /\ \A i \in 1..Len(journal') : M[journal'[i]] # {}
  <2>1. /\ journal' \in Seq(Generation) /\ Len(journal') = Len(journal) + 1
        /\ \A i \in 1..Len(journal) : journal'[i] = journal[i]
        /\ journal'[Len(journal) + 1] = v
    BY <1>1, AppendProperties DEF LinesOfHistory
  <2>2. Len(journal) \in Nat
    BY LenProperties DEF LinesOfHistory
  <2>3. ASSUME NEW i \in 1..Len(journal) PROVE M[journal'[i]] # {}
    <3>1. journal[i] \in Generation /\ LineOf[journal[i]] # {}
      BY ElementOfSeq DEF LinesOfHistory
    <3> QED BY <1>3, <2>1, <3>1
  <2>4. M[v] # {}
    BY <1>3
  <2> QED BY <2>1, <2>2, <2>3, <2>4
<1>11. QED
  BY <1>7, <1>8, <1>9, <1>10 DEF LinesOfHistory, M

\* A rewind selects a generation of the current line again.
LEMMA RewindKeepsLines ==
  ASSUME LinesOfHistory, NEW v \in Generation, History!Rewind(v)
  PROVE  LinesOfHistory'
<1>1. journal' = Append(journal, v) /\ LineOf' = LineOf /\ v \in History!LineOfCurrent
  BY DEF History!Rewind, LineOf
<1>2. journal # <<>> /\ v \in LineOf[HeadGeneration] /\ HeadGeneration \in Generation
  BY <1>1, HeadType DEF History!LineOfCurrent, LineOf, LinesOfHistory
<1>3. LineOf[v] # {}
  BY <1>2 DEF LinesOfHistory
<1>4. /\ journal' \in Seq(Generation) /\ Len(journal') = Len(journal) + 1
      /\ \A i \in 1..Len(journal) : journal'[i] = journal[i]
      /\ journal'[Len(journal) + 1] = v
  BY <1>1, AppendProperties DEF LinesOfHistory
<1>5. Len(journal) \in Nat
  BY LenProperties DEF LinesOfHistory
<1>6. \A i \in 1..Len(journal') : LineOf[journal'[i]] # {}
  <2>1. ASSUME NEW i \in 1..Len(journal) PROVE LineOf[journal'[i]] # {}
    BY <1>4 DEF LinesOfHistory
  <2>2. LineOf[journal'[Len(journal) + 1]] # {}
    BY <1>3, <1>4
  <2> QED BY <1>4, <1>5, <2>1, <2>2
<1> DEFINE M == LineOf'
<1>7. /\ M = LineOf /\ journal' \in Seq(Generation)
      /\ \A i \in 1..Len(journal') : M[journal'[i]] # {}
  BY <1>1, <1>4, <1>6
<1> HIDE DEF M
<1>8. /\ \A x \in Generation : \A u \in M[x] :
           u \in Generation /\ M[u] # {} /\ M[u] \subseteq M[x]
      /\ \A x \in Generation : \A u, w \in M[x] :
           /\ u \in M[w] \/ w \in M[u]
           /\ u \in M[w] /\ w \in M[u] => u = w
      /\ \A x \in Generation : M[x] # {} => x \in M[x]
  BY <1>7 DEF LinesOfHistory
<1>9. QED
  BY <1>7, <1>8 DEF LinesOfHistory, M

\* Every step of the version history keeps it.
LEMMA LinesOfHistoryHolds == ImplementsHistory => []LinesOfHistory
<1>1. History!Init => LinesOfHistory
  <2>1. SUFFICES ASSUME History!Init PROVE LinesOfHistory
    OBVIOUS
  <2>2. journal = <<>> /\ Len(journal) = 0 /\ journal \in Seq(Generation)
    BY <2>1 DEF History!Init
  <2>3. \A g \in Generation : LineOf[g] = {}
    BY <2>1 DEF History!Init, LineOf
  <2>4. QED
    BY <2>2, <2>3 DEF LinesOfHistory
<1>2. LinesOfHistory /\ [History!Next]_(History!vars) => LinesOfHistory'
  <2>1. ASSUME LinesOfHistory, History!Next PROVE LinesOfHistory'
    BY <2>1, CommitKeepsLines, RewindKeepsLines DEF History!Next
  <2>2. ASSUME LinesOfHistory, UNCHANGED History!vars PROVE LinesOfHistory'
    <3> DEFINE M == LineOf'
    <3>1. journal' = journal /\ M = LineOf
      BY <2>2 DEF History!vars, LineOf
    <3> HIDE DEF M
    <3>2. /\ journal' \in Seq(Generation)
          /\ \A i \in 1..Len(journal') : M[journal'[i]] # {}
          /\ \A x \in Generation : \A u \in M[x] :
               u \in Generation /\ M[u] # {} /\ M[u] \subseteq M[x]
          /\ \A x \in Generation : \A u, w \in M[x] :
               /\ u \in M[w] \/ w \in M[u]
               /\ u \in M[w] /\ w \in M[u] => u = w
          /\ \A x \in Generation : M[x] # {} => x \in M[x]
      BY <2>2, <3>1 DEF LinesOfHistory
    <3> QED BY <3>2 DEF LinesOfHistory, M
  <2>3. QED
    BY <2>1, <2>2
<1>3. QED
  BY <1>1, <1>2, PTL DEF ImplementsHistory, History!Spec

\* The generations a journaled one was built on form a chain, each with its
\* own line below it: following parents from a generation meets every one of
\* its line once and never returns, as assertAnchored's walk needs.
LinesAreChains ==
  \A g \in Journaled : \A h, k \in lineage[g] :
    /\ h \in Journaled /\ lineage[h] \subseteq lineage[g]
    /\ h \in lineage[k] \/ k \in lineage[h]
    /\ h \in lineage[k] /\ k \in lineage[h] => h = k

\* Restores and crashes included, the ancestry of a generation never forks
\* nor loops.
THEOREM LinesAreChainsHolds == Spec => []LinesAreChains
<1>1. IInv /\ LinesOfHistory => LinesAreChains
  <2>1. SUFFICES ASSUME IInv, LinesOfHistory, NEW g \in Journaled,
                        NEW h \in lineage[g], NEW k \in lineage[g]
                 PROVE  /\ h \in Journaled /\ lineage[h] \subseteq lineage[g]
                        /\ h \in lineage[k] \/ k \in lineage[h]
                        /\ h \in lineage[k] /\ k \in lineage[h] => h = k
    BY DEF LinesAreChains
  <2>2. g \in Generation
    BY <2>1, HeadType DEF LinesOfHistory
  <2>3. LineOf[g] = lineage[g]
    BY <2>2 DEF LineOf
  <2>4. h \in Generation /\ LineOf[h] # {} /\ k \in Generation /\ LineOf[k] # {}
    BY <2>1, <2>2, <2>3 DEF LinesOfHistory
  <2>5. /\ h \in Journaled /\ LineOf[h] = lineage[h]
        /\ k \in Journaled /\ LineOf[k] = lineage[k]
    BY <2>4 DEF LineOf
  <2>6. QED
    BY <2>1, <2>2, <2>3, <2>4, <2>5 DEF LinesOfHistory
<1>2. QED
  BY <1>1, IInvHolds, ImplementsHistoryHolds, LinesOfHistoryHolds, PTL

\* One step never takes a record from the journal, changes one, or changes
\* what a journaled generation was built on.
JournalOnlyGrows ==
  [][/\ Len(journal) <= Len(journal')
     /\ \A i \in 1..Len(journal) : journal'[i] = journal[i]
     /\ \A g \in Journaled : g \in Journaled' /\ lineage'[g] = lineage[g]]_vars

\* A step of the version history adds to the journal and leaves the rest.
LEMMA HistoryOnlyGrows ==
  ASSUME LinesOfHistory, [History!Next]_(History!vars)
  PROVE  /\ Len(journal) <= Len(journal')
         /\ \A i \in 1..Len(journal) : journal'[i] = journal[i]
         /\ \A g \in Journaled : g \in Journaled' /\ lineage'[g] = lineage[g]
<1>1. /\ Len(journal) \in Nat /\ Len(journal) <= Len(journal')
      /\ Len(journal') \in Nat
      /\ \A i \in 1..Len(journal) : journal'[i] = journal[i]
  <2>1. ASSUME NEW v \in Generation, journal' = Append(journal, v)
        PROVE  /\ Len(journal) \in Nat /\ Len(journal) <= Len(journal')
               /\ Len(journal') \in Nat
               /\ \A i \in 1..Len(journal) : journal'[i] = journal[i]
    BY <2>1, AppendProperties, LenProperties DEF LinesOfHistory
  <2>2. CASE journal' = journal
    BY <2>2, LenProperties DEF LinesOfHistory
  <2>3. (\E v \in Generation : journal' = Append(journal, v)) \/ journal' = journal
    BY DEF History!Next, History!Commit, History!Rewind, History!vars
  <2> QED BY <2>1, <2>2, <2>3
<1>2. ASSUME NEW g \in Journaled
      PROVE  g \in Journaled' /\ lineage'[g] = lineage[g]
  <2>1. PICK i \in 1..Len(journal) : journal[i] = g
    BY DEF Journaled
  <2>2. g \in Journaled'
    BY <1>1, <2>1 DEF Journaled
  <2>3. g \in Generation /\ LineOf[g] # {}
    BY <2>1, ElementOfSeq DEF LinesOfHistory
  <2>4. LineOf[g] = lineage[g] /\ LineOf'[g] = lineage'[g]
    BY <2>2, <2>3 DEF LineOf
  <2>5. LineOf'[g] = LineOf[g]
    <3>1. ASSUME NEW v \in Generation, History!Commit(v) PROVE LineOf'[g] = LineOf[g]
      BY <2>3, <3>1 DEF LineOf, History!Commit
    <3>2. ASSUME NEW v \in Generation, History!Rewind(v) PROVE LineOf'[g] = LineOf[g]
      BY <3>2 DEF LineOf, History!Rewind
    <3>3. CASE UNCHANGED History!vars
      BY <3>3 DEF LineOf, History!vars
    <3> QED BY <3>1, <3>2, <3>3 DEF History!Next
  <2>6. QED
    BY <2>2, <2>4, <2>5
<1>3. QED
  BY <1>1, <1>2

\* The journal is append-only, whatever crashes, fails or is restored.
THEOREM JournalOnlyGrowsHolds == Spec => JournalOnlyGrows
<1>1. Spec => [][History!Next]_(History!vars)
  BY ImplementsHistoryHolds, PTL DEF ImplementsHistory, History!Spec
<1>2. LinesOfHistory /\ [History!Next]_(History!vars)
      => [/\ Len(journal) <= Len(journal')
          /\ \A i \in 1..Len(journal) : journal'[i] = journal[i]
          /\ \A g \in Journaled : g \in Journaled' /\ lineage'[g] = lineage[g]]_vars
  BY HistoryOnlyGrows
<1>3. QED
  BY <1>1, <1>2, ImplementsHistoryHolds, LinesOfHistoryHolds, PTL
     DEF JournalOnlyGrows

\* What a commit returned or a load showed is never lost: once a client works
\* on a generation the journal holds it for good, whatever crashes later.
THEOREM AcknowledgedIsKept ==
  ASSUME NEW c \in Client, NEW g \in Generation
  PROVE  Spec => [](known[c] = g => [](g \in Journaled))
<1>1. WorksOnJournaled => (known[c] = g => g \in Journaled)
  BY GenerationAssumption DEF WorksOnJournaled
<1>2. g \in Journaled /\ LinesOfHistory /\ [History!Next]_(History!vars)
      => (g \in Journaled)'
  BY HistoryOnlyGrows
<1>3. Spec => [][History!Next]_(History!vars)
  BY ImplementsHistoryHolds, PTL DEF ImplementsHistory, History!Spec
<1>4. QED
  BY <1>1, <1>2, <1>3, WorksOnJournaledHolds, ImplementsHistoryHolds,
     LinesOfHistoryHolds, PTL

-----------------------------------------------------------------------------
(* The writers of the store use LOCK as an exclusion lock: the step that   *)
(* takes LOCK here stands for all the steps of OperateStoreLock.           *)

Writers == {c \in Client : pc[c] \in Writing}
Lock == INSTANCE Exclusion WITH Caller <- Client, inside <- Writers

\* The writers enter and leave as under an exclusion lock.
UsesExclusion == Lock!Spec

\* A dead writer's LOCK is taken over, and no second writer enters before.
THEOREM UsesExclusionHolds == Spec => UsesExclusion
<1>1. Init => Lock!Init
  BY DEF Init, Lock!Init, Writers, Writing
<1>2. ASSUME IInv, IInv', [Next]_vars PROVE [Lock!Next]_Writers
  <2>1. (\A c, d \in Writers : c = d) /\ (\A c, d \in Writers' : c = d)
    BY <1>2 DEF IInv, WriterHoldsLock, Writers
  <2>2. pc \in [Client -> Resting \union Writing \union Loading \union Inspecting]
    BY <1>2 DEF IInv, TypeOK
  <2>3. ASSUME NEW c \in Client, Write(c) \/ Load(c) \/ Inspect(c)
        PROVE  \A d \in Client \ {c} : pc'[d] = pc[d]
    <3>1. pc' = pc \/ \E l : pc' = [pc EXCEPT ![c] = l]
      BY <2>3 DEF Write, Load, Inspect, BeginCommit, RefuseCommit, Publish,
         BeginRestore, RefuseRestore, SelectRestore, StartAppend, AppendHead, Anchor,
         Point, Release, WriteFails, Crash, ClearStaleLock, LoadCurrent, LoadJournal,
         LoadCustody, LoadFails, LoadRecheck, LoadSettle, LoadJudge, LoadGivesUp,
         InspectLock, InspectNames, InspectJournal, InspectCurrent, InspectCustody,
         Report, Goto
    <3>2. QED
      BY <2>2, <3>1
  <2>4. \/ Writers' \subseteq Writers
        \/ \E c \in Client \ Writers : Writers' = Writers \union {c}
    <3>1. CASE UNCHANGED vars
      BY <3>1 DEF vars, Writers
    <3>2. CASE Next
      BY <2>3, <3>2 DEF Next, Writers
    <3>3. QED
      BY <1>2, <3>1, <3>2
  <2> DEFINE H == Writers
             J == Writers'
  <2>5. (\A c, d \in H : c = d) /\ (\A c, d \in J : c = d)
    BY <2>1
  <2>6. J \subseteq H \/ \E c \in Client \ H : J = H \union {c}
    BY <2>4
  <2> HIDE DEF H, J
  <2>7. J = H \/ (H # {} /\ J = {}) \/ \E c \in Client : H = {} /\ J = {c}
    BY <2>5, <2>6
  <2>8. QED
    BY <2>7 DEF H, J, Lock!Next, Lock!Enter, Lock!Leave
<1>3. QED
  BY <1>1, <1>2, IInvHolds, PTL DEF Spec, UsesExclusion, Lock!Spec

=============================================================================
