----------------------------- MODULE OperateStore -----------------------------
(***************************************************************************)
(* The project-local Operate store, packages/cli/src/services/operate/     *)
(* store.ts: immutable generations on disk, the journal of heads           *)
(* (HEADS.jsonl), the custody anchor (CUSTODY.json) and the pointer        *)
(* CURRENT, written in that order under LOCK, and read without a lock.     *)
(*                                                                         *)
(* A client is a CLI or MCP session: it loads, commits on what it loaded,  *)
(* inspects and restores.  Each durable write is a step; a client may die  *)
(* before any of them, and any of them may throw.                          *)
(*                                                                         *)
(* The data is reduced to what the checks of the code compare:             *)
(*   - a generation stands for its directory and for its integrity hash;   *)
(*     a manifest never changes, so the walk of assertAnchored along       *)
(*     parentGeneration is a constant of the generation, lineage[g];       *)
(*   - a journal record's hash covers the hash before it and the journal   *)
(*     only grows, so the hash of a record stands for its index;           *)
(*   - project identity, custody nonce, bindings and Event bytes always    *)
(*     match (damaged or foreign bytes are outside this model).            *)
(***************************************************************************)
EXTENDS Integers, Sequences

CONSTANTS
  Client,              \* the sessions
  Generation,          \* the generations a uuid can name
  NoGeneration,        \* CURRENT is absent; the runtime of an empty store
  Unknown,             \* a client that has loaded nothing
  Free, Stale,         \* LOCK is absent; LOCK names a dead process
  MaxJournal,          \* bound on the records of the journal
  MaxFaults,           \* bound on crashes and failed writes
  WritesMayTear        \* whether a record can be written in part

ASSUME ClientAssumption == {Free, Stale} \intersect Client = {} /\ Free # Stale
ASSUME GenerationAssumption ==
  {NoGeneration, Unknown} \intersect Generation = {} /\ NoGeneration # Unknown
ASSUME BoundAssumption == MaxJournal \in Nat /\ MaxFaults \in Nat
ASSUME TearAssumption == WritesMayTear \in BOOLEAN

VARIABLES
  lineage,   \* lineage[g]: the walk from g's manifest; {} while g has none
  journal,   \* HEADS.jsonl: the generation of each record
  torn,      \* HEADS.jsonl ends in part of a record
  custody,   \* CUSTODY.json: generation and journal sequence (0: no file)
  current,   \* CURRENT
  lock,      \* LOCK: Free, Stale, or the live client that holds it
  pc,        \* pc[c]: where the client is
  known,     \* known[c]: the generation of the runtime the client works on
  goal,      \* goal[c]: the write in progress: its kind and generation
  saw,       \* saw[c]: what the read in progress has read so far
  settling,  \* settling[c]: the reads a failed load has yet to make, and
             \* whether those it made found the store quiet
  quiet,     \* quiet[c]: the fingerprint of the last quiet load failure
  advice,    \* advice[c]: the generation inspect last offered to restore
  faults     \* the number of crashes and failed writes so far

disk == <<lineage, journal, torn, custody, current>>
local == <<known, goal, saw, settling, quiet, advice>>
vars == <<disk, lock, pc, local, faults>>

NoCustody == [gen |-> NoGeneration, seq |-> 0]
NoSight == [cur |-> NoGeneration, head |-> NoGeneration, len |-> 0,
            empty |-> FALSE]
NoGoal == [kind |-> "none", gen |-> NoGeneration]
NoFailure == [cur |-> NoGeneration, why |-> "none"]
NotSettling == [left |-> {}, quiet |-> FALSE, why |-> "none"]

Writing == {"committing", "restoring", "advised", "journaling", "appending",
            "anchoring", "pointing", "committed", "restored", "aborted"}
Loading == {"loadJournal", "loadCustody", "loadRecheck", "loadSettle", "loadAgain"}
Inspecting == {"inspectNames", "inspectJournal", "inspectCurrent",
               "inspectCustody"}
Resting == {"idle", "corrupt"}

Init ==
  /\ lineage = [g \in Generation |-> {}]
  /\ journal = <<>>
  /\ torn = FALSE
  /\ custody = NoCustody
  /\ current = NoGeneration
  /\ lock = Free
  /\ pc = [c \in Client |-> "idle"]
  /\ known = [c \in Client |-> Unknown]
  /\ goal = [c \in Client |-> NoGoal]
  /\ saw = [c \in Client |-> NoSight]
  /\ settling = [c \in Client |-> NotSettling]
  /\ quiet = [c \in Client |-> NoFailure]
  /\ advice = [c \in Client |-> NoGeneration]
  /\ faults = 0

-----------------------------------------------------------------------------
(* What the checks of the code say of the durable files.                   *)

Goto(c, l) == pc' = [pc EXCEPT ![c] = l]

HeadGeneration == IF journal = <<>> THEN NoGeneration ELSE journal[Len(journal)]

Published(g) == lineage[g] # {}

\* generationNames lists no directory.
NothingPublished == \A g \in Generation : ~Published(g)

LockIsLive == lock \in Client

\* Mutant of HeadSequence: the sequence of the next record.
NextSequence == Len(journal) + 1

\* The sequence of the last record of the journal.
HeadSequence == Len(journal)

\* The custody anchor that agrees with the head of the journal.
HeadCustody == [gen |-> HeadGeneration, seq |-> HeadSequence]

\* commitUnlocked: what must hold of the files for a commit on e.
CommitAccepted(e) ==
  /\ ~torn
  /\ current = e
  /\ e = NoGeneration => custody = NoCustody /\ journal = <<>>
  /\ custody = NoCustody <=> journal = <<>>
  /\ journal # <<>> => HeadGeneration = e /\ custody = HeadCustody

\* The journal is one record ahead of the custody anchor.
InterruptedAppend == custody.seq + 1 = Len(journal)

\* Mutant of RestoreAccepted: an interrupted append is taken for damage.
RestoreAcceptedAnchored(g) ==
  /\ custody # NoCustody
  /\ ~torn
  /\ custody.seq = HeadSequence
  /\ g \in lineage[custody.gen]

\* Mutant of RestoreAccepted: any generation on disk will do.
RestoreAcceptedUnanchored(g) ==
  /\ custody # NoCustody
  /\ ~torn
  /\ Published(g)
  /\ custody.seq = HeadSequence \/ (InterruptedAppend /\ g = HeadGeneration)

\* restore: what must hold of the files for a restore of g.
RestoreAccepted(g) ==
  /\ custody # NoCustody
  /\ ~torn
  /\ journal # <<>>
  /\ \/ /\ custody.seq = HeadSequence
        /\ g \in lineage[custody.gen]
     \/ /\ InterruptedAppend
        /\ g = HeadGeneration
        /\ g \in lineage[HeadGeneration]

-----------------------------------------------------------------------------
(* Writers: commit and restore.                                            *)

\* acquireLock; a dead owner's LOCK is archived first.
AcquireLock(c) ==
  /\ pc[c] \in Resting
  /\ ~LockIsLive
  /\ lock' = c

\* commit, on the generation of the runtime the client loaded or committed.
BeginCommit(c) ==
  /\ known[c] # Unknown
  /\ Len(journal) < MaxJournal
  /\ AcquireLock(c)
  /\ Goto(c, "committing")
  /\ UNCHANGED <<disk, local, faults>>

\* The files do not admit the commit: conflict or corruption is thrown.
RefuseCommit(c) ==
  /\ pc[c] = "committing"
  /\ ~CommitAccepted(known[c])
  /\ Goto(c, "aborted")
  /\ UNCHANGED <<disk, lock, local, faults>>

\* The new generation, staged beside the store, is renamed into it.
Publish(c) ==
  /\ pc[c] = "committing"
  /\ CommitAccepted(known[c])
  /\ \E g \in Generation :
       /\ ~Published(g)
       /\ lineage' = [lineage EXCEPT
            ![g] = {g} \union
                   IF known[c] = NoGeneration THEN {} ELSE lineage[known[c]]]
       /\ goal' = [goal EXCEPT ![c] = [kind |-> "commit", gen |-> g]]
  /\ Goto(c, "journaling")
  /\ UNCHANGED <<journal, torn, custody, current, lock, known, saw, settling,
                 quiet, advice, faults>>

\* restore of the generation the last inspection offered, or of any other.
BeginRestore(c, g) ==
  /\ g = HeadGeneration \/ Len(journal) < MaxJournal
  /\ AcquireLock(c)
  /\ \/ g = advice[c] /\ Goto(c, "advised")
     \/ g # advice[c] /\ Goto(c, "restoring")
  /\ goal' = [goal EXCEPT ![c] = [kind |-> "restore", gen |-> g]]
  /\ UNCHANGED <<disk, known, saw, settling, quiet, advice, faults>>

RefuseRestore(c) ==
  /\ pc[c] \in {"restoring", "advised"}
  /\ ~RestoreAccepted(goal[c].gen)
  /\ Goto(c, "aborted")
  /\ UNCHANGED <<disk, lock, local, faults>>

\* The head itself only has its anchor and pointer rewritten; an older
\* generation becomes the head by a journal record of its own.
SelectRestore(c) ==
  /\ pc[c] \in {"restoring", "advised"}
  /\ RestoreAccepted(goal[c].gen)
  /\ Goto(c, IF goal[c].gen = HeadGeneration THEN "anchoring" ELSE "journaling")
  /\ UNCHANGED <<disk, lock, local, faults>>

\* appendHeadJournal: part of the record has reached the file.
StartAppend(c) ==
  /\ WritesMayTear
  /\ pc[c] = "journaling"
  /\ torn' = TRUE
  /\ Goto(c, "appending")
  /\ UNCHANGED <<lineage, journal, custody, current, lock, local, faults>>

\* appendHeadJournal: the whole record is in the file and synced.
AppendHead(c) ==
  /\ pc[c] = (IF WritesMayTear THEN "appending" ELSE "journaling")
  /\ journal' = Append(journal, goal[c].gen)
  /\ torn' = FALSE
  /\ Goto(c, "anchoring")
  /\ UNCHANGED <<lineage, custody, current, lock, local, faults>>

\* atomicWrite of CUSTODY.json.
Anchor(c) ==
  /\ pc[c] = "anchoring"
  /\ custody' = [gen |-> goal[c].gen, seq |-> HeadSequence]
  /\ Goto(c, "pointing")
  /\ UNCHANGED <<lineage, journal, torn, current, lock, local, faults>>

\* atomicWrite of CURRENT.
Point(c) ==
  /\ pc[c] = "pointing"
  /\ current' = goal[c].gen
  /\ Goto(c, IF goal[c].kind = "commit" THEN "committed" ELSE "restored")
  /\ UNCHANGED <<lineage, journal, torn, custody, lock, local, faults>>

\* Mutant of Returned: an error of a write is swallowed.
ReturnedRegardless(c) ==
  IF goal[c].kind = "commit" THEN goal[c].gen ELSE Unknown

\* The runtime a commit returns; after a restore, or an error, the client has
\* to load again.
Returned(c) == IF pc[c] = "committed" THEN goal[c].gen ELSE Unknown

\* releaseLock, then commit or restore returns or throws.
Release(c) ==
  /\ pc[c] \in {"committed", "restored", "aborted"}
  /\ lock' = Free
  /\ Goto(c, "idle")
  /\ known' = [known EXCEPT ![c] = Returned(c)]
  /\ goal' = [goal EXCEPT ![c] = NoGoal]
  /\ UNCHANGED <<disk, saw, settling, quiet, advice, faults>>

\* A write throws (no space, an I/O error); finally releases LOCK.
WriteFails(c) ==
  /\ faults < MaxFaults
  /\ pc[c] \in {"committing", "journaling", "appending", "anchoring", "pointing"}
  /\ faults' = faults + 1
  /\ Goto(c, "aborted")
  /\ UNCHANGED <<disk, lock, local>>

\* The process of a writer dies; its LOCK stays on disk.
Crash(c) ==
  /\ faults < MaxFaults
  /\ pc[c] \in Writing
  /\ faults' = faults + 1
  /\ lock' = Stale
  /\ Goto(c, "idle")
  /\ known' = [known EXCEPT ![c] = Unknown]
  /\ goal' = [goal EXCEPT ![c] = NoGoal]
  /\ UNCHANGED <<disk, saw, settling, quiet, advice>>

\* clearStaleLock.
ClearStaleLock(c) ==
  /\ pc[c] \in Resting
  /\ lock = Stale
  /\ lock' = Free
  /\ UNCHANGED <<disk, pc, local, faults>>

-----------------------------------------------------------------------------
(* load: a bounded number of attempts to read one coherent state.          *)

\* currentGeneration, at the start of load or of another attempt.
LoadCurrent(c) ==
  /\ pc[c] \in Resting \union {"loadAgain"}
  /\ saw' = [saw EXCEPT ![c].cur = current]
  /\ Goto(c, "loadJournal")
  /\ UNCHANGED <<disk, lock, known, goal, settling, quiet, advice, faults>>

\* loadCurrentGeneration throws OPERATE_STORE_CORRUPT; CURRENT and LOCK are
\* read again, in either order.
LoadFails(c, why) ==
  /\ settling' = [settling EXCEPT
       ![c] = [left |-> {"current", "lock"}, quiet |-> TRUE, why |-> why]]
  /\ Goto(c, "loadSettle")
  /\ UNCHANGED saw

\* readHeadJournal and, without a pointer, generationNames.
LoadJournal(c) ==
  /\ pc[c] = "loadJournal"
  /\ \/ torn /\ LoadFails(c, "truncated")
     \/ /\ ~torn
        /\ saw[c].cur = NoGeneration
        /\ IF journal = <<>> /\ NothingPublished
           THEN Goto(c, "loadRecheck") /\ UNCHANGED <<saw, settling>>
           ELSE LoadFails(c, "unanchored")
     \/ /\ ~torn
        /\ saw[c].cur # NoGeneration
        /\ saw' = [saw EXCEPT ![c].head = HeadGeneration, ![c].len = Len(journal)]
        /\ Goto(c, "loadCustody")
        /\ UNCHANGED settling
  /\ UNCHANGED <<disk, lock, known, goal, quiet, advice, faults>>

\* readCustody, the comparison of the three files, and loadGeneration.
LoadCustody(c) ==
  /\ pc[c] = "loadCustody"
  /\ IF /\ custody = [gen |-> saw[c].cur, seq |-> saw[c].len]
        /\ saw[c].head = saw[c].cur
     THEN Goto(c, "loadRecheck") /\ UNCHANGED <<saw, settling>>
     ELSE LoadFails(c, "diverge")
  /\ UNCHANGED <<disk, lock, known, goal, quiet, advice, faults>>

\* The pointer is read once more: unchanged, load returns what it read.
LoadRecheck(c) ==
  /\ pc[c] = "loadRecheck"
  /\ IF current = saw[c].cur
     THEN known' = [known EXCEPT ![c] = current] /\ Goto(c, "idle")
     ELSE Goto(c, "loadAgain") /\ UNCHANGED known
  /\ quiet' = [quiet EXCEPT ![c] = NoFailure]
  /\ saw' = [saw EXCEPT ![c] = NoSight]
  /\ UNCHANGED <<disk, lock, goal, settling, advice, faults>>

\* Mutant of FindsQuiet: a live writer's LOCK is not looked at.
FindsQuietPointer(c, read) == read = "current" => current = saw[c].cur

\* What one of the two reads after a failure finds: the pointer load began
\* with, no live writer.
FindsQuiet(c, read) ==
  IF read = "current" THEN current = saw[c].cur ELSE ~LockIsLive

\* One of the two reads after a failure.
LoadSettle(c) ==
  /\ pc[c] = "loadSettle"
  /\ \E read \in settling[c].left :
       settling' = [settling EXCEPT
         ![c].left = @ \ {read},
         ![c].quiet = @ /\ FindsQuiet(c, read)]
  /\ UNCHANGED <<disk, lock, pc, known, goal, saw, quiet, advice, faults>>

\* The same quiet failure twice running is corruption; anything else is
\* retried.
LoadJudge(c) ==
  /\ pc[c] = "loadSettle"
  /\ settling[c].left = {}
  /\ LET failure == [cur |-> saw[c].cur, why |-> settling[c].why]
     IN IF settling[c].quiet /\ quiet[c] = failure
        THEN Goto(c, "corrupt") /\ quiet' = [quiet EXCEPT ![c] = NoFailure]
        ELSE /\ Goto(c, "loadAgain")
             /\ quiet' = [quiet EXCEPT
                  ![c] = IF settling[c].quiet THEN failure ELSE NoFailure]
  /\ settling' = [settling EXCEPT ![c] = NotSettling]
  /\ saw' = [saw EXCEPT ![c] = NoSight]
  /\ UNCHANGED <<disk, lock, known, goal, advice, faults>>

\* The attempts or the time are used up: OPERATE_STORE_CONFLICT.
LoadGivesUp(c) ==
  /\ pc[c] = "loadAgain"
  /\ Goto(c, "idle")
  /\ quiet' = [quiet EXCEPT ![c] = NoFailure]
  /\ UNCHANGED <<disk, lock, known, goal, saw, settling, advice, faults>>

-----------------------------------------------------------------------------
(* inspect: one read of each file, in order, without retries.              *)

Report(c, g) ==
  /\ advice' = [advice EXCEPT ![c] = g]
  /\ saw' = [saw EXCEPT ![c] = NoSight]
  /\ Goto(c, "idle")

\* inspectLock: a live lock is reported as such, a stale one to be cleared.
InspectLock(c) ==
  /\ pc[c] \in Resting
  /\ IF lock = Free THEN Goto(c, "inspectNames") /\ UNCHANGED <<saw, advice>>
                    ELSE Report(c, NoGeneration)
  /\ UNCHANGED <<disk, lock, known, goal, settling, quiet, faults>>

\* generationNames.
InspectNames(c) ==
  /\ pc[c] = "inspectNames"
  /\ saw' = [saw EXCEPT ![c].empty = NothingPublished]
  /\ Goto(c, "inspectJournal")
  /\ UNCHANGED <<disk, lock, known, goal, settling, quiet, advice, faults>>

\* readHeadJournal; truncated is corrupt.
InspectJournal(c) ==
  /\ pc[c] = "inspectJournal"
  /\ IF torn
     THEN Report(c, NoGeneration)
     ELSE /\ saw' = [saw EXCEPT ![c].head = HeadGeneration, ![c].len = Len(journal)]
          /\ Goto(c, "inspectCurrent")
          /\ UNCHANGED advice
  /\ UNCHANGED <<disk, lock, known, goal, settling, quiet, faults>>

\* currentGeneration; without a pointer and without generations the store
\* is empty (or, with a journal, corrupt).
InspectCurrent(c) ==
  /\ pc[c] = "inspectCurrent"
  /\ IF current = NoGeneration /\ saw[c].empty
     THEN Report(c, NoGeneration)
     ELSE /\ saw' = [saw EXCEPT ![c].cur = current]
          /\ Goto(c, "inspectCustody")
          /\ UNCHANGED advice
  /\ UNCHANGED <<disk, lock, known, goal, settling, quiet, faults>>

\* readCustody, and the classification: an interrupted append or an
\* interrupted pointer offers the head for restoring; a healthy or corrupt
\* store offers nothing.
InspectCustody(c) ==
  /\ pc[c] = "inspectCustody"
  /\ LET head == saw[c].head
         interrupted == custody.seq + 1 = saw[c].len
         agrees == custody = [gen |-> head, seq |-> saw[c].len]
     IN Report(c, IF /\ custody # NoCustody
                     /\ head # NoGeneration
                     /\ interrupted \/ (agrees /\ saw[c].cur # head)
                  THEN head ELSE NoGeneration)
  /\ UNCHANGED <<disk, lock, known, goal, settling, quiet, faults>>

-----------------------------------------------------------------------------

Write(c) ==
  \/ BeginCommit(c)
  \/ RefuseCommit(c)
  \/ Publish(c)
  \/ \E g \in Generation : BeginRestore(c, g)
  \/ RefuseRestore(c)
  \/ SelectRestore(c)
  \/ StartAppend(c)
  \/ AppendHead(c)
  \/ Anchor(c)
  \/ Point(c)
  \/ Release(c)
  \/ WriteFails(c)
  \/ Crash(c)
  \/ ClearStaleLock(c)

Load(c) ==
  \/ LoadCurrent(c)
  \/ LoadJournal(c)
  \/ LoadCustody(c)
  \/ LoadRecheck(c)
  \/ LoadSettle(c)
  \/ LoadJudge(c)
  \/ LoadGivesUp(c)

Inspect(c) ==
  \/ InspectLock(c)
  \/ InspectNames(c)
  \/ InspectJournal(c)
  \/ InspectCurrent(c)
  \/ InspectCustody(c)

Next == \E c \in Client : Write(c) \/ Load(c) \/ Inspect(c)

Spec == Init /\ [][Next]_vars

-----------------------------------------------------------------------------

Sight == [cur : Generation \union {NoGeneration},
          head : Generation \union {NoGeneration},
          len : Nat,
          empty : BOOLEAN]

TypeOK ==
  /\ lineage \in [Generation -> SUBSET Generation]
  /\ journal \in Seq(Generation)
  /\ torn \in BOOLEAN
  /\ custody \in [gen : Generation \union {NoGeneration}, seq : Nat]
  /\ custody.seq <= Len(journal)
  /\ current \in Generation \union {NoGeneration}
  /\ lock \in Client \union {Free, Stale}
  /\ pc \in [Client -> Resting \union Writing \union Loading \union Inspecting]
  /\ known \in [Client -> Generation \union {NoGeneration, Unknown}]
  /\ goal \in [Client -> [kind : {"none", "commit", "restore"},
                          gen : Generation \union {NoGeneration}]]
  /\ saw \in [Client -> Sight]
  /\ settling \in [Client -> [left : SUBSET {"current", "lock"},
                              quiet : BOOLEAN,
                              why : {"none", "truncated", "unanchored", "diverge"}]]
  /\ quiet \in [Client -> [cur : Generation \union {NoGeneration},
                           why : {"none", "truncated", "unanchored", "diverge"}]]
  /\ advice \in [Client -> Generation \union {NoGeneration}]
  /\ faults \in Nat

Journaled == {journal[i] : i \in 1..Len(journal)}

\* A client never works on, or commits on, a generation the journal does not
\* hold: neither load nor commit returns one that a crash could still undo.
WorksOnJournaled ==
  \A c \in Client : known[c] \in Journaled \union {NoGeneration, Unknown}

\* An established store survives every crash and failed write between two
\* steps: whenever no writer is live, a restore of the journal's head, which
\* is what inspect offers, is accepted.
HeadStaysRestorable ==
  custody # NoCustody /\ ~torn /\ ~LockIsLive => RestoreAccepted(HeadGeneration)

ReportsCorruption == \E c \in Client : pc[c] = "corrupt"

Rewound == \E i, j \in 1..Len(journal) : i # j /\ journal[i] = journal[j]

\* load blames the disk only for what a crash or a failed write left there:
\* commits that finish never make it report corruption, however they
\* interleave with its reads.  (A rewind can: CURRENT returns to the value
\* the read began with.)
CorruptionHasCause == ReportsCorruption => faults > 0 \/ Rewound

\* "advertise only the exact recovery action proved safe": restoring what
\* inspect offered takes no committed generation off the line of the head.
AdvisedRestoreKeepsCommits ==
  [][\A c \in Client :
       pc[c] = "advised" /\ pc'[c] = "journaling" => goal[c].gen = HeadGeneration]_vars

\* The journal is the history of versions: its heads succeed one another by
\* commits on the head and by rewinds along its line, across every crash.
History == INSTANCE VersionHistory
  WITH Version <- Generation,
       history <- journal,
       line <- [g \in Generation |->
                  IF g \in Journaled THEN lineage[g] ELSE {}]

ImplementsHistory == History!Spec

=============================================================================
