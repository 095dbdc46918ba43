------------------------ MODULE CredentialWriterLock ------------------------
(***************************************************************************)
(* The filesystem bakery lock of                                           *)
(* packages/artifact/lib/artifact/internal/credential-writer.mts           *)
(* (withCredentialWriteLock), which serializes every read/modify/write of  *)
(* the credential stores across CLI processes.                             *)
(*                                                                         *)
(* A writer is one call of withCredentialWriteLock.  It owns one record in *)
(* the lock directory, `<pid>-<uuid>.json`, holding a ticket; ticket 0     *)
(* announces that the writer is still choosing.  A record is replaced by   *)
(* rename, so a reader sees the old ticket or the new one, never a mix.    *)
(*                                                                         *)
(* Listing the directory and reading the listed records is not atomic:     *)
(* another writer may appear, move or vanish between two reads.  A scan is *)
(* therefore a step per name, in any order, each with the record that name *)
(* has at that moment (a name that was not listed, or was listed and is    *)
(* gone when it is opened, counts as absent).                              *)
(***************************************************************************)
EXTENDS Integers

CONSTANTS
  Writer,            \* the calls, named by the rank of their file name
  Process,           \* the pids
  pid,               \* the process each call runs in
  MaxTicket          \* Number.MAX_SAFE_INTEGER

ASSUME WriterAssumption == Writer \subseteq Nat
ASSUME ProcessAssumption == pid \in [Writer -> Process]
ASSUME TicketAssumption == MaxTicket \in Nat \ {0}

Absent == -1

Ticket == 0..MaxTicket

NoWriter == -1

VARIABLES
  record,    \* record[w]: the ticket in w's file, or Absent
  pc,        \* pc[w]: where the call is
  ticket,    \* ticket[w]: the ticket w chose (0 before it has one)
  unread,    \* unread[w]: the names the current scan has yet to read
  highest,   \* highest[w]: the largest ticket the choosing scan has read
  blocked,   \* blocked[w]: the waiting scan has met an earlier writer
  victim,    \* victim[w]: a dead writer whose record w is about to unlink
  alive      \* alive[p]: process.kill(p, 0) does not fail with ESRCH

vars == <<record, pc, ticket, unread, highest, blocked, victim, alive>>

Scanning == {"choosing", "waiting"}
Running == Scanning \union {"held"}
Ended == {"done", "failed", "crashed"}

Init ==
  /\ record = [w \in Writer |-> Absent]
  /\ pc = [w \in Writer |-> "idle"]
  /\ ticket = [w \in Writer |-> 0]
  /\ unread = [w \in Writer |-> {}]
  /\ highest = [w \in Writer |-> 0]
  /\ blocked = [w \in Writer |-> FALSE]
  /\ victim = [w \in Writer |-> NoWriter]
  /\ alive = [p \in Process |-> TRUE]

-----------------------------------------------------------------------------

\* Mutant of Earlier: equal tickets are not told apart.
EarlierByTicket(t, v, u, w) == t < u

\* The order writers are served in: by ticket, equal tickets by name.
Earlier(t, v, u, w) == t < u \/ (t = u /\ v < w)

\* Mutants of Dead: a writer still choosing is taken for a leftover; a dead
\* writer is never noticed.
DeadOrChoosing(v) == ~alive[pid[v]] \/ record[v] = 0
NeverDead(v) == FALSE

\* process.kill(pid, 0) fails with ESRCH.
Dead(v) == ~alive[pid[v]]

\* Mutant of Blocks: a writer that is still choosing is passed over.
BlocksOnceChosen(v, w) ==
  record[v] # 0 /\ Earlier(record[v], v, ticket[w], w)

\* The record of v keeps w waiting.
Blocks(v, w) == record[v] = 0 \/ Earlier(record[v], v, ticket[w], w)

\* Mutant of TicketLeft: off by one.
TicketLeftOrLast(w) == highest[w] <= MaxTicket

\* Number.isSafeInteger(ticket), for the ticket w is about to take.
TicketLeft(w) == highest[w] < MaxTicket

\* announce(0): the record appears, and the choosing scan begins.
Announce(w) ==
  /\ pc[w] = "idle"
  /\ alive[pid[w]]
  /\ record' = [record EXCEPT ![w] = 0]
  /\ pc' = [pc EXCEPT ![w] = "choosing"]
  /\ unread' = [unread EXCEPT ![w] = Writer]
  /\ UNCHANGED <<ticket, highest, blocked, victim, alive>>

\* writers(): one name of the current scan, whose file is absent.
SkipAbsent(w, v) ==
  /\ record[v] = Absent
  /\ UNCHANGED <<highest, blocked, victim>>

\* writers(): one name whose process is gone; its record is not counted, and
\* w goes on to unlink it.
FindDead(w, v) ==
  /\ record[v] # Absent
  /\ Dead(v)
  /\ victim' = [victim EXCEPT ![w] = v]
  /\ UNCHANGED <<highest, blocked>>

\* writers(): one name whose process answers.  The choosing scan keeps the
\* largest ticket; the waiting scan asks whether that writer comes first.
CountLive(w, v) ==
  /\ record[v] # Absent
  /\ ~Dead(v)
  /\ IF pc[w] = "choosing"
     THEN /\ highest' = [highest EXCEPT
                           ![w] = IF record[v] > @ THEN record[v] ELSE @]
          /\ UNCHANGED blocked
     ELSE /\ blocked' = [blocked EXCEPT
                           ![w] = @ \/ Blocks(v, w)]
          /\ UNCHANGED highest
  /\ UNCHANGED victim

Read(w, v) ==
  /\ pc[w] \in Scanning
  /\ victim[w] = NoWriter
  /\ v \in unread[w]
  /\ unread' = [unread EXCEPT ![w] = @ \ {v}]
  /\ SkipAbsent(w, v) \/ FindDead(w, v) \/ CountLive(w, v)
  /\ UNCHANGED <<record, pc, ticket, alive>>

\* writers(): unlink the dead writer's record.  Another writer may have done
\* it already (ENOENT is swallowed).
Reclaim(w) ==
  /\ victim[w] # NoWriter
  /\ record' = [record EXCEPT ![victim[w]] = Absent]
  /\ victim' = [victim EXCEPT ![w] = NoWriter]
  /\ UNCHANGED <<pc, ticket, unread, highest, blocked, alive>>

ScanDone(w) == unread[w] = {} /\ victim[w] = NoWriter

\* announce(ticket), one above every ticket read; the waiting scan begins.
TakeTicket(w) ==
  /\ pc[w] = "choosing"
  /\ ScanDone(w)
  /\ TicketLeft(w)
  /\ ticket' = [ticket EXCEPT ![w] = highest[w] + 1]
  /\ record' = [record EXCEPT ![w] = highest[w] + 1]
  /\ pc' = [pc EXCEPT ![w] = "waiting"]
  /\ unread' = [unread EXCEPT ![w] = Writer \ {w}]
  /\ UNCHANGED <<highest, blocked, victim, alive>>

\* The finally clause: unlink the writer's own record.
Leave(w, end) ==
  /\ record' = [record EXCEPT ![w] = Absent]
  /\ pc' = [pc EXCEPT ![w] = end]
  /\ UNCHANGED <<ticket, unread, highest, blocked, victim, alive>>

\* "Credential writer ticket limit reached."
RefuseTicket(w) ==
  /\ pc[w] = "choosing"
  /\ ScanDone(w)
  /\ ~TicketLeft(w)
  /\ Leave(w, "failed")

\* No earlier writer: run the action.
Enter(w) ==
  /\ pc[w] = "waiting"
  /\ ScanDone(w)
  /\ ~blocked[w]
  /\ pc' = [pc EXCEPT ![w] = "held"]
  /\ UNCHANGED <<record, ticket, unread, highest, blocked, victim, alive>>

\* delay(20), then list and read the directory again.
Rescan(w) ==
  /\ pc[w] = "waiting"
  /\ ScanDone(w)
  /\ blocked[w]
  /\ unread' = [unread EXCEPT ![w] = Writer \ {w}]
  /\ blocked' = [blocked EXCEPT ![w] = FALSE]
  /\ UNCHANGED <<record, pc, ticket, highest, victim, alive>>

\* "Another credential update is still running."
GiveUp(w) ==
  /\ pc[w] = "waiting"
  /\ ScanDone(w)
  /\ blocked[w]
  /\ Leave(w, "failed")

\* The action returned or threw.
Release(w) ==
  /\ pc[w] = "held"
  /\ Leave(w, "done")

\* A process dies: every call it was running stops where it is, and the
\* records stay in the directory.
Crash(p) ==
  /\ alive[p]
  /\ alive' = [alive EXCEPT ![p] = FALSE]
  /\ pc' = [w \in Writer |->
              IF pid[w] = p /\ pc[w] \in Running THEN "crashed" ELSE pc[w]]
  /\ victim' = [w \in Writer |-> IF pid[w] = p THEN NoWriter ELSE victim[w]]
  /\ UNCHANGED <<record, ticket, unread, highest, blocked>>

\* The operating system gives the pid to another process (which may itself
\* be a CLI process and make the calls of p that are still idle).
Respawn(p) ==
  /\ ~alive[p]
  /\ alive' = [alive EXCEPT ![p] = TRUE]
  /\ UNCHANGED <<record, pc, ticket, unread, highest, blocked, victim>>

WriterStep(w) ==
  \/ Announce(w)
  \/ \E v \in Writer : Read(w, v)
  \/ Reclaim(w)
  \/ TakeTicket(w)
  \/ RefuseTicket(w)
  \/ Enter(w)
  \/ Rescan(w)
  \/ GiveUp(w)
  \/ Release(w)

Next ==
  \/ \E w \in Writer : WriterStep(w)
  \/ \E p \in Process : Crash(p) \/ Respawn(p)

Spec == Init /\ [][Next]_vars

(***************************************************************************)
(* A running process is scheduled and the action it protects returns, so a *)
(* writer that can step keeps stepping.  Announcing is the caller's        *)
(* choice, and nothing is assumed of crashes, deadlines or pid reuse.      *)
(***************************************************************************)
Advance(w) ==
  \/ \E v \in Writer : Read(w, v)
  \/ Reclaim(w)
  \/ TakeTicket(w)
  \/ RefuseTicket(w)
  \/ Enter(w)
  \/ Rescan(w)
  \/ Release(w)

FairSpec == Spec /\ \A w \in Writer : WF_vars(Advance(w))

-----------------------------------------------------------------------------

TypeOK ==
  /\ record \in [Writer -> Ticket \union {Absent}]
  /\ pc \in [Writer -> {"idle"} \union Running \union Ended]
  /\ ticket \in [Writer -> Ticket]
  /\ unread \in [Writer -> SUBSET Writer]
  /\ highest \in [Writer -> Ticket]
  /\ blocked \in [Writer -> BOOLEAN]
  /\ victim \in [Writer -> Writer \union {NoWriter}]
  /\ alive \in [Process -> BOOLEAN]

\* "This serializes the complete credential read/modify/write across
\* processes": two calls are never inside their actions together, whatever
\* dies, times out or is reclaimed around them.
MutualExclusion ==
  \A v, w \in Writer : pc[v] = "held" /\ pc[w] = "held" => v = w

\* "then waits for earlier (ticket, name) pairs": a call is inside its action
\* only while no other call that has taken a ticket comes before it.
ServedInOrder ==
  \A v, w \in Writer :
    /\ pc[w] = "held"
    /\ pc[v] = "waiting"
    => Earlier(ticket[w], w, ticket[v], v)

\* "reclaiming a dead writer cannot unlink a new owner's lock": a record
\* disappears only when its own call ends or after that call died.
OnlyOwnerOrDeadUnlinked ==
  [][\A w \in Writer :
       record[w] # Absent /\ record'[w] = Absent
         => pc[w] = "crashed" \/ pc'[w] \in {"done", "failed"}]_vars

\* No pid is ever reused.
PidsStayDead == \A p \in Process : [](~alive[p] => []~alive[p])

\* While no pid is reused, a call that announced itself is served or dies
\* with its process, even if its deadline never passes: neither a crash while
\* holding the lock nor a stream of other writers leaves it waiting for ever.
EveryCallEnds ==
  PidsStayDead => \A w \in Writer : pc[w] = "choosing" ~> pc[w] \in Ended

-----------------------------------------------------------------------------

(***************************************************************************)
(* Why the lock excludes: the inductive invariant.                         *)
(***************************************************************************)

\* A running call has a live process, and only a dead call is reclaimed.
LivenessKnown ==
  /\ \A w \in Writer : pc[w] \in Running => alive[pid[w]]
  /\ \A w \in Writer : victim[w] # NoWriter => pc[victim[w]] = "crashed"
  /\ \A w \in Writer : victim[w] # NoWriter => pc[w] \in Scanning

\* While a call runs, its record stays with the ticket it announced.
RecordKept ==
  \A w \in Writer : pc[w] \in Running => record[w] = ticket[w]

\* What the record of a call says about where the call is.
RecordAgrees ==
  /\ RecordKept
  /\ \A w \in Writer : pc[w] \in {"idle", "choosing"} => ticket[w] = 0
  /\ \A w \in Writer : pc[w] \in {"idle", "done", "failed"} => record[w] = Absent
  /\ \A w \in Writer : pc[w] \in {"waiting", "held"} => ticket[w] > 0
  /\ \A w \in Writer : pc[w] = "held" => ScanDone(w) /\ ~blocked[w]

\* A waiting call that has read v without being blocked comes before v, or
\* v has yet to choose and is bound to choose a larger ticket.
Behind(w, v) ==
  /\ pc[v] \in {"waiting", "held"} => Earlier(ticket[w], w, ticket[v], v)
  /\ pc[v] = "choosing" => w \in unread[v] \/ highest[v] >= ticket[w]

ReadImpliesBehind ==
  \A w \in Writer : \A v \in Writer \ {w} :
    pc[w] \in {"waiting", "held"} /\ v \notin unread[w] /\ ~blocked[w]
      => Behind(w, v)

IInv ==
  /\ TypeOK
  /\ LivenessKnown
  /\ RecordAgrees
  /\ ReadImpliesBehind

=============================================================================
