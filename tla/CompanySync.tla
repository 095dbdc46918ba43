------------------------------ MODULE CompanySync ------------------------------
(***************************************************************************)
(* One local file bound to an artifact of a company service: publishing    *)
(* it, pushing updates and applying reviewed proposals to it               *)
(* (packages/cli/src/services/company-sync-service.ts).                    *)
(*                                                                         *)
(* The binding lock (CompanyLock) lets one operation run at a time.  It    *)
(* may throw, or its process die, between any two of its steps, while the  *)
(* user edits the file and others publish revisions and proposals.  A      *)
(* request may reach the service long after the operation gave up waiting, *)
(* or never.                                                               *)
(*                                                                         *)
(* Contents stand for their digests.  A proposal that would change the     *)
(* layout is refused at preview, so the layout never changes and is left   *)
(* out, as are bundles kept by the diagram authoring store.                *)
(***************************************************************************)
EXTENDS Integers, Sequences

CONSTANTS
  Content,       \* contents of the file
  Proposal,      \* proposals made on the service
  result,        \* result[p]: what proposal p makes of the file
  MaxRevision,   \* bound: the revisions at which others still publish
  MaxPreview     \* bound: the update previews

ASSUME ContentAssumption == result \in [Proposal -> Content]
ASSUME BoundAssumption == MaxRevision \in Nat \ {0} /\ MaxPreview \in Nat

Others == -1   \* who else publishes
None == 0      \* no revision

VARIABLES
  source,     \* the file
  first,      \* the publication preview and its receipt
  binding,    \* the accepted revision and its content
  push,       \* the update preview and its receipt
  journal,    \* journal[p]: the pending applications of p, at most one
  staged,     \* staged[p]: the contents staged for p, at most one
  receipts,   \* the proposals recorded as applied
  backups,    \* the contents backed up
  remote,     \* the revisions of the artifact
  proposed,   \* proposed[p]: the revision p is based on
  sent,       \* the requests that may still reach the service
  at, job,    \* where the operation in progress is, and which it is
  subject,    \* the proposal it applies
  late,       \* whether the user wrote the file between the last look and a rename
  lost,       \* the contents overwritten and not backed up
  outlived    \* the operations with a request still out when a new preview began

local == <<first, binding, push, journal, staged, receipts, backups>>
service == <<remote, proposed, sent>>
history == <<late, lost, outlived>>
call == <<at, job, subject>>
vars == <<source, local, service, call, history>>

Revision == [by : Nat \union {Others}, content : Content]
Request == [op : Nat, base : Nat, content : Content]
Preview == [op : Nat, base : Nat, content : Content, revision : Nat]
Binding == [revision : Nat, content : Content]
Journal == [base : Content, revision : Nat]

Newest == Len(remote)

Init ==
  /\ source \in Content
  /\ first = [op |-> 0, base |-> None, content |-> source, revision |-> None]
  /\ push = first
  /\ binding = [revision |-> None, content |-> source]
  /\ journal = [p \in Proposal |-> {}]
  /\ staged = [p \in Proposal |-> {}]
  /\ receipts = {} /\ backups = {}
  /\ remote = <<>>
  /\ proposed = [p \in Proposal |-> None]
  /\ sent = {}
  /\ at = "idle" /\ job = "none"
  /\ subject \in Proposal
  /\ late = FALSE /\ lost = {} /\ outlived = {}

Rest == at' = "idle" /\ job' = "none" /\ UNCHANGED subject

(* A throw, or the death of the process. *)
Fails ==
  /\ at # "idle"
  /\ Rest
  /\ late' = FALSE
  /\ UNCHANGED <<source, local, service, lost, outlived>>

-----------------------------------------------------------------------------
(* publishCompanyPreview and pushCompanyBinding.                           *)

Draft == IF job = "publish" THEN first ELSE push

Unfinished == {p \in Proposal : journal[p] # {} /\ p \notin receipts}

\* Mutant of NoPending: pending applications are not looked for.
NoPendingAsked == TRUE
NoPending == Unfinished = {}

BeginPublish ==
  /\ at = "idle"
  /\ source = first.content
  /\ job' = "publish"
  /\ at' = IF first.revision = None THEN "posting" ELSE "binding"
  /\ UNCHANGED <<source, local, service, subject, history>>

(* An update is for the binding it was previewed on. *)
BeginPush ==
  /\ at = "idle"
  /\ NoPending
  /\ push.op # 0 /\ binding.revision # None
  /\ source = push.content
  /\ push.base = binding.revision
  /\ push.content # binding.content
  /\ job' = "push"
  /\ at' = IF push.revision = None THEN "posting" ELSE "binding"
  /\ UNCHANGED <<source, local, service, subject, history>>

Post ==
  /\ at = "posting"
  /\ sent' = sent \union
       {[op |-> Draft.op, base |-> Draft.base, content |-> Draft.content]}
  /\ at' = "awaiting"
  /\ UNCHANGED <<source, local, remote, proposed, job, subject, history>>

(* The answer to the request is the revision that came of it; the code     *)
(* compares its parent and content with the preview.                       *)
Matches(i) ==
  /\ remote[i].by = Draft.op
  /\ i = Draft.base + 1
  /\ remote[i].content = Draft.content

\* Mutant of Posted: the head is taken for the answer.
PostedNewest(i) == [Draft EXCEPT !.revision = Newest]
Posted(i) == [Draft EXCEPT !.revision = i]

Answered ==
  /\ at = "awaiting"
  /\ \A m \in sent : m.op # Draft.op
  /\ \E i \in DOMAIN remote :
       /\ Matches(i)
       /\ IF job = "publish"
          THEN first' = Posted(i) /\ UNCHANGED push
          ELSE push' = Posted(i) /\ UNCHANGED first
  /\ at' = "binding"
  /\ UNCHANGED <<source, binding, journal, staged, receipts, backups, service,
                 job, subject, history>>

\* Mutant of Accepted: the file as it is now instead of what was sent.
AcceptedNow == [revision |-> Draft.revision, content |-> source]
Accepted == [revision |-> Draft.revision, content |-> Draft.content]

\* Mutant of Bound: a publication repeated later binds its own revision.
BoundAgain == Accepted

(* A publication repeated later keeps the binding as it is. *)
Bound == IF job = "publish" /\ binding.revision # None THEN binding ELSE Accepted

Bind ==
  /\ at = "binding"
  /\ binding' = Bound
  /\ Rest
  /\ UNCHANGED <<source, first, push, journal, staged, receipts, backups,
                 service, history>>

-----------------------------------------------------------------------------
(* previewCompanyPush.                                                     *)

\* Mutant of RemoteUnchanged: the head of the service is not asked for.
RemoteAssumed == TRUE
RemoteUnchanged == Newest = binding.revision

BeginPreview ==
  /\ at = "idle"
  /\ NoPending
  /\ binding.revision # None
  /\ RemoteUnchanged
  /\ outlived' = outlived \union {m.op : m \in sent}
  /\ at' = "previewing" /\ job' = "preview"
  /\ UNCHANGED <<source, local, service, subject, late, lost>>

SavePreview ==
  /\ at = "previewing"
  /\ push.op < MaxPreview
  /\ push' = [op |-> push.op + 1, base |-> binding.revision, content |-> source,
              revision |-> None]
  /\ Rest
  /\ UNCHANGED <<source, first, binding, journal, staged, receipts, backups,
                 service, history>>

-----------------------------------------------------------------------------
(* applyCompanyProposal.                                                   *)

(* A proposal with a receipt is answered, one with a journal resumed; for  *)
(* others the file and the service must be as the binding says.            *)
BeginApply(p) ==
  /\ at = "idle"
  /\ binding.revision # None
  /\ p \notin receipts
  /\ IF journal[p] # {} THEN at' = "resuming"
     ELSE /\ NoPending
          /\ proposed[p] = binding.revision
          /\ RemoteUnchanged /\ source = binding.content
          /\ at' = "backing up"
  /\ job' = "apply" /\ subject' = p
  /\ UNCHANGED <<source, local, service, history>>

(* The file is read once more; that content is backed up and built on. *)
Backup ==
  /\ at = "backing up"
  /\ source = binding.content
  /\ backups' = backups \union {source}
  /\ at' = "staging"
  /\ UNCHANGED <<source, first, binding, push, journal, staged, receipts,
                 service, job, subject, history>>

Stage ==
  /\ at = "staging"
  /\ staged' = [staged EXCEPT ![subject] = {result[subject]}]
  /\ at' = "journaling"
  /\ UNCHANGED <<source, first, binding, push, journal, receipts, backups,
                 service, job, subject, history>>

Record ==
  /\ at = "journaling"
  /\ journal' = [journal EXCEPT ![subject] =
       {[base |-> binding.content, revision |-> binding.revision]}]
  /\ at' = "resuming"
  /\ UNCHANGED <<source, first, binding, push, staged, receipts, backups,
                 service, job, subject, history>>

(* resumePendingApplication.  Every look at the file accepts the base and  *)
(* the result only.                                                        *)
Resume ==
  /\ at = "resuming"
  /\ \E j \in journal[subject] :
       /\ j.revision = binding.revision /\ j.base = binding.content
       /\ staged[subject] = {result[subject]} /\ j.base \in backups
       /\ source \in {j.base, result[subject]}
  /\ at' = IF source = result[subject] THEN "replaced" ELSE "replacing"
  /\ UNCHANGED <<source, local, service, job, subject, history>>

\* Mutant of Untouched: no second look before the rename.
UntouchedBefore == TRUE
Untouched == source = binding.content

LookAgain ==
  /\ at = "replacing"
  /\ Untouched
  /\ at' = "renaming"
  /\ UNCHANGED <<source, local, service, job, subject, history>>

Rename ==
  /\ at = "renaming"
  /\ source' = result[subject]
  /\ lost' = IF late THEN lost ELSE lost \union ({source} \ backups)
  /\ late' = FALSE
  /\ at' = "replaced"
  /\ UNCHANGED <<local, service, job, subject, outlived>>

Confirm ==
  /\ at = "replaced"
  /\ source = result[subject]
  /\ at' = "recording"
  /\ UNCHANGED <<source, local, service, job, subject, history>>

SaveReceipt ==
  /\ at = "recording"
  /\ receipts' = receipts \union {subject}
  /\ at' = "cleaning"
  /\ UNCHANGED <<source, first, binding, push, journal, staged, backups,
                 service, job, subject, history>>

(* Best effort, each for itself. *)
CleanUp ==
  /\ at = "cleaning"
  /\ journal' \in {journal, [journal EXCEPT ![subject] = {}]}
  /\ staged' \in {staged, [staged EXCEPT ![subject] = {}]}
  /\ Rest
  /\ UNCHANGED <<source, first, binding, push, receipts, backups, service,
                 history>>

-----------------------------------------------------------------------------
(* The user, and the service as the code uses it.                          *)

Edit(v) ==
  /\ source' = v
  /\ late' = (at = "renaming")
  /\ UNCHANGED <<local, service, call, lost, outlived>>

(* A request is refused unless its base is the head; a repeated operation  *)
(* gets its first answer.                                                  *)
Serve(m) ==
  /\ m \in sent
  /\ sent' = sent \ {m}
  /\ remote' = IF /\ m.base = Newest
                  /\ \A i \in DOMAIN remote : remote[i].by # m.op
               THEN Append(remote, [by |-> m.op, content |-> m.content])
               ELSE remote
  /\ UNCHANGED <<source, local, proposed, call, history>>

Collaborate(v) ==
  /\ Newest \in 1 .. MaxRevision - 1
  /\ remote' = Append(remote, [by |-> Others, content |-> v])
  /\ UNCHANGED <<source, local, proposed, sent, call, history>>

Propose(p) ==
  /\ Newest # None
  /\ proposed[p] = None
  /\ proposed' = [proposed EXCEPT ![p] = Newest]
  /\ UNCHANGED <<source, local, remote, sent, call, history>>

Next ==
  \/ Fails
  \/ BeginPublish \/ BeginPush \/ Post \/ Answered \/ Bind
  \/ BeginPreview \/ SavePreview
  \/ \E p \in Proposal : BeginApply(p) \/ Propose(p)
  \/ Backup \/ Stage \/ Record
  \/ Resume \/ LookAgain \/ Rename \/ Confirm \/ SaveReceipt \/ CleanUp
  \/ \E v \in Content : Edit(v) \/ Collaborate(v)
  \/ \E m \in sent : Serve(m)

Spec == Init /\ [][Next]_vars

-----------------------------------------------------------------------------
Place == {"idle", "posting", "awaiting", "binding", "previewing", "backing up",
          "staging", "journaling", "resuming", "replacing", "renaming",
          "replaced", "recording", "cleaning"}

(* The types; the receipt of a preview is the revision that follows its    *)
(* base.                                                                   *)
TypeOK ==
  /\ source \in Content
  /\ first \in Preview /\ push \in Preview /\ binding \in Binding
  /\ first.revision \in {None, first.base + 1}
  /\ push.revision \in {None, push.base + 1}
  /\ journal \in [Proposal -> SUBSET Journal]
  /\ staged \in [Proposal -> SUBSET Content]
  /\ receipts \subseteq Proposal /\ backups \subseteq Content
  /\ remote \in Seq(Revision)
  /\ proposed \in [Proposal -> Nat]
  /\ sent \subseteq Request
  /\ at \in Place /\ job \in {"none", "publish", "push", "preview", "apply"}
  /\ subject \in Proposal
  /\ late \in BOOLEAN /\ lost \subseteq Content /\ outlived \subseteq Nat

(* The binding names a revision of the service with the content it says,   *)
(* wherever answers were lost and operations died.                         *)
BindingIsTrue ==
  binding.revision # None =>
    /\ binding.revision \in DOMAIN remote
    /\ remote[binding.revision].content = binding.content

(* The accepted revision never goes back, whichever of the previews and    *)
(* receipts on disk is repeated later.                                     *)
BindingNeverBack == [][binding'.revision >= binding.revision]_binding

(* An application that was interrupted can be resumed, the user's edits    *)
(* apart: there is only one, the binding it was prepared on stays, and its *)
(* content and backup are there.                                           *)
PendingStaysResumable ==
  \A p \in Unfinished :
    /\ Unfinished = {p}
    /\ journal[p] = {[base |-> binding.content, revision |-> binding.revision]}
    /\ staged[p] = {result[p]}
    /\ binding.content \in backups

(* What an application overwrites is backed up, interrupted and resumed    *)
(* ones included, but for an edit between the last look and the rename.    *)
EditsSurvive == lost = {}

(* A revision this file published is bound, or one repetition away from    *)
(* it, unless its request was still out when a new preview began.          *)
OwnRevisionsReachable ==
  \A i \in DOMAIN remote :
    (i > binding.revision /\ remote[i].by # Others) =>
      \/ remote[i].by = 0 /\ binding.revision = None
      \/ remote[i].by = push.op /\ push.base = binding.revision
      \/ remote[i].by \in outlived

=============================================================================
