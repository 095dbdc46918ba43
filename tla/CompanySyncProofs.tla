--------------------------- MODULE CompanySyncProofs ---------------------------
(***************************************************************************)
(* The safety properties of CompanySync, for any contents, proposals and   *)
(* bounds, wherever operations die and however late requests arrive.       *)
(*                                                                         *)
(* A request and the revision that comes of it follow the base of their    *)
(* preview (Requests), so that a receipt is true (Receipts) and a push     *)
(* binds the successor of the revision bound (Sends).  The binding does    *)
(* not move under an unfinished application (Applications), nor can a new  *)
(* preview forget a publication but for a request still out (Orphans).     *)
(***************************************************************************)
EXTENDS CompanySync, TLAPS

USE ContentAssumption, BoundAssumption DEF None, Others

Sending == {"posting", "awaiting", "binding"}
Preparing == {"backing up", "staging", "journaling"}
Applying == {"resuming", "replacing", "renaming", "replaced", "recording"}

Requests ==
  /\ first.op = 0 /\ first.base = None
  /\ push.op # 0 => push.base \in 1 .. binding.revision
  /\ \A m \in sent :
       /\ m.op <= push.op
       /\ m.op = 0 => m.base = None
       /\ m.op # 0 => m.base = push.base \/ m.op # push.op
       /\ m.op # 0 => m.op \in outlived \/ m.op = push.op
       /\ at = "previewing" => m.op \in outlived
  /\ \A i \in DOMAIN remote :
       /\ remote[i].by <= push.op
       /\ remote[i].by = 0 => i = 1
       /\ remote[i].by # 0 /\ remote[i].by = push.op => i = push.base + 1

Receipts ==
  /\ first.revision # None =>
       first.revision \in DOMAIN remote /\ remote[first.revision].content = first.content
  /\ push.revision # None =>
       push.revision \in DOMAIN remote /\ remote[push.revision].content = push.content

Sends ==
  /\ at \in Sending => job \in {"publish", "push"}
  /\ at \in Sending /\ job = "push" =>
       /\ NoPending
       /\ push.op # 0
       /\ push.base = binding.revision /\ binding.revision # None
  /\ at = "binding" => Draft.revision # None

Applications ==
  /\ binding.revision = None => \A p \in Proposal : journal[p] = {}
  /\ at \in Preparing \union Applying \union {"previewing"} => binding.revision # None
  /\ at \in Preparing => NoPending /\ subject \notin receipts
  /\ at \in {"staging", "journaling"} => binding.content \in backups
  /\ at = "journaling" => staged[subject] = {result[subject]}
  /\ at \in Applying => subject \in Unfinished
  /\ at = "cleaning" => subject \in receipts
  /\ at = "renaming" => late \/ source = binding.content

Orphans ==
  at = "previewing" =>
    \A i \in DOMAIN remote :
      (i > binding.revision /\ remote[i].by # Others) => remote[i].by \in outlived

IInv ==
  /\ TypeOK /\ BindingIsTrue /\ PendingStaysResumable /\ EditsSurvive
  /\ OwnRevisionsReachable
  /\ Requests /\ Receipts /\ Sends /\ Applications /\ Orphans

-----------------------------------------------------------------------------
(* Types.                                                                  *)

LEMMA SeqIndex ==
  ASSUME NEW l \in Seq(Revision)
  PROVE  Len(l) \in Nat /\ DOMAIN l = 1 .. Len(l)
OBVIOUS

LEMMA IndexNat ==
  ASSUME NEW l \in Seq(Revision), NEW i \in DOMAIN l PROVE i \in Nat
OBVIOUS

LEMMA AppendType ==
  ASSUME NEW l \in Seq(Revision), NEW r \in Revision
  PROVE  /\ Append(l, r) \in Seq(Revision)
         /\ DOMAIN Append(l, r) = DOMAIN l \union {Len(l) + 1}
         /\ Append(l, r)[Len(l) + 1] = r
         /\ \A i \in DOMAIN l : Append(l, r)[i] = l[i]
OBVIOUS

LEMMA TypeNext == TypeOK /\ [Next]_vars => TypeOK'
<1> SUFFICES ASSUME TypeOK, [Next]_vars PROVE TypeOK'
  OBVIOUS
<1> USE DEF TypeOK, Place, Rest, local, service, history, call
<1>1. CASE Fails
  BY <1>1 DEF Fails
<1>2. CASE BeginPublish \/ BeginPush
  BY <1>2 DEF BeginPublish, BeginPush
<1>3. CASE Post
  BY <1>3 DEF Post, Draft, Preview, Request
<1>4. CASE Answered
  <2>1. PICK i \in DOMAIN remote :
           /\ i = Draft.base + 1
           /\ IF job = "publish" THEN first' = Posted(i) /\ UNCHANGED push
                                 ELSE push' = Posted(i) /\ UNCHANGED first
    BY <1>4 DEF Answered, Matches
  <2>2. i \in Nat
    <3>1. remote \in Seq(Revision)
      OBVIOUS
    <3> QED BY <2>1, <3>1, IndexNat
  <2>3. /\ first' \in Preview /\ push' \in Preview
        /\ first'.revision \in {None, first'.base + 1}
        /\ push'.revision \in {None, push'.base + 1}
    BY <2>1, <2>2 DEF Posted, Draft, Preview
  <2> QED BY <1>4, <2>3 DEF Answered
<1>5. CASE Bind
  BY <1>5 DEF Bind, Bound, Accepted, Draft, Preview, Binding
<1>6. CASE BeginPreview
  <2>1. {m.op : m \in sent} \subseteq Nat
    BY DEF Request
  <2> QED BY <1>6, <2>1 DEF BeginPreview
<1>7. CASE SavePreview
  BY <1>7 DEF SavePreview, Preview, Binding
<1>8. ASSUME NEW p \in Proposal, BeginApply(p) PROVE TypeOK'
  BY <1>8 DEF BeginApply
<1>9. ASSUME NEW p \in Proposal, Propose(p) PROVE TypeOK'
  <2>1. Newest \in Nat
    <3>1. remote \in Seq(Revision)
      OBVIOUS
    <3> QED BY <3>1, SeqIndex DEF Newest
  <2> QED BY <1>9, <2>1 DEF Propose
<1>10. CASE Backup
  BY <1>10 DEF Backup
<1>11. CASE Stage
  BY <1>11 DEF Stage
<1>12. CASE Record
  <2>1. [base |-> binding.content, revision |-> binding.revision] \in Journal
    BY DEF Binding, Journal
  <2>2. journal' \in [Proposal -> SUBSET Journal]
    BY <1>12, <2>1 DEF Record
  <2> QED BY <1>12, <2>2 DEF Record
<1>13. CASE Resume \/ LookAgain \/ Confirm \/ SaveReceipt
  BY <1>13 DEF Resume, LookAgain, Confirm, SaveReceipt
<1>14. CASE Rename
  BY <1>14 DEF Rename
<1>15. CASE CleanUp
  BY <1>15 DEF CleanUp
<1>16. ASSUME NEW v \in Content, Edit(v) PROVE TypeOK'
  BY <1>16 DEF Edit
<1>17. ASSUME NEW v \in Content, Collaborate(v) PROVE TypeOK'
  <2>1. [by |-> Others, content |-> v] \in Revision
    BY DEF Revision
  <2>2. remote' \in Seq(Revision)
    <3>1. remote \in Seq(Revision)
      OBVIOUS
    <3> QED BY <1>17, <2>1, <3>1, AppendType DEF Collaborate
  <2> QED BY <1>17, <2>2 DEF Collaborate
<1>18. ASSUME NEW m \in sent, Serve(m) PROVE TypeOK'
  <2>1. [by |-> m.op, content |-> m.content] \in Revision
    BY DEF Revision, Request
  <2>2. remote' \in Seq(Revision)
    <3>1. remote \in Seq(Revision)
      OBVIOUS
    <3> QED BY <1>18, <2>1, <3>1, AppendType DEF Serve
  <2> QED BY <1>18, <2>2 DEF Serve
<1>19. CASE UNCHANGED vars
  BY <1>19 DEF vars
<1> QED BY <1>1, <1>2, <1>3, <1>4, <1>5, <1>6, <1>7, <1>8, <1>9, <1>10, <1>11, <1>12,
           <1>13, <1>14, <1>15, <1>16, <1>17, <1>18, <1>19 DEF Next

-----------------------------------------------------------------------------
(* Requests, revisions and receipts.                                       *)

LEMMA RequestsNext ==
  ASSUME IInv, Next PROVE Requests'
<1> USE DEF Requests, Rest, local, service, history, call
<1>0. /\ TypeOK /\ Requests /\ BindingIsTrue
      /\ push.op \in Nat /\ push.base \in Nat /\ binding.revision \in Nat
      /\ first.op \in Nat /\ first.base \in Nat
      /\ remote \in Seq(Revision) /\ sent \subseteq Request /\ outlived \subseteq Nat
      /\ Newest \in Nat /\ DOMAIN remote = 1 .. Newest
  BY SeqIndex DEF IInv, TypeOK, Preview, Binding, Newest
<1>1. ASSUME UNCHANGED <<first, push, binding, sent, remote, outlived>>,
             at' = "previewing" => at = "previewing"
      PROVE  Requests'
  BY <1>0, <1>1
<1>2. CASE Post
  <2>1. /\ job \in {"publish", "push"} /\ at' # "previewing"
        /\ \/ Draft.op = push.op /\ push.op # 0 /\ Draft.base = push.base
           \/ Draft.op = 0 /\ Draft.base = None
    BY <1>0, <1>2 DEF Post, IInv, Sends, Sending, Draft
  <2>2. /\ sent' = sent \union {[op |-> Draft.op, base |-> Draft.base, content |-> Draft.content]}
        /\ UNCHANGED <<first, push, binding, remote, outlived>>
    BY <1>2 DEF Post
  <2>3. ASSUME NEW m \in sent'
        PROVE  /\ m.op <= push.op
               /\ m.op = 0 => m.base = None
               /\ m.op # 0 => m.base = push.base \/ m.op # push.op
               /\ m.op # 0 => m.op \in outlived \/ m.op = push.op
    <3>1. CASE m \in sent
      BY <1>0, <3>1
    <3>2. CASE m = [op |-> Draft.op, base |-> Draft.base, content |-> Draft.content]
      <4>1. m.op = Draft.op /\ m.base = Draft.base
        BY <3>2
      <4> QED BY <1>0, <2>1, <4>1
    <3> QED BY <2>2, <3>1, <3>2
  <2> QED BY <1>0, <2>1, <2>2, <2>3
<1>3. CASE Answered
  <2>1. /\ first'.op = first.op /\ first'.base = first.base
        /\ push'.op = push.op /\ push'.base = push.base
        /\ UNCHANGED <<binding, sent, remote, outlived>> /\ at' # "previewing"
    BY <1>0, <1>3 DEF Answered, Posted, Draft, TypeOK, Preview
  <2> QED BY <1>0, <2>1
<1>4. CASE Bind
  <2>1. binding'.revision \in Nat /\ binding'.revision >= binding.revision
    BY <1>0, <1>4 DEF Bind, Bound, Accepted, Draft, IInv, Sends, Sending, TypeOK, Preview
  <2>2. UNCHANGED <<first, push, sent, remote, outlived>> /\ at' # "previewing"
    BY <1>4 DEF Bind
  <2> QED BY <1>0, <2>1, <2>2
<1>5. CASE BeginPreview
  <2>1. /\ \A m \in sent : m.op \in outlived'
        /\ UNCHANGED <<first, push, binding, sent, remote>>
    BY <1>5 DEF BeginPreview
  <2> QED BY <1>0, <2>1
<1>6. CASE SavePreview
  <2>1. /\ push'.op = push.op + 1 /\ push'.base = binding.revision
        /\ binding.revision # None /\ at = "previewing"
        /\ UNCHANGED <<first, binding, sent, remote, outlived>> /\ at' # "previewing"
    BY <1>6 DEF SavePreview, IInv, Applications
  <2>2. \A m \in sent : m.op \in Nat
    BY <1>0 DEF Request
  <2>3. ASSUME NEW i \in DOMAIN remote PROVE remote[i].by \in Int
    <3>1. remote[i] \in Revision
      BY <1>0
    <3> QED BY <3>1 DEF Revision
  <2> QED BY <1>0, <2>1, <2>2, <2>3
<1>7. ASSUME NEW v \in Content, Collaborate(v) PROVE Requests'
  <2>1. [by |-> Others, content |-> v] \in Revision
    BY DEF Revision
  <2>2. /\ DOMAIN remote' = 1 .. Newest + 1
        /\ remote'[Newest + 1].by = Others
        /\ \A i \in 1 .. Newest : remote'[i] = remote[i]
    BY <1>0, <1>7, <2>1, AppendType DEF Collaborate, Newest
  <2>3. UNCHANGED <<first, push, binding, sent, outlived, at>>
    BY <1>7 DEF Collaborate
  <2> QED BY <1>0, <2>2, <2>3
<1>8. ASSUME NEW m \in sent, Serve(m) PROVE Requests'
  <2>1. m.op \in Nat /\ m.base \in Nat /\ [by |-> m.op, content |-> m.content] \in Revision
    BY <1>0 DEF Request, Revision
  <2>2. UNCHANGED <<first, push, binding, outlived, at>> /\ sent' \subseteq sent
    BY <1>8 DEF Serve
  <2>3. CASE remote' = remote
    BY <1>0, <2>2, <2>3
  <2>4. CASE remote' # remote
    <3>1. m.base = Newest /\ remote' = Append(remote, [by |-> m.op, content |-> m.content])
      BY <1>8, <2>4 DEF Serve
    <3>2. /\ DOMAIN remote' = 1 .. Newest + 1
          /\ remote'[Newest + 1].by = m.op
          /\ \A i \in 1 .. Newest : remote'[i] = remote[i]
      BY <1>0, <2>1, <3>1, AppendType DEF Newest
    <3>3. /\ m.op <= push.op
          /\ m.op = 0 => Newest = 0
          /\ m.op # 0 /\ m.op = push.op => Newest = push.base
      BY <1>0, <3>1
    <3>4. ASSUME NEW i \in DOMAIN remote'
          PROVE  /\ remote'[i].by <= push.op
                 /\ remote'[i].by = 0 => i = 1
                 /\ remote'[i].by # 0 /\ remote'[i].by = push.op => i = push.base + 1
      <4>1. CASE i \in 1 .. Newest
        BY <1>0, <3>2, <4>1
      <4>2. CASE i = Newest + 1
        BY <3>2, <3>3, <4>2
      <4> QED BY <1>0, <3>2, <4>1, <4>2
    <3>5. /\ first'.op = 0 /\ first'.base = None
          /\ push'.op # 0 => push'.base \in 1 .. binding'.revision
          /\ \A n \in sent' :
               /\ n.op <= push'.op
               /\ n.op = 0 => n.base = None
               /\ n.op # 0 => n.base = push'.base \/ n.op # push'.op
               /\ n.op # 0 => n.op \in outlived' \/ n.op = push'.op
               /\ at' = "previewing" => n.op \in outlived'
      BY <1>0, <2>2
    <3> QED BY <2>2, <3>4, <3>5
  <2> QED BY <2>3, <2>4
<1>9. ASSUME NEW p \in Proposal, BeginApply(p) \/ Propose(p) PROVE Requests'
  <2>1. UNCHANGED <<first, push, binding, sent, remote, outlived>> /\ (at' = "previewing" => at = "previewing")
    BY <1>9 DEF BeginApply, Propose
  <2> QED BY <1>1, <2>1
<1>10. ASSUME NEW v \in Content, Edit(v) PROVE Requests'
  BY <1>1, <1>10 DEF Edit
<1>11. CASE Fails \/ BeginPublish \/ BeginPush \/ Backup \/ Stage \/ Record \/ Resume
            \/ LookAgain \/ Rename \/ Confirm \/ SaveReceipt \/ CleanUp
  <2>1. UNCHANGED <<first, push, binding, sent, remote, outlived>> /\ at' # "previewing"
    BY <1>11 DEF Fails, BeginPublish, BeginPush, Backup, Stage, Record, Resume,
       LookAgain, Rename, Confirm, SaveReceipt, CleanUp
  <2> QED BY <1>1, <2>1
<1> QED BY <1>2, <1>3, <1>4, <1>5, <1>6, <1>7, <1>8, <1>9, <1>10, <1>11 DEF Next

(* What each variable changes by.                                          *)
LEMMA Changes ==
  ASSUME TypeOK, Next
  PROVE  /\ Answered \/ SavePreview \/ UNCHANGED <<first, push>>
         /\ Bind \/ UNCHANGED binding
         /\ Stage \/ CleanUp \/ UNCHANGED staged
         /\ Record \/ CleanUp \/ UNCHANGED journal
         /\ SaveReceipt \/ UNCHANGED receipts
         /\ Backup \/ UNCHANGED backups
         /\ Rename \/ UNCHANGED lost
         /\ BeginPreview \/ UNCHANGED outlived
         /\ (\E v \in Content : Collaborate(v)) \/ (\E m \in sent : Serve(m)) \/ UNCHANGED remote
<1> USE DEF local, service, history
<1>1. CASE Fails \/ BeginPublish \/ BeginPush \/ Post \/ Answered \/ Bind
  BY <1>1 DEF Fails, BeginPublish, BeginPush, Post, Answered, Bind
<1>2. CASE BeginPreview \/ SavePreview \/ Backup \/ Stage \/ Record
  BY <1>2 DEF BeginPreview, SavePreview, Backup, Stage, Record
<1>3. CASE \E p \in Proposal : BeginApply(p) \/ Propose(p)
  BY <1>3 DEF BeginApply, Propose
<1>4. CASE Resume \/ LookAgain \/ Rename \/ Confirm \/ SaveReceipt \/ CleanUp
  BY <1>4 DEF Resume, LookAgain, Rename, Confirm, SaveReceipt, CleanUp
<1>5. CASE \E v \in Content : Edit(v) \/ Collaborate(v)
  BY <1>5 DEF Edit, Collaborate
<1>6. CASE \E m \in sent : Serve(m)
  BY <1>6 DEF Serve
<1> QED BY <1>1, <1>2, <1>3, <1>4, <1>5, <1>6 DEF Next

(* The revisions grow by one at most, at the end.                          *)
LEMMA Grows ==
  ASSUME TypeOK, Next
  PROVE  /\ remote' \in Seq(Revision)
         /\ \A i \in DOMAIN remote : i \in DOMAIN remote' /\ remote'[i] = remote[i]
         /\ \A i \in DOMAIN remote' : i \notin DOMAIN remote =>
              /\ i = Newest + 1
              /\ \/ remote'[i].by = Others
                 \/ \E m \in sent : m.base = Newest /\ remote'[i].by = m.op
<1>1. remote \in Seq(Revision) /\ sent \subseteq Request
  BY DEF TypeOK
<1>2. CASE remote' = remote
  BY <1>1, <1>2
<1>3. ASSUME NEW v \in Content, Collaborate(v)
      PROVE  \E r \in Revision : remote' = Append(remote, r) /\ r.by = Others
  <2>1. [by |-> Others, content |-> v] \in Revision
    BY DEF Revision
  <2> QED BY <1>3, <2>1 DEF Collaborate
<1>4. ASSUME NEW m \in sent, Serve(m), remote' # remote
      PROVE  \E r \in Revision : /\ remote' = Append(remote, r)
                                 /\ r.by = m.op /\ m.base = Newest
  <2>1. [by |-> m.op, content |-> m.content] \in Revision
    BY <1>1 DEF Revision, Request
  <2> QED BY <1>4, <2>1 DEF Serve
<1>5. ASSUME NEW r \in Revision, remote' = Append(remote, r),
             r.by = Others \/ (\E m \in sent : m.base = Newest /\ r.by = m.op)
      PROVE  /\ remote' \in Seq(Revision)
             /\ \A i \in DOMAIN remote : i \in DOMAIN remote' /\ remote'[i] = remote[i]
             /\ \A i \in DOMAIN remote' : i \notin DOMAIN remote =>
                  /\ i = Newest + 1
                  /\ \/ remote'[i].by = Others
                     \/ \E m \in sent : m.base = Newest /\ remote'[i].by = m.op
  BY <1>1, <1>5, AppendType DEF Newest
<1>6. CASE \E v \in Content : Collaborate(v)
  BY <1>3, <1>5, <1>6
<1>7. CASE (\E m \in sent : Serve(m)) /\ remote' # remote
  BY <1>4, <1>5, <1>7
<1> QED BY <1>2, <1>6, <1>7, Changes

(* A binding that moves is the first one, or the successor of the last.    *)
LEMMA BindMoves ==
  ASSUME IInv, Bind
  PROVE  \/ binding' = binding
         \/ /\ binding' = [revision |-> Draft.revision, content |-> Draft.content]
            /\ Draft.revision # None
            /\ \/ Draft = first /\ binding.revision = None /\ binding'.revision = first.base + 1
               \/ /\ Draft = push /\ push.op # 0 /\ NoPending
                  /\ push.base = binding.revision
                  /\ binding'.revision = push.base + 1
<1>1. Draft.revision # None /\ job \in {"publish", "push"}
  BY DEF IInv, Sends, Sending, Bind
<1>2. CASE job = "publish"
  BY <1>1, <1>2 DEF Bind, Bound, Accepted, Draft, IInv, TypeOK
<1>3. CASE job = "push"
  BY <1>1, <1>3 DEF Bind, Bound, Accepted, Draft, IInv, TypeOK, Sends, Sending
<1> QED BY <1>1, <1>2, <1>3

LEMMA ReceiptsNext ==
  ASSUME IInv, Next PROVE Receipts'
<1> USE DEF Receipts
<1>1. TypeOK /\ Receipts
  BY DEF IInv
<1>2. \A i \in DOMAIN remote : i \in DOMAIN remote' /\ remote'[i] = remote[i]
  BY <1>1, Grows
<1>3. CASE UNCHANGED <<first, push>>
  BY <1>1, <1>2, <1>3
<1>4. CASE Answered
  <2>1. PICK i \in DOMAIN remote :
           /\ remote[i].content = Draft.content
           /\ IF job = "publish" THEN first' = Posted(i) /\ UNCHANGED push
                                 ELSE push' = Posted(i) /\ UNCHANGED first
    BY <1>4 DEF Answered, Matches
  <2>2. Posted(i).revision = i /\ Posted(i).content = Draft.content
    BY <1>1 DEF Posted, Draft, TypeOK, Preview
  <2>3. CASE job = "publish"
    BY <1>1, <1>2, <2>1, <2>2, <2>3 DEF Draft
  <2>4. CASE job # "publish"
    BY <1>1, <1>2, <2>1, <2>2, <2>4 DEF Draft
  <2> QED BY <2>3, <2>4
<1>5. CASE SavePreview
  <2>1. push'.revision = None /\ UNCHANGED first
    BY <1>5 DEF SavePreview
  <2> QED BY <1>1, <1>2, <2>1
<1> QED BY <1>1, <1>3, <1>4, <1>5, Changes

LEMMA BindingIsTrueNext ==
  ASSUME IInv, Next PROVE BindingIsTrue'
<1>1. TypeOK /\ BindingIsTrue /\ Receipts
  BY DEF IInv
<1>2. \A i \in DOMAIN remote : i \in DOMAIN remote' /\ remote'[i] = remote[i]
  BY <1>1, Grows
<1>3. CASE binding' = binding
  BY <1>1, <1>2, <1>3 DEF BindingIsTrue
<1>4. CASE Bind
  <2>1. CASE /\ binding' = [revision |-> Draft.revision, content |-> Draft.content]
             /\ Draft.revision # None
             /\ Draft = first \/ Draft = push
    <3>1. /\ Draft.revision \in DOMAIN remote
          /\ remote[Draft.revision].content = Draft.content
      BY <1>1, <2>1 DEF Receipts
    <3> QED BY <1>2, <2>1, <3>1 DEF BindingIsTrue
  <2> QED BY <1>3, <1>4, <2>1, BindMoves
<1> QED BY <1>1, <1>3, <1>4, Changes

-----------------------------------------------------------------------------
(* The operations in progress.                                             *)

LEMMA SendsNext ==
  ASSUME IInv, Next PROVE Sends'
<1> USE DEF Sends, Sending, Rest, local, service, history, call
<1>1. TypeOK /\ Sends
  BY DEF IInv
<1>2. CASE UNCHANGED <<first, push, binding, journal, receipts, at, job>>
  BY <1>1, <1>2 DEF Draft, NoPending, Unfinished
<1>3. CASE at' \notin Sending
  BY <1>3
<1>4. CASE BeginPublish
  <2>1. /\ job' = "publish" /\ UNCHANGED first
        /\ at' = "binding" => first.revision # None
    BY <1>4 DEF BeginPublish
  <2> QED BY <2>1 DEF Draft
<1>5. CASE BeginPush
  <2>1. /\ job' = "push" /\ UNCHANGED <<push, binding, journal, receipts>>
        /\ push.op # 0 /\ push.base = binding.revision /\ binding.revision # None
        /\ NoPending
        /\ at' = "binding" => push.revision # None
    BY <1>5 DEF BeginPush
  <2> QED BY <2>1 DEF Draft, NoPending, Unfinished
<1>6. CASE Post
  <2>1. /\ at = "posting" /\ at' = "awaiting"
        /\ UNCHANGED <<first, push, binding, journal, receipts, job>>
    BY <1>6 DEF Post
  <2> QED BY <1>1, <2>1 DEF Draft, NoPending, Unfinished
<1>7. CASE Answered
  <2>1. PICK i \in DOMAIN remote :
           /\ i = Draft.base + 1
           /\ IF job = "publish" THEN first' = Posted(i) /\ UNCHANGED push
                                 ELSE push' = Posted(i) /\ UNCHANGED first
    BY <1>7 DEF Answered, Matches
  <2>2. /\ at = "awaiting" /\ at' = "binding"
        /\ UNCHANGED <<binding, journal, receipts, job>>
    BY <1>7 DEF Answered
  <2>3. Posted(i) = Draft'
    BY <2>1, <2>2 DEF Draft
  <2>4. Draft.base \in Nat /\ Posted(i).revision = i
    BY <1>1 DEF Posted, Draft, TypeOK, Preview
  <2>5. Draft'.revision # None
    BY <2>1, <2>3, <2>4
  <2>6. push'.op = push.op /\ push'.base = push.base
    BY <1>1, <2>1 DEF Posted, Draft, TypeOK, Preview
  <2> QED BY <1>1, <2>2, <2>5, <2>6 DEF NoPending, Unfinished
<1>8. CASE Fails \/ Bind \/ BeginPreview \/ SavePreview \/ Backup \/ Stage \/ Record \/ Resume
           \/ LookAgain \/ Rename \/ Confirm \/ SaveReceipt \/ CleanUp
  BY <1>3, <1>8 DEF Fails, Bind, BeginPreview, SavePreview, Backup, Stage, Record, Resume,
     LookAgain, Rename, Confirm, SaveReceipt, CleanUp
<1>9. ASSUME NEW p \in Proposal, BeginApply(p) PROVE Sends'
  BY <1>3, <1>9 DEF BeginApply
<1>10. CASE \/ \E p \in Proposal : Propose(p)
            \/ \E v \in Content : Edit(v) \/ Collaborate(v)
            \/ \E m \in sent : Serve(m)
  BY <1>2, <1>10 DEF Propose, Edit, Collaborate, Serve
<1> QED BY <1>4, <1>5, <1>6, <1>7, <1>8, <1>9, <1>10 DEF Next

LEMMA ApplicationsNext ==
  ASSUME IInv, Next PROVE Applications'
<1> USE DEF Applications, Preparing, Applying, Rest, local, service, history, call,
            NoPending, Unfinished
<1>1. TypeOK /\ Applications
  BY DEF IInv
<1>2. CASE UNCHANGED <<source, binding, journal, staged, receipts, backups, at, subject, late>>
  BY <1>1, <1>2
<1>3. CASE Fails \/ BeginPublish \/ BeginPush \/ Post \/ Answered
  BY <1>1, <1>3 DEF Fails, BeginPublish, BeginPush, Post, Answered, TypeOK
<1>4. CASE Bind
  <2>1. binding' = binding \/ binding'.revision # None
    <3>1. [revision |-> Draft.revision, content |-> Draft.content].revision = Draft.revision
      OBVIOUS
    <3> QED BY <1>4, <3>1, BindMoves
  <2>2. UNCHANGED journal /\ at' = "idle"
    BY <1>4 DEF Bind
  <2> QED BY <1>1, <2>1, <2>2
<1>5. CASE BeginPreview \/ SavePreview
  BY <1>1, <1>5 DEF BeginPreview, SavePreview
<1>6. ASSUME NEW p \in Proposal, BeginApply(p) PROVE Applications'
  BY <1>1, <1>6 DEF BeginApply
<1>7. CASE Backup
  BY <1>1, <1>7 DEF Backup
<1>8. CASE Stage
  BY <1>1, <1>8 DEF Stage, TypeOK
<1>9. CASE Record
  <2>1. /\ journal'[subject] # {} /\ UNCHANGED <<binding, receipts, subject>>
        /\ at = "journaling" /\ at' = "resuming"
    BY <1>1, <1>9 DEF Record, TypeOK
  <2> QED BY <1>1, <2>1 DEF TypeOK
<1>10. CASE Resume
  BY <1>1, <1>10 DEF Resume
<1>11. CASE LookAgain
  BY <1>1, <1>11 DEF LookAgain, Untouched
<1>12. CASE Rename \/ Confirm
  BY <1>1, <1>12 DEF Rename, Confirm
<1>13. CASE SaveReceipt
  BY <1>1, <1>13 DEF SaveReceipt
<1>14. CASE CleanUp
  BY <1>1, <1>14 DEF CleanUp, TypeOK
<1>15. ASSUME NEW v \in Content, Edit(v) PROVE Applications'
  BY <1>1, <1>15 DEF Edit
<1>16. CASE \/ \E p \in Proposal : Propose(p)
            \/ \E v \in Content : Collaborate(v)
            \/ \E m \in sent : Serve(m)
  BY <1>2, <1>16 DEF Propose, Collaborate, Serve
<1> QED BY <1>3, <1>4, <1>5, <1>6, <1>7, <1>8, <1>9, <1>10, <1>11, <1>12, <1>13, <1>14,
           <1>15, <1>16 DEF Next

LEMMA PendingNext ==
  ASSUME IInv, Next PROVE PendingStaysResumable'
<1> USE DEF PendingStaysResumable, Unfinished
<1>1. TypeOK /\ PendingStaysResumable /\ Applications
  BY DEF IInv
<1>2. CASE UNCHANGED <<binding, journal, staged, receipts, backups>>
  BY <1>1, <1>2
<1>3. CASE Bind
  <2>1. UNCHANGED <<journal, staged, receipts, backups>>
    BY <1>3 DEF Bind
  <2>2. binding' = binding \/ Unfinished = {}
    BY <1>1, <1>3, BindMoves DEF Applications, NoPending
  <2> QED BY <1>1, <2>1, <2>2
<1>4. CASE Backup
  BY <1>1, <1>4 DEF Backup
<1>5. CASE Stage
  <2>1. Unfinished = {} /\ UNCHANGED <<journal, receipts>>
    BY <1>1, <1>5 DEF Stage, Applications, Preparing, NoPending
  <2> QED BY <2>1
<1>6. CASE Record
  <2>1. /\ Unfinished = {} /\ subject \notin receipts /\ subject \in Proposal
        /\ staged[subject] = {result[subject]} /\ binding.content \in backups
    BY <1>1, <1>6 DEF Record, Applications, Preparing, NoPending, TypeOK
  <2>2. /\ journal'[subject] = {[base |-> binding.content, revision |-> binding.revision]}
        /\ \A p \in Proposal : p # subject => journal'[p] = journal[p]
        /\ UNCHANGED <<binding, staged, receipts, backups>>
    BY <1>1, <1>6 DEF Record, TypeOK
  <2>3. Unfinished' = {subject}
    BY <2>1, <2>2
  <2> QED BY <2>1, <2>2, <2>3
<1>7. CASE SaveReceipt
  <2>1. /\ subject \in Unfinished /\ receipts' = receipts \union {subject}
        /\ UNCHANGED <<binding, journal, staged, backups>>
    BY <1>1, <1>7 DEF SaveReceipt, Applications, Applying
  <2>2. Unfinished' = {}
    BY <1>1, <2>1
  <2> QED BY <2>2
<1>8. CASE CleanUp
  <2>1. /\ subject \in receipts /\ UNCHANGED <<binding, receipts, backups>>
        /\ \A p \in Proposal : p # subject => journal'[p] = journal[p] /\ staged'[p] = staged[p]
    BY <1>1, <1>8 DEF CleanUp, Applications, TypeOK
  <2>2. Unfinished' = Unfinished /\ subject \notin Unfinished
    BY <2>1
  <2> QED BY <1>1, <2>1, <2>2
<1> QED BY <1>1, <1>2, <1>3, <1>4, <1>5, <1>6, <1>7, <1>8, Changes

LEMMA EditsNext ==
  ASSUME IInv, Next PROVE EditsSurvive'
<1>1. TypeOK /\ EditsSurvive /\ PendingStaysResumable /\ Applications
  BY DEF IInv
<1>2. CASE Rename
  <2>1. subject \in Unfinished /\ (late \/ source = binding.content)
    BY <1>1, <1>2 DEF Rename, Applications, Applying
  <2>2. late \/ source \in backups
    BY <1>1, <2>1 DEF PendingStaysResumable
  <2> QED BY <1>1, <1>2, <2>2 DEF Rename, EditsSurvive
<1>3. CASE UNCHANGED lost
  BY <1>1, <1>3 DEF EditsSurvive
<1> QED BY <1>1, <1>2, <1>3, Changes

-----------------------------------------------------------------------------
(* The revisions this file published.                                      *)

LEMMA OrphansNext ==
  ASSUME IInv, Next PROVE Orphans'
<1> USE DEF Orphans, Rest, local, service, history, call
<1>1. TypeOK /\ Orphans /\ Requests
  BY DEF IInv
<1>2. CASE at' # "previewing"
  BY <1>2
<1>3. CASE BeginPreview
  <2>1. remote \in Seq(Revision)
    BY <1>1 DEF TypeOK
  <2>2. DOMAIN remote = 1 .. Newest /\ Newest \in Nat
    BY <2>1, SeqIndex DEF Newest
  <2>3. Newest = binding.revision /\ UNCHANGED <<remote, binding>>
    BY <1>3 DEF BeginPreview, RemoteUnchanged
  <2> QED BY <2>2, <2>3
<1>4. ASSUME UNCHANGED <<at, binding, outlived>> PROVE Orphans'
  <2> SUFFICES ASSUME at = "previewing", NEW i \in DOMAIN remote',
                      i > binding.revision, remote'[i].by # Others
               PROVE  remote'[i].by \in outlived
    BY <1>4
  <2>1. CASE i \in DOMAIN remote
    BY <1>1, <2>1, Grows
  <2>2. CASE i \notin DOMAIN remote
    <3>1. PICK m \in sent : remote'[i].by = m.op
      BY <1>1, <2>2, Grows
    <3> QED BY <1>1, <3>1 DEF Requests
  <2> QED BY <2>1, <2>2
<1>5. ASSUME NEW p \in Proposal, BeginApply(p) PROVE Orphans'
  BY <1>2, <1>5 DEF BeginApply
<1>6. CASE Fails \/ BeginPublish \/ BeginPush \/ Post \/ Answered \/ Bind \/ SavePreview
           \/ Backup \/ Stage \/ Record \/ Resume \/ LookAgain \/ Rename \/ Confirm
           \/ SaveReceipt \/ CleanUp
  BY <1>2, <1>6 DEF Fails, BeginPublish, BeginPush, Post, Answered, Bind, SavePreview,
     Backup, Stage, Record, Resume, LookAgain, Rename, Confirm, SaveReceipt, CleanUp
<1>7. CASE \/ \E p \in Proposal : Propose(p)
           \/ \E v \in Content : Edit(v) \/ Collaborate(v)
           \/ \E m \in sent : Serve(m)
  BY <1>4, <1>7 DEF Propose, Edit, Collaborate, Serve
<1> QED BY <1>3, <1>5, <1>6, <1>7 DEF Next

(* A late revision comes of the publication while nothing is bound, of the *)
(* update previewed on the binding, or of a request that was outlived.     *)
LEMMA OwnRevisionsNext ==
  ASSUME IInv, Next PROVE OwnRevisionsReachable'
<1>1. /\ TypeOK /\ OwnRevisionsReachable /\ Requests /\ BindingIsTrue /\ Orphans /\ Sends
      /\ remote \in Seq(Revision)
      /\ binding.revision \in Nat /\ push.op \in Nat /\ push.base \in Nat
      /\ first.base = None
  BY DEF IInv, TypeOK, Requests, Binding, Preview
<1>2. DOMAIN remote = 1 .. Newest /\ Newest \in Nat
  BY <1>1, SeqIndex DEF Newest
<1>3. CASE Answered
  <2>1. /\ UNCHANGED <<remote, binding, outlived>>
        /\ push'.op = push.op /\ push'.base = push.base
    BY <1>1, <1>3 DEF Answered, Posted, Draft, TypeOK, Preview, service, history
  <2> QED BY <1>1, <2>1 DEF OwnRevisionsReachable
<1>4. CASE SavePreview
  <2>1. at = "previewing" /\ UNCHANGED <<remote, binding, outlived>>
    BY <1>4 DEF SavePreview, service, history
  <2> QED BY <1>1, <2>1 DEF OwnRevisionsReachable, Orphans
<1>5. CASE BeginPreview
  <2>1. outlived \subseteq outlived' /\ UNCHANGED <<remote, binding, push>>
    BY <1>5 DEF BeginPreview, local, service
  <2> QED BY <1>1, <2>1 DEF OwnRevisionsReachable
<1>6. CASE Bind
  <2>1. UNCHANGED <<remote, push, outlived>>
    BY <1>6 DEF Bind, service, history
  <2>2. CASE binding' = binding
    BY <1>1, <2>1, <2>2 DEF OwnRevisionsReachable
  <2>3. CASE binding.revision = None /\ binding'.revision = 1
    <3> SUFFICES ASSUME NEW i \in DOMAIN remote, i > 1, remote[i].by # Others
                 PROVE  remote[i].by \in outlived
      BY <2>1, <2>3 DEF OwnRevisionsReachable
    <3>1. remote[i].by # 0
      BY <1>1 DEF Requests
    <3>2. push.op = 0 \/ push.base # binding.revision
      BY <1>1, <2>3 DEF Requests
    <3> QED BY <1>1, <1>2, <2>3, <3>1, <3>2 DEF OwnRevisionsReachable
  <2>4. CASE /\ push.op # 0 /\ push.base = binding.revision
             /\ binding'.revision = push.base + 1
    <3> SUFFICES ASSUME NEW i \in DOMAIN remote, i > push.base + 1, remote[i].by # Others
                 PROVE  remote[i].by \in outlived
      BY <2>1, <2>4 DEF OwnRevisionsReachable
    <3>1. i \in Nat /\ remote[i].by # 0
      BY <1>1, <1>2 DEF Requests
    <3>2. remote[i].by # push.op
      BY <1>1, <2>4, <3>1 DEF Requests
    <3> QED BY <1>1, <2>4, <3>1, <3>2 DEF OwnRevisionsReachable
  <2> QED BY <1>1, <1>6, <2>2, <2>3, <2>4, BindMoves
<1>7. CASE UNCHANGED <<push, binding, outlived>>
  <2> SUFFICES ASSUME NEW i \in DOMAIN remote', i > binding.revision, remote'[i].by # Others
               PROVE  \/ remote'[i].by = 0 /\ binding.revision = None
                      \/ remote'[i].by = push.op /\ push.base = binding.revision
                      \/ remote'[i].by \in outlived
    BY <1>7 DEF OwnRevisionsReachable
  <2>1. CASE i \in DOMAIN remote
    BY <1>1, <2>1, Grows DEF OwnRevisionsReachable
  <2>2. CASE i \notin DOMAIN remote
    <3>1. PICK m \in sent : m.base = Newest /\ remote'[i].by = m.op
      BY <1>1, <2>2, Grows
    <3>2. binding.revision = None \/ binding.revision <= Newest
      BY <1>1, <1>2 DEF BindingIsTrue
    <3>3. CASE m.op = 0
      <4>1. Newest = 0
        BY <1>1, <3>1, <3>3 DEF Requests
      <4> QED BY <1>1, <3>1, <3>2, <3>3, <4>1
    <3>4. CASE m.op # 0 /\ m.op = push.op
      <4>1. push.base = Newest /\ push.base <= binding.revision
        BY <1>1, <3>1, <3>4 DEF Requests
      <4> QED BY <1>1, <1>2, <3>1, <3>2, <3>4, <4>1
    <3>5. CASE m.op # 0 /\ m.op # push.op
      BY <1>1, <3>1, <3>5 DEF Requests
    <3> QED BY <3>3, <3>4, <3>5
  <2> QED BY <2>1, <2>2
<1> QED BY <1>1, <1>3, <1>4, <1>5, <1>6, <1>7, Changes

-----------------------------------------------------------------------------
LEMMA InitIInv == Init => IInv
<1> SUFFICES ASSUME Init PROVE IInv
  OBVIOUS
<1>1. TypeOK
  <2>1. /\ first \in Preview /\ push \in Preview /\ binding \in Binding
        /\ first.revision = None /\ push.revision = None
    BY DEF Init, Preview, Binding
  <2>2. remote \in Seq(Revision) /\ sent \subseteq Request
    BY DEF Init
  <2>3. /\ journal \in [Proposal -> SUBSET Journal]
        /\ staged \in [Proposal -> SUBSET Content]
        /\ proposed \in [Proposal -> Nat]
    BY DEF Init
  <2> QED BY <2>1, <2>2, <2>3 DEF Init, TypeOK, Place
<1>2. remote = <<>> /\ DOMAIN remote = {}
  BY DEF Init
<1>3. BindingIsTrue /\ EditsSurvive /\ OwnRevisionsReachable
  BY <1>2 DEF Init, BindingIsTrue, EditsSurvive, OwnRevisionsReachable
<1>4. PendingStaysResumable
  BY DEF Init, PendingStaysResumable, Unfinished
<1>5. Requests /\ Receipts
  BY <1>2 DEF Init, Requests, Receipts
<1>6. Sends /\ Applications /\ Orphans
  BY DEF Init, Sends, Sending, Applications, Preparing, Applying, Orphans
<1> QED BY <1>1, <1>3, <1>4, <1>5, <1>6 DEF IInv

LEMMA IInvNext == IInv /\ [Next]_vars => IInv'
<1> SUFFICES ASSUME IInv, [Next]_vars PROVE IInv'
  OBVIOUS
<1>1. CASE Next
  <2>1. TypeOK'
    BY <1>1, TypeNext DEF IInv
  <2> QED BY <1>1, <2>1, RequestsNext, ReceiptsNext, BindingIsTrueNext, SendsNext,
             ApplicationsNext, PendingNext, EditsNext, OrphansNext, OwnRevisionsNext DEF IInv
<1>2. CASE UNCHANGED vars
  BY <1>2 DEF vars, local, service, call, history, IInv, TypeOK, BindingIsTrue,
     PendingStaysResumable, Unfinished, EditsSurvive, OwnRevisionsReachable, Requests,
     Receipts, Sends, Draft, NoPending, Applications, Orphans, Newest
<1> QED BY <1>1, <1>2

(* The inductive invariant holds in every state operations, edits and late *)
(* requests lead to.                                                       *)
THEOREM Invariant == Spec => []IInv
BY InitIInv, IInvNext, PTL DEF Spec

(* The types, receipts that follow their base among them.                  *)
THEOREM TypeCorrect == Spec => []TypeOK
<1>1. IInv => TypeOK
  BY DEF IInv
<1> QED BY Invariant, <1>1, PTL

(* The binding names a revision of the service, whatever was lost.         *)
THEOREM BindingIsTrueHolds == Spec => []BindingIsTrue
<1>1. IInv => BindingIsTrue
  BY DEF IInv
<1> QED BY Invariant, <1>1, PTL

(* The binding never goes back, whatever publishCompanyPreview and         *)
(* pushCompanyBinding are repeated with.                                   *)
THEOREM BindingNeverBackHolds == Spec => BindingNeverBack
<1>1. IInv /\ [Next]_vars => [binding'.revision >= binding.revision]_binding
  <2> SUFFICES ASSUME IInv, Next, binding' # binding
               PROVE  binding'.revision >= binding.revision
    BY DEF vars, local
  <2>1. Bind
    BY Changes DEF IInv
  <2>2. binding.revision \in Nat /\ first.base \in Nat
    BY DEF IInv, TypeOK, Binding, Preview
  <2> QED BY <2>1, <2>2, BindMoves
<1> QED BY Invariant, <1>1, PTL DEF Spec, BindingNeverBack

(* An interrupted application can always be resumed on what it was         *)
(* prepared on, and is the only one.                                       *)
THEOREM PendingStaysResumableHolds == Spec => []PendingStaysResumable
<1>1. IInv => PendingStaysResumable
  BY DEF IInv
<1> QED BY Invariant, <1>1, PTL

(* What an application overwrites is backed up, the last look's window     *)
(* apart.                                                                  *)
THEOREM EditsSurviveHolds == Spec => []EditsSurvive
<1>1. IInv => EditsSurvive
  BY DEF IInv
<1> QED BY Invariant, <1>1, PTL

(* A revision this file published can be bound, requests that outlive      *)
(* their preview apart.                                                    *)
THEOREM OwnRevisionsReachableHolds == Spec => []OwnRevisionsReachable
<1>1. IInv => OwnRevisionsReachable
  BY DEF IInv
<1> QED BY Invariant, <1>1, PTL

=============================================================================
