# Formal model of OpenPlanr's durable state and locks

OpenPlanr is a command-line planner with a governed "Operate" runtime. Several
CLI and MCP processes share one project directory and one home directory and
coordinate only through files: there is no server and no database. What a unit
test hardly reaches in this code is therefore what several processes do to the
same files, in which order, and what a process that dies half-way leaves for
the next one. These modules model that part first.

## 1. Inventory

### 1.1 Parts that keep durable or shared state

| part | state | operations | hard behaviour | what makes it correct |
|---|---|---|---|---|
| Credential writer lock (`packages/artifact/lib/artifact/internal/credential-writer.mts`) | one record file per writer: pid and ticket | announce, scan, reclaim, wait, leave | a scan is not atomic; writers die; pids are reused; deadlines | exclusion, service in ticket order, no record of a live writer is removed, no writer waits for ever |
| Project transaction lock (`packages/cli/src/services/operate/project-transaction-lock.ts`) | one file `.planr/…lock`: pid and nonce | create, read, judge, remove, poll, release | create and write, and compare and remove, are two steps each; crashes; timeouts | exclusion, no call removes another's file, every call ends |
| Operate store: generations, journal, custody, pointer (`packages/cli/src/services/operate/store.ts`) | immutable generation directories, `HEADS.jsonl`, `CUSTODY.json`, `CURRENT` | commit, load, inspect, restore | writes of several files; readers without a lock; crashes between files; torn appends; stale runtimes | one growing history, no lost commit, what is acknowledged stays loadable or restorable, load does not accuse a healthy store |
| Operate store: writer lock (same file) | `LOCK`, `RECOVERY`, archived locks | acquire, recover, archive, release, clear | files are empty when created; read, rename and compare are separate; records expire | exclusion, the next writer is served whatever its predecessors left |
| Operate client and command gateway (`client.ts`, `command-gateway.ts`, `replay-safe-retry-service.ts`, `recovery-service.ts`) | the runtime loaded, a lane of mutations per process | load / transition / commit, retry on conflict, recovery advice | stale generation, stale advice, retries | every commit extends what its caller saw |
| Operate lifecycles (`cycle-`, `assignment-`, `review-…-service.ts`) | Events in the runtime | open, claim, submit, review, close | replayed submissions, expired leases | an accepted submission is applied once |
| Governed execution and rollback (`governed-execution-v2.mjs`, `governed-recovery-v2.mjs`, `reference-governed-executors-v2.mjs` in `packages/operate/lib/operate`) | the durable checkpoint, each runtime's copy of it and proven operations, custody of results, the contained targets | execute, rollback, resume, rebase | compare-and-swap over awaits, lost answers, an effect whose result was never recorded, two runtimes on one operation, approvals withdrawn meanwhile | an action takes effect at most once and while approved, every recorded result is true and never lost |
| Operate kernel, the rest (`packages/operate/lib/operate`) | the reduced state | Event reduction, scheduling, approvals | leases and approvals that expire | one claim per assignment |
| Storage layout and migration (`storage-layout.ts`, `storage-migration-service.ts`) | the layout of the store | staged migration, rollback, inside the project transaction | crashes between moves | the old or the new layout is complete |
| Company locks (`company-auth-store.ts`, `company-sync-service.ts`) | one linked owner file per lock, a claim file per dead owner under recovery | link, judge, claim, recheck, unlink, release | several recoverers of one dead owner; death while recovering | exclusion, only the dead leave files, a call alone is served |
| Company authentication (`company-auth-service.ts`, `company-auth-store.ts`) | a record, one secret per token exchange, a manual token | login, access with recovery and refresh, logout, connecting a manual token, all under the sign-in lock | throws and deaths between a secret and the record that names it; lost answers; secrets that cannot be read or removed | a rotated token is never sent, no honoured token is out of reach, "confirmed" means revoked |
| Company sync (`company-sync-service.ts`) | a bound file, its binding, previews with their receipts, a journal, staged content, backups and receipts of applications | publish, preview an update, push, preview and apply a proposal, resume | deaths between files, edits meanwhile, others publishing, requests that arrive late or never | the binding is true and only advances, an application can always be resumed, edits survive, no publication is forgotten |
| Runtime manager (`runtime-manager-service.ts`) | installed runtimes, backups | install, activate, roll back | crash and failure between steps | an active runtime always exists |
| Ship closure, landing, receipts (`packages/pipeline/lib/pipeline`) | an event log per closure, its lock, receipts | append, reduce, finalize | stale-lock judgement, replays | one terminal outcome |
| Live rooms and workspace clients (`packages/artifact/lib/artifact`) | revisions on a remote service, a local spool | join, push, pull, merge | lost answers, reordered revisions, retries | no local edit is lost, revisions only grow |
| Diagram authoring store | a workspace and its custody lock | edit, save, take over | a lock judged by its age | one author at a time |
| Design daemon, server lifecycle | a pid file, a port | start, discover, stop | two starters, stale pid files | at most one daemon per project |

The remaining parts (protocol schemas, canvas, dashboard, integrations,
skills, evaluation, planning documents, GitHub and Linear commands) are
declarative, presentational or strictly sequential. `PROJECT.json` lists every
part with the reason it is or is not modelled.

### 1.2 How the modelled parts meet

    operate client --load/commit/restore/inspect--> store.ts
    store.commit --> withOperateProjectTransaction   (ProjectTransactionLock)
                 --> acquireLock ... releaseLock      (OperateStoreLock)
                 --> journal, custody, pointer        (OperateStore)
    store.restore, store.clearStaleLock --> acquireLock / acquireRecoveryLock only
    credential backends --> withCredentialWriteLock      (CredentialWriterLock)
    company sign-in, refresh, logout --> CompanyAuthStore.locked (CompanyLock)
        --> record, secrets, issuer           (CompanyAuth)
    company publish, push, apply     --> withBindingLock         (CompanyLock)
        --> file, binding, previews, journal, service (CompanySync)
    execute, rollback --> readCheckpoint, compare-and-swap of a checkpoint store,
                          artifact store, contained host   (GovernedExecution)

`restore` and `clearStaleLock` do not take the project transaction. That is why
the two lock modules are kept apart: for commits alone the transaction lock
makes the calls of the store lock run one at a time (`Serialized`); with a
restore among them it does not. `CompanyAuth` and `CompanySync` run one
operation at a time, which is what `CompanyLock` guarantees and its theorem proves. The governed
runtimes take no lock: their checkpoint store is optimistic, so
`GovernedExecution` interleaves them at every await.

## 2. Modules

| module | models | instances |
|---|---|---|
| `Exclusion` | the abstract promise of the locks | |
| `CredentialWriterLock` | `credential-writer.mts` | `MCCredentialWriterLock` |
| `CredentialWriterLockProofs` | proofs about it | |
| `ProjectTransactionLock` | `project-transaction-lock.ts` | `MCProjectTransactionLock` |
| `ProjectTransactionLockProofs` | proofs about it | |
| `VersionHistory` | the abstract promise of the store | |
| `OperateStore` | commit, load, inspect and restore of `store.ts` | `MCOperateStore` |
| `OperateStoreProofs` | proofs about it | |
| `OperateStoreLock` | acquiring, recovering, archiving and releasing in `store.ts` | `MCOperateStoreLock` |
| `OperateStoreLockProofs` | proofs about it | |
| `CompanyLock` | `CompanyAuthStore.locked` and `withBindingLock` | `MCCompanyLock` |
| `CompanyLockProofs` | proofs about it | |
| `CompanyAuth` | `company-auth-service.ts` with its store | `MCCompanyAuth` |
| `CompanyAuthProofs` | proofs about it | |
| `CompanySync` | publishing, pushing and applying in `company-sync-service.ts` | `MCCompanySync` |
| `CompanySyncProofs` | proofs about it | |
| `OperationLedger` | the abstract promise of governed execution | |
| `GovernedExecution` | execute and rollback of the governed runtimes | `MCGovernedExecution` |
| `GovernedExecutionProofs` | proofs about it | |

A definition whose comment begins with "Mutant of" is not part of the model: it
is a plausible wrong version of the definition below it, kept so that one can
see which property notices it.

### Exclusion

The abstract specification of a lock: `inside` is empty or one call, and a call
enters only when it is empty. The lock modules map it to the calls that run
their action (the project transaction lock and the store lock under the
hypotheses of section 4); in `OperateStore` it is the writers between taking and
releasing `LOCK`. These refinements are proved only; no run states them.

### CredentialWriterLock

One writer is one call of `withCredentialWriteLock`. `record[w]` is its file
(`-1` no file, `0` announced, otherwise the ticket), `pc[w]` the place in the
function, and `unread`, `highest`, `blocked`, `victim` the local state of a
scan: `readdir` and the reads of the listed files are not atomic, so a scan
reads one name per step in any order. Replacing a record is atomic (temporary
file and rename). Reading a record and testing its pid are one step: the
record of a dead writer no longer changes. `Crash` stops every call of a
process; `Respawn` gives its pid to another program, so that a dead writer
looks alive again. Names that are not well-formed records make the code throw
and are outside the model, as are failures of the file system itself.

### ProjectTransactionLock

`lock` is the call whose file has the name, `written` whether its record is in
it. `writeFile(…, 'wx')` is two steps, `Create` and `Write` (which may fail and
leave the file empty); `removeExactLock` is two, `Recheck`/`CheckOwn` and
`Remove`, and the second removes whichever file has the name by then. A waiter
reads, judges the pid, and then polls or reclaims. `DeadlinePasses` makes
`timeoutMs` run out at any moment while a call acquires.

### OperateStore

A generation is a model value that stands for its directory and its integrity
hash; `lineage[g]` is the set of generations that the walk of `assertAnchored`
meets from `g` along `parentGeneration`, empty while `g` is not on disk. The
journal is a sequence of generations; the hash chain is represented by the
index of a record, which determines it because the journal only grows and each
record covers the hash before it. `torn` says that the file ends in part of a
record. Each of `Publish` (rename of the staged directory), `StartAppend`,
`AppendHead`, `Anchor` (custody) and `Point` (pointer) is one durable write;
between any two of them a client may `Crash`, or the write may throw
(`WriteFails`), after which `finally` releases `LOCK`. The checks a commit or a
restore makes of the files are one step together with its beginning, because
`LOCK` excludes other writers; a `load` and an `inspect` take no lock, and each
file they read is a step of its own.

`LOCK` is a single value here: the holder, free, or left by a dead process.
That it excludes is an assumption of this module: the store's writers follow
`Exclusion` (`UsesExclusionHolds`), and `OperateStoreLock` implements `Exclusion`
outside the situations that `ExclusionOutsideTheWindow` names, one of which
`operate_store_lock_race` exhibits. A commit is protected by
`ProjectTransactionLock` as well.

Not represented: damaged bytes, foreign project identities, differing bindings,
replay of Events (all verified by hashes and always matching here), the
contents of a runtime, and power loss of the machine (crashes are of
processes).

### VersionHistory

The abstract specification: a history of selected versions that only grows. A
commit adds a new version on top of the current one; a rewind selects an older
version of the current line. `OperateStore` implements it under the mapping
`history <- journal`, with `line` the lineage of the journaled generations: the
generation directories that a crash left unjournaled do not exist at that
level, and custody, pointer, lock, readers and crashes are stutters.

### OperateStoreLock

`file[f]` is the call whose file has the name `LOCK` or `RECOVERY`, `wrote[f]`
the calls whose record reached their file, `expired[f]` those past `expiresAt`.
`at[c]` is the step a call is at and the file it concerns. Inspecting,
archiving (read, rename, compare) and releasing (read, unlink) are sequences of
steps; a file that is still empty is classified 'invalid', as the code does.
Writing a record may throw (`WriteFails`) with the file still empty or, when the
sync or the close fails, with the record complete; `broken[f]` remembers the
calls this happened to. A call is a writer (commit or restore) or a `clearStaleLock`.

### CompanyLock

The two functions are one algorithm with two ways of meeting a taken lock, so
they are one module, and the first state chooses: `polls` is sign-in (poll for
thirty seconds, cancellable), its negation the binding (refused at once
when the owner lives, or after `MaxAttempts`, 3 in the code and 2 in the runs,
where three other calls can use them up). The first state also chooses whether the
world is `quiet`: calls one after the other and no pid reused, or anything.
`lock` is the call whose owner file has the lock's name;
because the file is written in full before it is linked, a call stands for its
bytes and its nonce. `claims` are the calls after whose nonce a recovery file is
named, `saw[c]` the owner c read. `Judge` (the pid test), `Claim`, `Recheck`,
`Unlink` and `Unclaim` are separate steps, and so are the read and the unlink of
the release. The thirty seconds may run out at any poll. Left out: lock files
that are not what the code wrote (both functions refuse them), and failures of
the file system other than the ones named.

### CompanyAuth

The record on disk is `rec`, a secret of the credential store `stored[x]`, named
for the exchange x it was to hold; a token is named for the exchange that issued
it, and stands for the refresh token and the access tokens that came with it.
`live` and `spent` are the issuer's view. `at` is where the one operation in
progress is: each write of the record, of a secret or of the manual token, and
each call of the issuer is a step, and `Fails` may end the operation before any
of them (a throw and the death of the process leave the same files; what the
issuer did before an answer was lost stays). The issuer may rotate the refresh
token or leave it. At logout a secret may be unreadable, or not removable.
A secret found in one
backend while the other is unreadable is revoked, and the record kept for a retry.
`ours` and `saved` only remember what the properties speak of. Left out:
discovery, the browser callback and `PLANR_COMPANY_TOKEN`, which keep no state.

### CompanySync

One file, one artifact. `source` is the file, `first` and `push` the two previews
on disk with the revision their receipt names, `binding` the accepted revision and
its content; contents stand for their digests and a revision for its place in
`remote`. `journal[p]`, `staged[p]`, `receipts` and `backups` are the files of an
application. An operation is a sequence of places (`at`): each write by
`replaceDurably` is a step, each request is sent in one step and answered in
another, and `Fails` may end the operation before any of them. A look at the file
that decides what happens next is a step of its own or the first of its operation,
so that `Edit` can come between it and what follows. What was sent is served at any
later time (`Serve`), once per operation name, or is never answered; what the
service does is external, modelled from the answers the code accepts. Requests that
only read (the head, the proposals) are part of the step that judges the answer.
`Collaborate` and `Propose` are other members of the project. The layout cannot
change, because a proposal that changes it is refused at preview. `late`, `lost` and
`outlived` only remember what the properties speak of. Left out: the creation of
the artifact before its first revision, resource uploads, referenced design
sources, authored bundles (the authoring store keeps those), pulled copies and the
adoption of diagrams.

### OperationLedger

The abstract specification of governed execution, one status per operation: an
intent before the effect, one operation per Action and one per rollback plan, one
end, `succeeded` only after the effect. An execution may have several plans, and
each of them its rollback; at most one of these takes effect. `GovernedExecution` implements it with
`status[o]` read off the durable log; compare-and-swaps that fail, staging,
rebasing, restarts and the runtimes' own copies are stutters.

### GovernedExecution

A checkpoint is represented by the sequence of its events (`log`), reduced to
those that govern an operation; heads are compared as sequences, which the hash
chain makes equivalent. `cur[h]` and `proven[h]` are the fields `currentState`
and `provenTerminalOperations` of runtime h. JavaScript runs a call without
interruption between two awaits, so an action ends where the code awaits:
reading the checkpoint, the compare-and-swap, staging a result, the host. `base`,
`expect`, `goal` and `tries` are a call's locals: the state the proposal is
built on, the head expected, the event, the attempts. That `base` and `expect`
are taken at different awaits is the code's doing (`GoOn`) and is what
`governed_overlap` is about; `Overlap` says whether several operations may be in
progress in one runtime. The contained target keeps the last operation and the
receipts and answers as `reference-governed-executors-v2.mjs` does; it dies with
the process (`Restart`), the checkpoint and the artifact store do not. Any
answer of the store may be lost whether or not it stored the proposal, any
staging may fail. Withdrawing an approval and planning a rollback are one step
each of other components. `planOf[r]` is the plan that rollback r carries out:
the runtime refuses a second rollback under the same plan (`PlanFree`), not one
under another plan of the same execution, and what keeps that one from taking
effect is the target, which the first has moved on (`Applies`). The command line
gives each call a checkpoint store of its own, in memory, a copy of the snapshot it
loaded (`governed-action-service.ts:1164`); several runtimes over one store are
what the library allows, and the interleavings here are about its contract. Left out: the bytes of results, the identities of
custody, and refusals of malformed requests.

## 3. Runs

| run | cfg | instance | result |
|---|---|---|---|
| `credential_lock` | `CredentialWriterLock.cfg` | 3 calls, 2 pids, tickets to 2, crashes, pid reuse, deadlines, fairness | holds |
| `transaction_lock` | `ProjectTransactionLock.cfg` | 3 calls, 3 pids, crashes, pid reuse, failed writes, fairness | holds |
| `transaction_lock_reclaim` | `ProjectTransactionLockReclaim.cfg` | 3 calls, crashes | `MutualExclusion` violated |
| `operate_store` | `OperateStore.cfg` | 2 clients, 2 generations, 3 records, 2 faults, torn writes | holds |
| `operate_store_advice` | `OperateStoreAdvice.cfg` | 2 clients, 3 generations, 4 records, no fault | `AdvisedRestoreKeepsCommits` violated |
| `operate_store_lock` | `OperateStoreLock.cfg` | 3 calls, one at a time, dying, expiring and failing to write or sync anywhere | holds |
| `operate_store_lock_race` | `OperateStoreLockRace.cfg` | 3 calls at once, nothing expires | `MutualExclusion` violated |
| `company_lock` | `CompanyLock.cfg` | 4 calls, 3 pids, 2 attempts, both functions, crashes, pid reuse | holds |
| `company_auth` | `CompanyAuth.cfg` | 4 token exchanges, throws and deaths anywhere, deadlock checked | holds |
| `company_sync` | `CompanySync.cfg` | 3 contents, 2 proposals, 2 update previews, others publish up to revision 3, deaths, lost and late requests, edits; deadlock checked | holds |
| `governed` | `GovernedExecution.cfg` | 3 calls, 2 execution and 2 recovery runtimes, 2 executions, 3 rollbacks of one of them under 2 plans, 2 attempts, 1 fault | holds |
| `governed_overlap` | `GovernedExecutionOverlap.cfg` | 2 calls, no fault, operations overlap in a runtime | `HistoryOnlyGrows` violated |

Deadlock is checked for `CompanyAuth`, where a logout is always possible, and for
`CompanySync`, where an edit is. In the other modules the calls or the bounded journal come to an end and the system
rightly stops. Fairness is assumed in the two runs named below only; the
properties of the other runs are safety.

### What they show

* **The bakery is right.** `MutualExclusion`, `ServedInOrder` and
  `OnlyOwnerOrDeadUnlinked` hold although scans are not atomic, any process may
  die anywhere, pids are reused and waiters give up. Three calls in two
  processes contain a call that chooses late, a reclaimer and a bystander, and
  two calls of one process that die together; the largest ticket is given and a
  further one is refused.
* **Nobody starves at it.** `EveryCallEnds` holds under weak fairness of each
  call's own steps, which is what the code's scheduling gives: a live process
  runs, and the protected action returns. The deadline is not made to pass, so
  the property does not lean on it. With pid reuse it is false, and the code's
  answer is the deadline; the property therefore assumes `PidsStayDead`.
* **The transaction lock excludes until a call dies half-way**
  (`ExclusionUntilACrash`), whatever processes come and go around it; after
  that every call still ends (`EveryCallEnds`, by the deadline, the holder's end
  or a throw) and never leaves its record behind (`NoRecordLeftBehind`). The
  fairness adds that the clock reaches the deadline. Three calls are a holder
  and two that wait for it; the violation needs no more.
* **The store is one history** (`ImplementsHistory`) across crashes, failed
  writes and torn appends. No client works on a generation that the journal
  does not hold (`WorksOnJournaled`), and from its first anchor on a store whose
  journal is whole can always be restored to its head
  (`HeadStaysRestorable`). Two faults are enough for a fault during the
  recovery from a fault; three records for a commit, a crash and what follows.
* **Readers do not blame commits.** `CorruptionHasCause`: with no fault so far,
  load reports corruption only when some generation was selected twice. Three
  records let two commits or a commit and a rewind finish around the reads of a
  load.
* **The next writer is served, but for one kind of record.** When the calls of
  the store lock run one at a time, a writer obtains `LOCK` wherever the calls
  before it died, threw or expired, with two exceptions (`LoneWriterIsServed`): its
  own write, sync or close throws, or it meets a record whose writer could not sync
  or close it. Such a record is complete, its process lives and `finally` releases
  only what was acquired; so it stays under `LOCK` or `RECOVERY`, is classified
  'live', and refuses every writer until it expires or its process ends. No other
  record outlives a call that did not die (`RecordsLeftAreAccountedFor`).
* **The claim is what the transaction lock lacks.** With crashes and pid reuse
  anywhere, the company locks exclude (`MutualExclusion`) and a call that ends
  alive leaves nothing (`OnlyTheDeadLeaveFiles`). Four calls in three processes
  hold a dead owner, two that recover it, and one that takes the lock between
  them. Calls that come one after the other, wherever the ones before them
  died, are refused only for one reason: a process died while it held the claim
  on the lock (`OnlyClaimsBlock`). Such a claim is final: owner A dies, B claims A's
  lock and dies before it unlinks it; the claim file is named after A and nothing
  asks whether B still runs, so every later call waits its time and is told that
  another operation is still running.

* **A rotated token is not sent again** (`SpentTokenNotReused`). Four exchanges
  hold a login, a refresh that is interrupted anywhere, its recovery and what a
  second refresh or login makes of it. Whatever throws or dies, a token that
  was stored and is honoured is named by the record, so a logout can still revoke
  it (`LiveTokensStayReferenced`); a logout that answers "confirmed" left nothing
  honoured of the sign-in it ended (`ConfirmedIsTrue`); and a manual token that a
  login or logout superseded is never answered again (`ManualNotStale`). What a
  `--local-only` logout deliberately gave up is outside the last two promises about
  the issuer: a later logout may answer "confirmed" while the issuer still honours it.
* **A binding can be trusted** (`BindingIsTrue`, `BindingNeverBack`). A publication
  and two updates, each of which may die anywhere, lose its answer, be repeated after
  the others or reach the service when it is no longer waited for: the binding names
  a revision with the content it says and never an earlier one than before. An
  application that was interrupted between any two of its files is the only one, and
  everything it needs to go on is still there (`PendingStaysResumable`); what it
  overwrites is backed up (`EditsSurvive`), except for an edit that falls between its
  last look at the file and the rename. A revision this file published is bound or
  one repetition away (`OwnRevisionsReachable`), except when its request was given
  up, still on its way, and a new preview begun: nothing binds such a revision any
  more. Three contents are the base, the result of a proposal and an edit that is
  neither; one more proposal is needed for a second application to meet the first;
  two previews for an operation that outlives its own. `MCInit` starts from the
  content that no proposal results in; every other may be published from there.
* **The checkpoint is a ledger** (`ImplementsLedger`). Two runtimes may work on
  the same execution, on two executions of one Action or of one target, or one
  may execute while a recovery runtime rolls back, or two of them may roll back the
  same execution, under one plan or under two; an answer is lost, a staging
  fails or the process restarts anywhere. No event that became durable is lost
  (`HistoryOnlyGrows`), no intent follows the withdrawal of its approval
  although the preflight judged an older snapshot (`IntentsAuthorised`), a call
  answers only what is durable (`AnswersAreDurable`), results have their bytes
  (`RecordedInCustody`), a proven effect is never turned into a doubt
  (`ProvenNeverDoubted`), and an effect that was rolled back does not come back by
  a dispatch repeated late (`RollbackHolds`). `MaxRebase` and `MaxDoubt` are 2
  where the code has 16 and 3: with three calls no more events than that can win
  against one call's attempts, and the limit itself is reached. One fault at each
  place is enough for every recovery path; a second would repeat one. The first
  call is for e1 in x1 and pairs of jobs that only swap names are left out
  (`MCInit`), which loses no behaviour; executions that share neither Action nor
  target are tried with a repetition of the first only. A plan is made only where some
  call carries it out (`MCNext`). One Action has a revocable approval.

### Where the code and its own words disagree

* `transaction_lock_reclaim`. Waiters A and B read the record of a dead holder
  and judge it dead. A compares, removes and creates its own file; B, which had
  compared before, now removes A's file and creates its own: both run. The
  comment on the function says it serializes every project-local writer.
* `operate_store_lock_race`. Writer A has created `RECOVERY` or `LOCK` and not
  yet written it; B reads it empty, calls it invalid and archives it. No crash
  is involved. A commit is protected from another commit by the project
  transaction, but `restore` and `clearStaleLock` do not take it.
* `operate_store_advice`. `inspect` reads the journal, the pointer and custody
  one after the other without `LOCK`, and sees a commit half-done; the
  restore it advises is accepted any time later and then takes newer commits
  off the line of the head.
* `governed_overlap`. Execution A has taken effect and stages its result;
  execution B of the same runtime records its intent meanwhile and advances
  `currentState`. A's proposal was built before, but the head it expects is read
  after the staging: the compare-and-swap succeeds and the checkpoint no longer
  holds B's intent. The documentation says that the runtime rebases. The command
  line makes one call per runtime, where this cannot happen; `governed` and the
  theorems assume that.

## 4. Proofs

TLC checks the instances of section 3; the theorems below hold for every set of
calls, processes, sessions and generations and for every bound. Each rests only
on the named assumptions of the module it is about and the hypotheses it states.
All were checked first with TLC on the instances of the runs, the inductive
invariants included.

Where a run shows that a part fails, a theorem says how far it holds:
`ExclusionUntilACrashHolds` and `ExclusionWithOneUnlinker`
(`transaction_lock_reclaim`), `ExclusionOutsideTheWindow`
(`operate_store_lock_race`), and the theorems with `~Overlap`
(`governed_overlap`). The hypotheses of `ExclusionWithOneUnlinker` and
`ExclusionOutsideTheWindow` name the window of the code that the counterexample
goes through and, for the store lock, records that expire under their writer;
crashes, throws and every other interleaving are covered.

### The credential writer lock excludes (`CredentialWriterLockProofs`)

`MutualExclusion` is not inductive: two calls that hold the lock exclude each
other because of what each read of the other some time ago. `IInv` adds that
history. `LivenessKnown`: a call that runs has a live process and only a dead
call is being reclaimed, so no step removes a live call's record. `RecordAgrees`:
the record of a call that runs says where it is, its ticket included.
`ReadImpliesBehind` is the heart: if a waiting call w has read v and was not
blocked, then v, if it waits or holds, has a later place, and if v is still
choosing it either has w left to read or has already counted a ticket as large
as w's - whatever ticket it takes is larger. Two holders would each be behind
the other, which `Earlier` rules out. `ServedInOrder`, `RecordKept` and the action
property `OnlyOwnerOrDeadUnlinked` follow from the same invariant. Crashes, pid reuse, deadlines and the
refusal of tickets are all in the proof. `ImplementsExclusionHolds`: every step is
a step of `Exclusion`, or leaves those inside as they are.

### How far the project transaction excludes (`ProjectTransactionLockProofs`)

After a call has died half-way it does not (`transaction_lock_reclaim`).
`Custody` holds whatever dies: a call has a file only from its creation on and,
once it ended alive, at most an empty one; a holder that was judged dead has
ended. `NoRecordLeftBehind` is part of it. Until a call has crashed, a holder
judged dead has therefore removed its record, the second look of
`removeExactLock` fails, and only the creator of a file removes it
(`HolderKeepsLock`).

After crashes, `ExclusionWithOneUnlinker` says what is left of exclusion:
it holds as long as no two calls are between the comparing and the removing half
of `removeExactLock` for a dead holder (`OneUnlinker`). The invariant is
`UnlinksWhatItSaw`: a call inside has its record in the file, and a call about to
remove a dead holder's record still has that record before it. Only another
unlinker could take it away, and only then does a new call's file appear under
the name. So the hypothesis is the window of the run's counterexample and nothing
more: creating and writing the file, which are also two steps, need no condition,
because an unreadable file makes the others throw.

### The store is one history (`OperateStoreProofs`)

Here crashes, failed writes and torn appends are included. The invariant:
`WriterHoldsLock` (one writer at a time), `LinesAreJournaled` (a generation is on
its own line; a journaled line is journaled whole), `AnchorIsJournaled` (the
anchor is the last record or the last but one, the pointer names a journaled
generation) and `GoalExtendsHead`: the generation a writer is about to journal
is either new, with the head's line below it, or on the head's line - and this
survives until the append although the decision was made at `Publish` or
`SelectRestore`, because no other writer moves the head in between. From it follow
`WorksOnJournaled`, `HeadStaysRestorable` and the refinement
`ImplementsHistory`: `AppendHead` is a `Commit` or a `Rewind` of
`VersionHistory`, every other step a stutter; `Publish` too, for a generation
that is not journaled has no line at that level.

Three results follow from the refinement alone (`LinesOfHistory` is an invariant
of `VersionHistory`). `LinesAreChains`: the ancestry of a journaled generation is a
chain of journaled generations, so that the walk of `assertAnchored`
(`store.ts:1403`) meets each of them once and its guard against cycles never
fires; it also justifies modelling the walk by the set `lineage[g]`.
`JournalOnlyGrows`: no step removes or changes a record of the journal or the
ancestry of a journaled generation, which is what lets the model take a record's
index for its hash. `AcknowledgedIsKept`: a generation that a commit returned or a
load showed stays in the journal for good.

`CorruptionHasCause` needs a second invariant, about readers, which hold no lock.
Suppose no crash, no failed write and no rewind so far (`Undisturbed`). Then the
files are what the one writer's position says (`FilesFollowTheWriter`), and what a
reader holds is a fact about the past that stays true (`SeesThePast`): the pointer
it read was the pointer once (`WasPointer`), and since a pointer is never taken
back, one that has changed is gone (`Gone`) and one whose commit has been overtaken
is passed (`Passed`). A failed read that is then found quiet was made while its
pointer had been replaced or its writer was at work, so it is not quiet; two
quiet failures in succession cannot happen, and load does not report corruption.
A rewind breaks exactly this: the pointer returns to an old value.

`UsesExclusionHolds` connects the store to its lock (see `Exclusion`).

### The company locks exclude (`CompanyLockProofs`)

Crashes, pid reuse and both ways of waiting are included. The invariant says
that a call inside has the lock's name; that an owner that was read had been
inside, and one judged dead has ended, which a reused pid cannot undo; that a
claim has one holder; and `UnlinksWhatItSaw`: a call about to unlink still has
the dead owner's file before it, because a dead owner does not release and no
other call can hold the claim on it. `ProjectTransactionLock` has no counterpart
of the last part, which is why its theorem stops at the first crash. For
`OnlyClaimsBlock`, `QuietInv` adds what holds when calls come one after the
other: the lock a call read is the one it meets, and a call is put off only by
a claim on the lock, which nobody is left to remove. `ImplementsExclusionHolds`
is what `CompanyAuth` and `CompanySync` rest on when they run one operation at a
time.

### The next writer is served (`OperateStoreLockProofs`)

`TypeInv`, with the bound of two attempts at `RECOVERY`, holds however calls
overlap. When they run one at a time, `AloneInv` says at every step of the working
call which of the two files are its own (`Files`), and what it has read of the
file it reclaims (`Progress`). A file found is a dead or an ended call's, and such a
file is reclaimable - its creator is dead, or it never wrote its record - or it is
a live record of a call that could not sync or close it (`Reclaimable`, `broken`).
In the first case the archive's compare succeeds and the second attempt creates
the file; the second is the exception that `LoneWriterIsServed` names.
`RecordsLeftAreAccountedFor` says the same of what is left behind.

When calls overlap, `ExclusionOutsideTheWindow` holds under two hypotheses: no
record has expired under its writer (`NothingExpired`), and no call archives
`RECOVERY` while another has created it and not yet written its record
(`RecoveryWrittenFirst`). The invariant `Apart` says that what a call owns - from
creating `RECOVERY` to letting it go, and the same of `LOCK` - has its name and its
record, and that nobody is archiving it. `LOCK` has the same window between
creating and writing, and the proof shows that it needs no hypothesis: whoever
creates `LOCK` owns `RECOVERY`, which keeps every other call from archiving it.

### Company authentication (`CompanyAuthProofs`)

For any number of exchanges. A step finds the record as the step before it left
it (`Phases`), and the secret that the record is about to name holds the newest
token (`Exchanges`). What is still honoured is then behind a name in the record
or, if its exchange was interrupted, is the pending exchange itself
(`Reachable`), and that is the set a logout goes through (`Leaving`). The four
properties follow from `Invariant`.

### Company sync (`CompanySyncProofs`)

For any contents, proposals and bounds. Three things make the four properties
inductive. `Requests` ties a request, and the revision that comes of it, to the
preview it was sent for: only the revision after the preview's base can come of it,
and while a new preview is being made every request still out is an outlived one.
`Receipts` and `Sends` then say that what is about to be bound is true, and, for an
update, is the successor of the revision bound. `Applications` says that from the
first file of an application to its receipt nothing else is pending, so that
`requireNoPendingApplication` keeps the binding still. `Orphans` is
`OwnRevisionsReachable` between the look at the head and the saving of a preview.

### The checkpoint is a ledger (`GovernedExecutionProofs`)

For any number of calls, runtimes, operations and faults and any limits of
attempts. `TypeCorrect` and `CustodyHolds` hold as they stand; the other theorems
assume `~Overlap`, since with overlap `HistoryOnlyGrows` is false. Each action is
first reduced to what it does, value by value, to its call, its runtime and the
stores (`Move`); the invariants are proved over moves, each on top of the ones
before it. `SyncInv`: what a call is about to commit builds on the head it
expects, which is what makes a successful compare-and-swap extend the log
(`HistoryHolds`). `GrowInv`: what a runtime knows is a prefix of the log.
`PhaseInv`: what a call knows about its operation at each place, for instance that
before the host answers the intent is durable. `FactInv`: what the log says hangs
together (results have intents and effects, a rollback's intent follows the success
of its execution). From these
follow the refinement (`LedgerHolds`), `AuthorisationHolds` and `AnswersHold`.
`ProvenInv` strengthens `ProvenNeverDoubted`: what a runtime has proved is
dispatched in its own state, and a call past its first read that is not recording
a success has not proved its operation. `RollInv` strengthens `RollbackHolds`: once a
rollback took effect, recorded or not, its execution is recorded as succeeded and
the target no longer carries it, and while a call of that execution that does not
know of its success is in progress, the target is not at its first revision, so
that a late dispatch is refused. The same invariant keeps a second rollback of the
execution, under another plan, from taking effect, which is why `LedgerHolds` rests
on it.

From the refinement alone (`LedgerInv` is an invariant of `OperationLedger`)
follow `EffectsAreSingle` - at most one execution of an Action and one rollback of
an execution take effect, however many plans are carried out, a recorded success
did, and only a succeeded execution is rolled back - and `EndsAreFinal`: an operation recorded as succeeded or
uncertain stays so.

### Only model-checked

* Liveness (`EveryCallEnds`, twice): out of the prover's reach.
* The violations, which need an instance only.

## 5. Plan

Done: the modules of section 2, in the order locks, store, store lock, company
locks, governed execution, company authentication, company sync, each with its proofs.

Next, in this order:

| module | models | composes | what it should show |
|---|---|---|---|
| `OperateSession` | `client.ts`, `command-gateway.ts`, `replay-safe-retry-service.ts`, `recovery-service.ts` | an abstract store: `VersionHistory` with conflicts | the lane of one process is serial; a retry after a conflict never applies a command twice |
| `ShipClosure` | persistence, lock and reducer under `packages/pipeline/lib/pipeline/ship-closure` | - | one terminal outcome, no event applied twice, a stale-lock judgement never admits two writers |
| `RuntimeManager` | `runtime-manager-service.ts` | - | an active runtime exists after every crash and every rolled-back activation |
| `StorageMigration` | `storage-migration-service.ts` | exclusion of `ProjectTransactionLock` | the old or the new layout is complete at every step |
| `Assignments` | claims, leases and submissions of the Operate kernel and lifecycles | - | one claim per assignment, an accepted submission applied once |
| `LiveWorkspace` | workspace client and room under `packages/artifact/lib/artifact` | an external service | local edits survive lost and reordered answers; revisions only grow |
| `DiagramCustody`, `DesignDaemon` | lock by age; pid file and port | - | one author; one daemon, or the reason why not |

Abstract specifications worth stating beside them: an at-most-once register for commands, which
`OperateSession` and `OperationLedger` have in common; an atomic replacement (old
or new, never neither) for `RuntimeManager` and `StorageMigration`.

Theorems worth proving, beyond those of section 4: the old-or-new refinements,
which have small inductive invariants, and what still holds of `GovernedExecution`
when operations overlap in a runtime.

### Not modelled

Protocol schemas and registries, generated contracts, skills, agents, fixtures
and integrations are declarative. The dashboard, the canvas, the artifact review
UI and the design studio are presentation over state that other parts keep. The
GitHub and Linear commands call a remote service one command at a time and keep
no state between the calls. Planning documents, identifiers, graph and reports
are text processing. Credential backends and atomic writes are wrappers whose
effect is a step of the modules that use them. Projections and validators of the
Operate kernel (`experience-projection-v2.mjs`, the contract compiler) are pure
functions of the state. Power loss of the machine, as opposed to the death of a
process, is outside every module.
