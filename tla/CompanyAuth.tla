------------------------------ MODULE CompanyAuth ------------------------------
(***************************************************************************)
(* Browser sign-in for a company service: login, accessToken, logout and   *)
(* connectManual of packages/cli/src/services/company-auth-service.ts.     *)
(*                                                                         *)
(* The state is a record on disk, secrets in a credential store under a    *)
(* new name per token exchange, and what the issuer holds.  The operations *)
(* exclude one another (CompanyLock), so one runs at a time, but it may    *)
(* throw, or its process die, between any two writes, and the answer of    *)
(* the issuer or of the credential store may fail to come.                 *)
(*                                                                         *)
(* A token stands for a refresh token and the access tokens that came with *)
(* it, and is named after the exchange that issued it.                     *)
(***************************************************************************)
EXTENDS Integers

CONSTANT MaxExchange   \* bound: the token exchanges

ASSUME BoundAssumption == MaxExchange \in Nat \ {0}

Exchange == 1 .. MaxExchange
None == 0

VARIABLES
  rec,       \* the record: its status, the exchanges whose secrets it names
  stored,    \* stored[x]: the token in the secret named for exchange x
  manual,    \* the manual token in the credential store
  exchanges, \* the exchanges so far
  live,      \* the tokens that the issuer honours
  spent,     \* the tokens that were rotated away
  ours,      \* the tokens issued since the last login or local logout began
  saved,     \* the tokens stored since the last local logout began
  at,        \* where the operation in progress is
  held,      \* the token it has in memory
  drop,      \* the secret it has just replaced
  logout     \* what a logout in progress has found

disk == <<rec, stored, manual>>
issuer == <<exchanges, live, spent>>
history == <<ours, saved>>
vars == <<disk, issuer, history, at, held, drop, logout>>

Token == Exchange
Status == {"absent", "active", "login-pending", "refresh-pending", "reauth-required",
           "logout-pending", "signed-out", "manual"}
Pending == {"login-pending", "refresh-pending"}
NoSession == {"absent", "signed-out", "manual"}
Record == [status : Status, credential : Exchange \union {None},
           pending : Exchange \union {None}, confirmed : BOOLEAN]
Blank(status) == [status |-> status, credential |-> None, pending |-> None,
                  confirmed |-> FALSE]

Logout == [local : BOOLEAN, references : SUBSET Exchange, tokens : SUBSET Token,
           removed : BOOLEAN, uncertain : BOOLEAN, credential : Exchange \union {None},
           answer : {"none", "confirmed", "not-requested", "partially-confirmed",
                     "unknown", "no-session"}]
NoLogout == [local |-> FALSE, references |-> {}, tokens |-> {}, removed |-> TRUE,
             uncertain |-> FALSE, credential |-> None, answer |-> "none"]

Init ==
  /\ rec = Blank("absent")
  /\ stored = [x \in Exchange |-> None]
  /\ manual \in {"none", "current"}
  /\ exchanges = 0
  /\ live = {} /\ spent = {} /\ ours = {} /\ saved = {}
  /\ at = "idle" /\ held = None /\ drop = None
  /\ logout = NoLogout

Rest == at' = "idle" /\ held' = None /\ drop' = None /\ logout' = NoLogout
Stored(x) == x # None /\ stored[x] # None

(* A throw, or the death of the process. *)
Fails ==
  /\ at # "idle"
  /\ Rest
  /\ UNCHANGED <<disk, history, issuer>>

-----------------------------------------------------------------------------
(* Exchanges: the record names the secret to come, the issuer answers, the *)
(* secret is stored, the record names it as the credential.                *)

BeginLogin ==
  /\ at = "idle"
  /\ rec.status \in NoSession
  /\ exchanges < MaxExchange
  /\ exchanges' = exchanges + 1
  /\ rec' = [Blank("login-pending") EXCEPT !.pending = exchanges']
  /\ ours' = {}
  /\ at' = "authorizing"
  /\ UNCHANGED <<stored, manual, live, spent, saved, held, drop, logout>>

Authorize ==
  /\ at = "authorizing"
  /\ live' = live \union {exchanges}
  /\ ours' = ours \union {exchanges}
  /\ held' = exchanges
  /\ at' = "saving"
  /\ UNCHANGED <<disk, exchanges, spent, saved, drop, logout>>

BeginRefresh ==
  /\ at = "read"
  /\ exchanges < MaxExchange
  /\ exchanges' = exchanges + 1
  /\ rec' = [rec EXCEPT !.status = "refresh-pending", !.pending = exchanges']
  /\ at' = "refreshing"
  /\ UNCHANGED <<stored, manual, live, spent, history, held, drop, logout>>

(* The issuer may rotate the refresh token or leave it. *)
Refresh ==
  /\ at = "refreshing"
  /\ held \in live
  /\ \/ /\ held' = exchanges
        /\ live' = (live \ {held}) \union {exchanges}
        /\ spent' = spent \union {held}
        /\ ours' = ours \union {exchanges}
     \/ UNCHANGED <<held, live, spent, ours>>
  /\ at' = "saving"
  /\ UNCHANGED <<disk, exchanges, saved, drop, logout>>

(* The issuer refuses the token, as it must one it no longer honours, or   *)
(* the client.                                                             *)
RefreshRefused ==
  /\ at = "refreshing"
  /\ rec' = [rec EXCEPT !.status = "reauth-required", !.pending = None]
  /\ Rest
  /\ UNCHANGED <<stored, manual, history, issuer>>

Save ==
  /\ at = "saving"
  /\ stored' = [stored EXCEPT ![rec.pending] = held]
  /\ saved' = saved \union {held}
  /\ at' = "saved"
  /\ UNCHANGED <<rec, manual, issuer, ours, held, drop, logout>>

Outdated == IF manual = "current" THEN "stale" ELSE manual
ActivatedPending == [rec EXCEPT !.status = "active", !.credential = rec.pending]
Activated == [rec EXCEPT !.status = "active", !.credential = rec.pending,
                         !.pending = None]

(* A login has verified its access by now; it goes on to clear a manual    *)
(* token, a refresh to remove the secret it replaced.                      *)
Activate ==
  /\ at = "saved"
  /\ rec' = Activated
  /\ manual' = IF rec.status = "login-pending" THEN Outdated ELSE manual
  /\ at' = IF rec.status = "login-pending" THEN "clearing" ELSE "dropping"
  /\ drop' = rec.credential
  /\ UNCHANGED <<stored, history, issuer, held, logout>>

Erase(x) == stored' = IF x = None THEN stored ELSE [stored EXCEPT ![x] = None]

(* Removing a replaced secret is tried once. *)
Drop ==
  /\ at \in {"dropping", "dropping recovered"}
  /\ \/ Erase(drop)
     \/ UNCHANGED stored
  /\ drop' = None
  /\ at' = IF at = "dropping" THEN "idle" ELSE "reading"
  /\ held' = None
  /\ UNCHANGED <<rec, manual, history, issuer, logout>>

-----------------------------------------------------------------------------
(* accessToken.                                                            *)

BeginAccessUnrecovered ==
  /\ at = "idle"
  /\ rec.status = "active" \/ rec.status \in Pending
  /\ at' = "reading"
  /\ UNCHANGED <<disk, history, issuer, held, drop, logout>>
BeginAccess ==
  /\ at = "idle"
  /\ rec.status = "active" \/ rec.status \in Pending
  /\ at' = IF rec.status = "active" THEN "reading" ELSE "recovering"
  /\ UNCHANGED <<disk, history, issuer, held, drop, logout>>

(* An exchange was interrupted.  Only the secret it was to store counts;   *)
(* a login's must still be accepted.                                       *)
Recover ==
  /\ at = "recovering"
  /\ Stored(rec.pending)
  /\ rec' = Activated
  /\ manual' = IF rec.status = "login-pending" THEN Outdated ELSE manual
  /\ drop' = rec.credential
  /\ at' = "dropping recovered"
  /\ UNCHANGED <<stored, history, issuer, held, logout>>

(* The token is answered if it is fresh, else it is about to be renewed. *)
ReadTokens ==
  /\ at = "reading"
  /\ Stored(rec.credential)
  /\ \/ Rest
     \/ /\ held' = stored[rec.credential]
        /\ at' = "read"
        /\ UNCHANGED <<drop, logout>>
  /\ UNCHANGED <<disk, history, issuer>>

-----------------------------------------------------------------------------
(* logout.                                                                 *)

BeginLogout(local) ==
  /\ at = "idle"
  /\ logout' = [NoLogout EXCEPT !.local = local,
                 !.answer = IF rec.status \in NoSession THEN "no-session"
                            ELSE IF local THEN "not-requested" ELSE @]
  /\ IF rec.status \in NoSession
     THEN at' = "signing out" /\ UNCHANGED rec
     ELSE at' = "collecting" /\ rec' = [rec EXCEPT !.status = "logout-pending"]
  /\ IF local THEN ours' = {} /\ saved' = {} ELSE UNCHANGED history
  /\ UNCHANGED <<stored, manual, issuer, held, drop>>

(* The secret of an interrupted exchange may be there, be missing, or be   *)
(* in a backend that cannot be read.  It may also be found in one backend  *)
(* while the other cannot be read (~readable), as a local logout may fail  *)
(* to read any secret it knows.  What was not read is kept for a retry.    *)
UncertainAfterLogin(found) == rec.pending # None /\ rec.credential = None /\ ~found
Uncertain(found) == rec.pending # None /\ ~found

CompleteIfReadable(read, readable) == readable
Complete(read, readable) == readable /\ (read \/ rec.pending = None)

Readable(references) ==
  \/ logout.local \/ rec.confirmed
  \/ \A x \in references : Stored(x)

Collect ==
  /\ at = "collecting"
  /\ \E read, readable \in BOOLEAN :
       LET found == Stored(rec.pending) /\ read
           references == ({rec.credential} \ {None})
                           \union (IF found THEN {rec.pending} ELSE {}) IN
       /\ readable \/ logout.local \/ rec.pending # None
       /\ Readable(references)
       /\ logout' = [logout EXCEPT
            !.references = references,
            !.tokens = {stored[x] : x \in references} \ {None},
            !.uncertain = Uncertain(found),
            !.removed = Complete(read, readable),
            !.credential = rec.credential]
  /\ at' = IF logout.local THEN "removing" ELSE "revoking"
  /\ UNCHANGED <<disk, history, issuer, held, drop>>

Revoke(t) ==
  /\ at = "revoking"
  /\ t \in logout.tokens \intersect live
  /\ live' = live \ {t}
  /\ UNCHANGED <<disk, history, exchanges, spent, at, held, drop, logout>>

Verdict ==
  IF logout.uncertain THEN IF logout.tokens # {} THEN "partially-confirmed" ELSE "unknown"
  ELSE IF logout.tokens # {} \/ rec.confirmed THEN "confirmed" ELSE "no-session"

Revoked ==
  /\ at = "revoking"
  /\ logout.tokens \intersect live = {}
  /\ rec' = [rec EXCEPT !.confirmed = ~logout.uncertain /\ logout.removed]
  /\ logout' = [logout EXCEPT !.answer = Verdict]
  /\ at' = "removing"
  /\ UNCHANGED <<stored, manual, history, issuer, held, drop>>

(* A secret that could not be removed leaves the record as it is for a     *)
(* retry, except that it names the credential only while it is there.      *)
Remove(x) ==
  /\ at = "removing"
  /\ x \in logout.references
  /\ \E deleted \in BOOLEAN :
       /\ IF deleted THEN Erase(x) ELSE UNCHANGED stored
       /\ logout' = [logout EXCEPT
            !.references = @ \ {x},
            !.credential = IF deleted /\ x = @ THEN None ELSE @,
            !.removed = @ /\ deleted]
  /\ UNCHANGED <<rec, manual, history, issuer, at, held, drop>>

Removed ==
  /\ at = "removing"
  /\ logout.references = {}
  /\ IF logout.removed
     THEN at' = "signing out" /\ UNCHANGED rec
     ELSE at' = "clearing" /\ rec' = [rec EXCEPT !.credential = logout.credential]
  /\ UNCHANGED <<stored, manual, history, issuer, held, drop, logout>>

SignOut ==
  /\ at = "signing out"
  /\ rec' = Blank("signed-out")
  /\ manual' = Outdated
  /\ at' = "clearing"
  /\ UNCHANGED <<stored, history, issuer, held, drop, logout>>

ClearManual ==
  /\ at = "clearing"
  /\ manual' = "none"
  /\ Rest
  /\ UNCHANGED <<rec, stored, history, issuer>>

-----------------------------------------------------------------------------
(* connectManual: the token is stored before the record selects it.        *)

BeginManualByRecord ==
  /\ at = "idle"
  /\ rec.status \in NoSession
  /\ rec' = Blank("manual")
  /\ at' = "saving manual"
  /\ UNCHANGED <<stored, manual, history, issuer, held, drop, logout>>
BeginManual ==
  /\ at = "idle"
  /\ rec.status \in NoSession
  /\ at' = "saving manual"
  /\ UNCHANGED <<disk, history, issuer, held, drop, logout>>

SaveManual ==
  /\ at = "saving manual"
  /\ manual' = "current"
  /\ at' = "selecting manual"
  /\ UNCHANGED <<rec, stored, history, issuer, held, drop, logout>>

SelectManual ==
  /\ at = "selecting manual"
  /\ rec' = Blank("manual")
  /\ Rest
  /\ UNCHANGED <<stored, manual, history, issuer>>

Next ==
  \/ Fails
  \/ BeginLogin \/ Authorize \/ BeginRefresh \/ Refresh \/ RefreshRefused
  \/ Save \/ Activate \/ Drop
  \/ BeginAccess \/ Recover \/ ReadTokens
  \/ \E local \in BOOLEAN : BeginLogout(local)
  \/ Collect \/ Revoked \/ Removed \/ SignOut \/ ClearManual
  \/ \E x \in Exchange : Revoke(x) \/ Remove(x)
  \/ BeginManual \/ SaveManual \/ SelectManual

Spec == Init /\ [][Next]_vars

-----------------------------------------------------------------------------
(* The types; the record names a credential exactly while it is active or  *)
(* waits for renewal or logout, and an exchange to come while it is        *)
(* pending.                                                                *)
TypeOK ==
  /\ rec \in Record
  /\ rec.status = "active" => rec.credential # None /\ rec.pending = None
  /\ rec.status = "refresh-pending" => rec.credential # None /\ rec.pending = exchanges
  /\ rec.status = "login-pending" => rec.credential = None /\ rec.pending = exchanges
  /\ rec.status \in NoSession => rec = Blank(rec.status)
  /\ rec.confirmed => rec.status = "logout-pending"
  /\ stored \in [Exchange -> Token \union {None}]
  /\ \A x \in Exchange : x > exchanges => stored[x] = None
  /\ manual \in {"none", "current", "stale"}
  /\ exchanges \in 0 .. MaxExchange
  /\ live \subseteq 1 .. exchanges /\ spent \subseteq 1 .. exchanges
  /\ ours \subseteq 1 .. exchanges /\ saved \subseteq 1 .. exchanges
  /\ at \in {"idle", "authorizing", "saving", "saved", "clearing", "recovering",
             "dropping", "dropping recovered", "reading", "read", "refreshing",
             "collecting", "revoking", "removing", "signing out", "saving manual",
             "selecting manual"}
  /\ held \in 0 .. exchanges /\ drop \in 0 .. exchanges
  /\ logout \in Logout

(* A refresh token that was rotated away is never sent again: an exchange  *)
(* whose answer was not stored leaves the old secret in place, and only    *)
(* the pending name tells that it is spent.                                *)
SpentTokenNotReused == at = "refreshing" => held \notin spent

(* A logout that answers "confirmed" leaves no token of this sign-in       *)
(* honoured, those of interrupted exchanges included, but for the tokens   *)
(* that a local logout gave up before.                                     *)
ConfirmedIsTrue == logout.answer = "confirmed" => live \intersect ours = {}

(* The secret of a token that the issuer honours stays within reach of a   *)
(* logout, unless a local logout gave it up: tokens are revoked before     *)
(* they are removed, and renewed before they are replaced.                 *)
LiveTokensStayReferenced ==
  \A t \in saved \intersect live :
    \E x \in {rec.credential, rec.pending} \ {None} : stored[x] = t

(* accessToken answers the manual token when there is no record or the     *)
(* record selects it: never one that a login or logout has superseded.     *)
ManualNotStale == rec.status \in {"absent", "manual"} => manual # "stale"

=============================================================================
