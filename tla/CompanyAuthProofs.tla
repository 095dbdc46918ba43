--------------------------- MODULE CompanyAuthProofs ---------------------------
(***************************************************************************)
(* The safety properties of CompanyAuth, for any number of exchanges.      *)
(*                                                                         *)
(* The argument: a step of an operation finds the record as the step       *)
(* before it left it (Phases), and the secret that the record is about to  *)
(* name always holds the newest token there is (Exchanges).  Whatever is   *)
(* still honoured is then behind a name in the record or, if its exchange  *)
(* was interrupted, is the pending exchange itself (Reachable), which is   *)
(* what a logout goes through (Leaving).                                   *)
(***************************************************************************)
EXTENDS CompanyAuth, TLAPS

(* The secrets the record names. *)
Named == {rec.credential, rec.pending} \ {None}

Bounds ==
  /\ rec.credential \in 0 .. exchanges
  /\ rec.pending \in 0 .. exchanges
  /\ rec.pending # None => rec.credential # rec.pending
  /\ rec.status \in Pending => rec.pending # None

(* What each step finds of the record. *)
Phases ==
  /\ at = "authorizing" => rec.status = "login-pending"
  /\ at = "refreshing" => rec.status = "refresh-pending"
  /\ at \in {"saving", "saved", "recovering"} => rec.status \in Pending
  /\ at \in {"dropping", "dropping recovered"} =>
       rec.status = "active" /\ drop # rec.credential
  /\ at \in {"reading", "read"} => rec.status = "active"
  /\ at \in {"collecting", "revoking", "removing"} => rec.status = "logout-pending"
  /\ at = "clearing" => rec.status \in {"active", "signed-out", "logout-pending"}
  /\ at \in {"saving manual", "selecting manual"} => rec.status \in NoSession
  /\ at = "selecting manual" => manual = "current"

(* Tokens in memory and in the secrets are the newest there are. *)
Exchanges ==
  /\ \A x \in Exchange : stored[x] \in 0 .. exchanges
  /\ at \in {"authorizing", "refreshing"} =>
       stored[exchanges] = None /\ exchanges \notin live \union spent \union saved
  /\ at \in {"read", "refreshing"} => held = stored[rec.credential] /\ held # None
  /\ at \in {"refreshing", "saving"} => held \notin spent
  /\ at = "saving" =>
       /\ held # None /\ stored[exchanges] = None
       /\ exchanges \in live => held = exchanges
       /\ rec.credential # None /\ stored[rec.credential] \in live =>
            stored[rec.credential] = held
  /\ at = "saved" => stored[rec.pending] # None
  /\ rec.status = "active" => stored[rec.credential] \notin spent
  /\ rec.status \in Pending /\ stored[rec.pending] # None =>
       /\ stored[rec.pending] \notin spent
       /\ rec.pending \in live => stored[rec.pending] = rec.pending
       /\ rec.credential # None /\ stored[rec.credential] \in live =>
            stored[rec.credential] = stored[rec.pending]

(* A token of this sign-in that is honoured but was never stored is the    *)
(* one that the pending exchange issued.                                   *)
Reachable ==
  /\ rec.status \notin NoSession =>
       \A t \in ours \intersect live :
         t \in saved \/ (t = rec.pending /\ stored[t] = None)
                     \/ (t = rec.pending /\ at = "saving")
  /\ rec.confirmed => live \intersect ours = {}

(* A remote logout has the token of every named secret that it read; what  *)
(* it could not read it keeps.                                             *)
Leaving ==
  /\ at = "revoking" =>
       /\ ~logout.local
       /\ rec.credential # None /\ stored[rec.credential] # None =>
            stored[rec.credential] \in logout.tokens
       /\ \/ rec.pending = None
          \/ stored[rec.pending] # None /\ stored[rec.pending] \in logout.tokens
          \/ /\ logout.uncertain /\ rec.pending \notin logout.references
             /\ stored[rec.pending] = None \/ ~logout.removed
  /\ at = "removing" =>
       \A t \in saved \intersect live :
         /\ ~logout.removed
         /\ rec.pending # None /\ rec.pending \notin logout.references
         /\ stored[rec.pending] = t
  /\ at = "signing out" => saved \intersect live = {}
  /\ logout.answer = "confirmed" => at \in {"removing", "signing out", "clearing"}
  /\ at = "revoking" => logout.credential = rec.credential
  /\ at = "removing" => logout.credential \in {rec.credential, None}
  /\ logout.local =>
       saved = {} /\ at \in {"collecting", "removing", "signing out", "clearing"}

(* LiveTokensStayReferenced without its quantifier over the names. *)
Referenced ==
  \A t \in saved \intersect live :
    \/ rec.credential # None /\ stored[rec.credential] = t
    \/ rec.pending # None /\ stored[rec.pending] = t

IInv == /\ TypeOK /\ Bounds /\ Phases /\ Exchanges /\ Reachable /\ Leaving
        /\ Referenced /\ ConfirmedIsTrue /\ ManualNotStale

(* TypeOK in three parts. *)
RecordOK ==
  /\ rec \in Record
  /\ rec.status = "active" => rec.credential # None /\ rec.pending = None
  /\ rec.status = "refresh-pending" => rec.credential # None /\ rec.pending = exchanges
  /\ rec.status = "login-pending" => rec.credential = None /\ rec.pending = exchanges
  /\ rec.status \in NoSession => rec = Blank(rec.status)
  /\ rec.confirmed => rec.status = "logout-pending"
LogoutOK == logout \in Logout
RestOK ==
  /\ stored \in [Exchange -> Token \union {None}]
  /\ \A x \in Exchange : x > exchanges => stored[x] = None
  /\ manual \in {"none", "current", "stale"}
  /\ exchanges \in 0 .. MaxExchange
  /\ live \subseteq 1 .. exchanges /\ spent \subseteq 1 .. exchanges
  /\ ours \subseteq 1 .. exchanges /\ saved \subseteq 1 .. exchanges
  /\ held \in 0 .. exchanges /\ drop \in 0 .. exchanges
PlaceOK ==
  at \in {"idle", "authorizing", "saving", "saved", "clearing", "recovering",
          "dropping", "dropping recovered", "reading", "read", "refreshing",
          "collecting", "revoking", "removing", "signing out", "saving manual",
          "selecting manual"}

USE BoundAssumption DEF Status, Pending, NoSession, Exchange, Token, None,
    disk, issuer, history

LEMMA TypeParts == TypeOK <=> RecordOK /\ LogoutOK /\ RestOK /\ PlaceOK
BY DEF TypeOK, RecordOK, LogoutOK, RestOK, PlaceOK, Blank, Record, Logout

LEMMA NoLogoutOK == NoLogout \in Logout
BY DEF NoLogout, Logout

LEMMA NoSessionNamesNothing ==
  ASSUME RecordOK, rec.status \in NoSession
  PROVE rec.credential = None /\ rec.pending = None
<1>1. rec = Blank(rec.status)
  BY DEF RecordOK
<1>2. Blank(rec.status).credential = None /\ Blank(rec.status).pending = None
  BY DEF Blank
<1> QED BY <1>1, <1>2

LEMMA ReferencedIsEnough == Referenced <=> LiveTokensStayReferenced
BY DEF Referenced, LiveTokensStayReferenced

LEMMA TypePartsNext == TypeOK' <=> RecordOK' /\ LogoutOK' /\ RestOK' /\ PlaceOK'
BY DEF TypeOK, RecordOK, LogoutOK, RestOK, PlaceOK, Blank, Record, Logout

LEMMA FailsKeeps == ASSUME IInv, Fails PROVE IInv'
<1>0. RecordOK /\ LogoutOK /\ RestOK /\ PlaceOK /\ Bounds /\ Phases
  BY TypeParts DEF IInv
<1>l. ~logout'.local /\ logout'.answer = "none"
  BY <1>0 DEF RecordOK, Record, LogoutOK, Logout, NoLogout, Fails, Rest
<1>1. RecordOK'
  BY <1>0 DEF RecordOK, RestOK, Bounds, Phases, Record, Blank, Fails, Rest
<1>2. LogoutOK'
  BY <1>0, NoLogoutOK DEF LogoutOK, Fails, Rest
<1>3. PlaceOK'
  BY <1>0 DEF PlaceOK, Fails, Rest
<1>4. RestOK'
  BY <1>0 DEF RestOK, Fails, Rest
<1>5. Bounds'
  BY <1>0, <1>4 DEF Fails, Rest, Bounds, RestOK
<1>6. Phases'
  BY <1>0 DEF RecordOK, Blank, Bounds, Phases, Fails, Rest
<1>7. Exchanges'
  BY <1>0 DEF IInv, RecordOK, RestOK, Bounds, Phases, Exchanges, Fails, Rest
<1>8. Reachable'
  BY <1>0 DEF IInv, RecordOK, RestOK, Bounds, Phases, Exchanges, Reachable,
     Fails, Rest
<1>9. Leaving'
  BY <1>0, <1>l DEF IInv, RestOK, Bounds, Phases, Leaving, Referenced, Fails, Rest
<1>10. ConfirmedIsTrue'
  BY <1>0, <1>l DEF IInv, RestOK, Leaving, ConfirmedIsTrue, Fails, Rest
<1>11. Referenced'
  BY <1>0 DEF IInv, RecordOK, RestOK, Bounds, Phases, Exchanges, Leaving,
     Referenced, Blank, Fails, Rest
<1>12. ManualNotStale'
  BY <1>0 DEF IInv, Phases, ManualNotStale, Fails, Rest
<1> QED BY <1>1, <1>2, <1>3, <1>4, <1>5, <1>6, <1>7, <1>8, <1>9, <1>10, <1>11,
     <1>12, TypePartsNext DEF IInv

LEMMA BeginLoginKeeps == ASSUME IInv, BeginLogin PROVE IInv'
<1>0. RecordOK /\ LogoutOK /\ RestOK /\ PlaceOK /\ Bounds /\ Phases
  BY TypeParts DEF IInv
<1>f. rec'.status = "login-pending" /\ rec'.credential = None
     /\ rec'.pending = exchanges' /\ ~rec'.confirmed /\ exchanges' \in Exchange
     /\ exchanges' = exchanges + 1
  BY <1>0 DEF RecordOK, RestOK, LogoutOK, BeginLogin, Record, Blank
<1>1. RecordOK'
  BY <1>0, <1>f DEF RecordOK, RestOK, Bounds, Phases, Record, Blank, BeginLogin
<1>2. LogoutOK'
  BY <1>0, NoLogoutOK DEF LogoutOK, BeginLogin
<1>3. PlaceOK'
  BY <1>0 DEF PlaceOK, BeginLogin
<1>4. RestOK'
  BY <1>0 DEF RestOK, BeginLogin
<1>5. Bounds'
  BY <1>0, <1>f, <1>4 DEF Bounds, RestOK
<1>6. Phases'
  BY <1>0, <1>f DEF RecordOK, Blank, Bounds, Phases, BeginLogin
<1>7. Exchanges'
  BY <1>0, <1>f DEF IInv, RecordOK, RestOK, Bounds, Phases, Exchanges, BeginLogin
<1>8. Reachable'
  BY <1>0, <1>f DEF IInv, RecordOK, RestOK, Bounds, Phases, Exchanges, Reachable,
     BeginLogin
<1>9. Leaving'
  BY <1>0, <1>f DEF IInv, RestOK, Bounds, Phases, Leaving, Referenced, BeginLogin
<1>10. ConfirmedIsTrue'
  BY <1>0, <1>f DEF IInv, RestOK, Leaving, ConfirmedIsTrue, BeginLogin
<1>11. Referenced'
  BY <1>0, <1>f DEF IInv, RecordOK, RestOK, Bounds, Phases, Exchanges, Leaving,
     Referenced, Blank, BeginLogin
<1>12. ManualNotStale'
  BY <1>0, <1>f DEF IInv, Phases, ManualNotStale, BeginLogin
<1> QED BY <1>1, <1>2, <1>3, <1>4, <1>5, <1>6, <1>7, <1>8, <1>9, <1>10, <1>11,
     <1>12, TypePartsNext DEF IInv

LEMMA AuthorizeKeeps == ASSUME IInv, Authorize PROVE IInv'
<1>0. RecordOK /\ LogoutOK /\ RestOK /\ PlaceOK /\ Bounds /\ Phases
  BY TypeParts DEF IInv
<1>1. RecordOK'
  BY <1>0 DEF RecordOK, RestOK, Bounds, Phases, Record, Blank, Authorize
<1>2. LogoutOK'
  BY <1>0, NoLogoutOK DEF LogoutOK, Authorize
<1>3. PlaceOK'
  BY <1>0 DEF PlaceOK, Authorize
<1>4. RestOK'
  BY <1>0 DEF RestOK, RecordOK, Bounds, Phases, Authorize
<1>5. Bounds'
  BY <1>0, <1>4 DEF Authorize, Bounds, RestOK
<1>6. Phases'
  BY <1>0 DEF RecordOK, Blank, Bounds, Phases, Authorize
<1>7. Exchanges'
  BY <1>0 DEF IInv, RecordOK, RestOK, Bounds, Phases, Exchanges, Authorize
<1>8. Reachable'
  BY <1>0 DEF IInv, RecordOK, RestOK, Bounds, Phases, Exchanges, Reachable,
     Authorize
<1>9. Leaving'
  BY <1>0 DEF IInv, RestOK, Bounds, Phases, Leaving, Referenced, Authorize
<1>10. ConfirmedIsTrue'
  BY <1>0 DEF IInv, RestOK, Leaving, ConfirmedIsTrue, Authorize
<1>11. Referenced'
  BY <1>0 DEF IInv, RecordOK, RestOK, Bounds, Phases, Exchanges, Leaving,
     Referenced, Blank, Authorize
<1>12. ManualNotStale'
  BY <1>0 DEF IInv, Phases, ManualNotStale, Authorize
<1> QED BY <1>1, <1>2, <1>3, <1>4, <1>5, <1>6, <1>7, <1>8, <1>9, <1>10, <1>11,
     <1>12, TypePartsNext DEF IInv

LEMMA BeginRefreshKeeps == ASSUME IInv, BeginRefresh PROVE IInv'
<1>0. RecordOK /\ LogoutOK /\ RestOK /\ PlaceOK /\ Bounds /\ Phases
  BY TypeParts DEF IInv
<1>f. rec'.status = "refresh-pending" /\ rec'.credential = rec.credential
     /\ rec'.pending = exchanges' /\ rec'.confirmed = rec.confirmed
     /\ exchanges' \in Exchange /\ exchanges' = exchanges + 1
  BY <1>0 DEF RecordOK, RestOK, LogoutOK, BeginRefresh, Record, Blank
<1>1. RecordOK'
  BY <1>0, <1>f DEF RecordOK, RestOK, Bounds, Phases, Record, Blank, BeginRefresh
<1>2. LogoutOK'
  BY <1>0, NoLogoutOK DEF LogoutOK, BeginRefresh
<1>3. PlaceOK'
  BY <1>0 DEF PlaceOK, BeginRefresh
<1>4. RestOK'
  BY <1>0 DEF RestOK, BeginRefresh
<1>5. Bounds'
  BY <1>0, <1>f, <1>4 DEF Bounds, RestOK
<1>6. Phases'
  BY <1>0, <1>f DEF RecordOK, Blank, Bounds, Phases, BeginRefresh
<1>7. Exchanges'
  BY <1>0, <1>f DEF IInv, RecordOK, RestOK, Bounds, Phases, Exchanges, BeginRefresh
<1>8. Reachable'
  BY <1>0, <1>f DEF IInv, RecordOK, RestOK, Bounds, Phases, Exchanges, Reachable,
     BeginRefresh
<1>9. Leaving'
  BY <1>0, <1>f DEF IInv, RestOK, Bounds, Phases, Leaving, Referenced, BeginRefresh
<1>10. ConfirmedIsTrue'
  BY <1>0, <1>f DEF IInv, RestOK, Leaving, ConfirmedIsTrue, BeginRefresh
<1>11. Referenced'
  BY <1>0, <1>f DEF IInv, RecordOK, RestOK, Bounds, Phases, Exchanges, Leaving,
     Referenced, Blank, BeginRefresh
<1>12. ManualNotStale'
  BY <1>0, <1>f DEF IInv, Phases, ManualNotStale, BeginRefresh
<1> QED BY <1>1, <1>2, <1>3, <1>4, <1>5, <1>6, <1>7, <1>8, <1>9, <1>10, <1>11,
     <1>12, TypePartsNext DEF IInv

LEMMA RefreshKeeps == ASSUME IInv, Refresh PROVE IInv'
<1>0. RecordOK /\ LogoutOK /\ RestOK /\ PlaceOK /\ Bounds /\ Phases
  BY TypeParts DEF IInv
<1>1. RecordOK'
  BY <1>0 DEF RecordOK, RestOK, Bounds, Phases, Record, Blank, Refresh
<1>2. LogoutOK'
  BY <1>0, NoLogoutOK DEF LogoutOK, Refresh
<1>3. PlaceOK'
  BY <1>0 DEF PlaceOK, Refresh
<1>4. RestOK'
  <2>1. exchanges \in 1 .. MaxExchange /\ exchanges \in 1 .. exchanges
    BY <1>0 DEF RestOK, RecordOK, Bounds, Phases, Refresh
  <2>2. held \in live /\ held \in 1 .. exchanges
    BY <1>0 DEF RestOK, Refresh
  <2>3. held' \in 0 .. exchanges
    BY <2>1, <2>2 DEF Refresh
  <2>4. live' \subseteq live \union {exchanges} /\ ours' \subseteq ours \union {exchanges}
        /\ spent' \subseteq spent \union live
    BY <2>2 DEF Refresh
  <2>5. live' \subseteq 1 .. exchanges /\ ours' \subseteq 1 .. exchanges
        /\ spent' \subseteq 1 .. exchanges
    BY <1>0, <2>1, <2>4 DEF RestOK
  <2>6. /\ stored' = stored /\ exchanges' = exchanges /\ manual' = manual
        /\ saved' = saved /\ drop' = drop
    BY DEF Refresh
  <2> QED BY <1>0, <2>3, <2>5, <2>6 DEF RestOK
<1>5. Bounds'
  BY <1>0, <1>4 DEF Refresh, Bounds, RestOK
<1>6. Phases'
  BY <1>0 DEF RecordOK, Blank, Bounds, Phases, Refresh
<1>7. Exchanges'
  BY <1>0 DEF IInv, RecordOK, RestOK, Bounds, Phases, Exchanges, Refresh
<1>8. Reachable'
  BY <1>0 DEF IInv, RecordOK, RestOK, Bounds, Phases, Exchanges, Reachable, Refresh
<1>9. Leaving'
  BY <1>0 DEF IInv, RestOK, Bounds, Phases, Leaving, Referenced, Refresh
<1>10. ConfirmedIsTrue'
  BY <1>0 DEF IInv, RestOK, Leaving, ConfirmedIsTrue, Refresh
<1>11. Referenced'
  BY <1>0 DEF IInv, RecordOK, RestOK, Bounds, Phases, Exchanges, Leaving,
     Referenced, Blank, Refresh
<1>12. ManualNotStale'
  BY <1>0 DEF IInv, Phases, ManualNotStale, Refresh
<1> QED BY <1>1, <1>2, <1>3, <1>4, <1>5, <1>6, <1>7, <1>8, <1>9, <1>10, <1>11,
     <1>12, TypePartsNext DEF IInv

LEMMA RefreshRefusedKeeps == ASSUME IInv, RefreshRefused PROVE IInv'
<1>0. RecordOK /\ LogoutOK /\ RestOK /\ PlaceOK /\ Bounds /\ Phases
  BY TypeParts DEF IInv
<1>f. rec'.status = "reauth-required" /\ rec'.credential = rec.credential
     /\ rec'.pending = None /\ rec'.confirmed = rec.confirmed
     /\ exchanges' = exchanges
  BY <1>0 DEF RecordOK, RestOK, LogoutOK, RefreshRefused, Rest, Record, Blank
<1>l. ~logout'.local /\ logout'.answer = "none"
  BY <1>0 DEF RecordOK, Record, LogoutOK, Logout, NoLogout, RefreshRefused, Rest
<1>1. RecordOK'
  BY <1>0, <1>f DEF RecordOK, RestOK, Bounds, Phases, Record, Blank,
     RefreshRefused, Rest
<1>2. LogoutOK'
  BY <1>0, NoLogoutOK DEF LogoutOK, RefreshRefused, Rest
<1>3. PlaceOK'
  BY <1>0 DEF PlaceOK, RefreshRefused, Rest
<1>4. RestOK'
  BY <1>0 DEF RestOK, RefreshRefused, Rest
<1>5. Bounds'
  BY <1>0, <1>f, <1>4 DEF Bounds, RestOK
<1>6. Phases'
  BY <1>0, <1>f DEF RecordOK, Blank, Bounds, Phases, RefreshRefused, Rest
<1>7. Exchanges'
  BY <1>0, <1>f DEF IInv, RecordOK, RestOK, Bounds, Phases, Exchanges,
     RefreshRefused, Rest
<1>8. Reachable'
  BY <1>0, <1>f DEF IInv, RecordOK, RestOK, Bounds, Phases, Exchanges, Reachable,
     RefreshRefused, Rest
<1>9. Leaving'
  BY <1>0, <1>f, <1>l DEF IInv, RestOK, Bounds, Phases, Leaving, Referenced,
     RefreshRefused, Rest
<1>10. ConfirmedIsTrue'
  BY <1>0, <1>f, <1>l DEF IInv, RestOK, Leaving, ConfirmedIsTrue, RefreshRefused,
     Rest
<1>11. Referenced'
  BY <1>0, <1>f DEF IInv, RecordOK, RestOK, Bounds, Phases, Exchanges, Leaving,
     Referenced, Blank, RefreshRefused, Rest
<1>12. ManualNotStale'
  BY <1>0, <1>f DEF IInv, Phases, ManualNotStale, RefreshRefused, Rest
<1> QED BY <1>1, <1>2, <1>3, <1>4, <1>5, <1>6, <1>7, <1>8, <1>9, <1>10, <1>11,
     <1>12, TypePartsNext DEF IInv

LEMMA SaveKeeps == ASSUME IInv, Save PROVE IInv'
<1>0. RecordOK /\ LogoutOK /\ RestOK /\ PlaceOK /\ Bounds /\ Phases
  BY TypeParts DEF IInv
<1>1. RecordOK'
  BY <1>0 DEF RecordOK, RestOK, Bounds, Phases, Record, Blank, Save
<1>2. LogoutOK'
  BY <1>0, NoLogoutOK DEF LogoutOK, Save
<1>3. PlaceOK'
  BY <1>0 DEF PlaceOK, Save
<1>4. RestOK'
  <2>1. rec.pending \in Exchange /\ rec.pending = exchanges /\ held \in 1 .. exchanges
    BY <1>0 DEF IInv, RestOK, RecordOK, Bounds, Phases, Exchanges, Save
  <2>2. stored' \in [Exchange -> Token \union {None}]
        /\ \A x \in Exchange : x > exchanges => stored'[x] = None
    BY <1>0, <2>1 DEF RestOK, Save
  <2>3. saved' \subseteq 1 .. exchanges
    BY <1>0, <2>1 DEF RestOK, Save
  <2> QED BY <1>0, <2>2, <2>3 DEF RestOK, Save
<1>5. Bounds'
  BY <1>0, <1>4 DEF Save, Bounds, RestOK
<1>6. Phases'
  BY <1>0 DEF RecordOK, Blank, Bounds, Phases, Save
<1>7. Exchanges'
  BY <1>0 DEF IInv, RecordOK, RestOK, Bounds, Phases, Exchanges, Save
<1>8. Reachable'
  BY <1>0 DEF IInv, RecordOK, RestOK, Bounds, Phases, Exchanges, Reachable, Save
<1>9. Leaving'
  BY <1>0 DEF IInv, RestOK, Bounds, Phases, Leaving, Referenced, Save
<1>10. ConfirmedIsTrue'
  BY <1>0 DEF IInv, RestOK, Leaving, ConfirmedIsTrue, Save
<1>11. Referenced'
  BY <1>0 DEF IInv, RecordOK, RestOK, Bounds, Phases, Exchanges, Leaving,
     Referenced, Blank, Save
<1>12. ManualNotStale'
  BY <1>0 DEF IInv, Phases, ManualNotStale, Save
<1> QED BY <1>1, <1>2, <1>3, <1>4, <1>5, <1>6, <1>7, <1>8, <1>9, <1>10, <1>11,
     <1>12, TypePartsNext DEF IInv

LEMMA ActivateKeeps == ASSUME IInv, Activate PROVE IInv'
<1>0. RecordOK /\ LogoutOK /\ RestOK /\ PlaceOK /\ Bounds /\ Phases
  BY TypeParts DEF IInv
<1>f. rec'.status = "active" /\ rec'.credential = rec.pending
     /\ rec'.pending = None /\ rec'.confirmed = rec.confirmed
     /\ exchanges' = exchanges
  BY <1>0 DEF RecordOK, RestOK, LogoutOK, Activate, Activated, Outdated, Record,
     Blank
<1>1. RecordOK'
  BY <1>0, <1>f DEF RecordOK, RestOK, Bounds, Phases, Record, Blank, Activate,
     Activated, Outdated
<1>2. LogoutOK'
  BY <1>0, NoLogoutOK DEF LogoutOK, Activate, Activated, Outdated
<1>3. PlaceOK'
  BY <1>0 DEF PlaceOK, Activate, Activated, Outdated
<1>4. RestOK'
  BY <1>0 DEF RestOK, RecordOK, Bounds, Phases, Activate, Activated, Outdated
<1>5. Bounds'
  BY <1>0, <1>f, <1>4 DEF Bounds, RestOK
<1>6. Phases'
  BY <1>0, <1>f DEF RecordOK, Blank, Bounds, Phases, Activate, Activated, Outdated
<1>7. Exchanges'
  BY <1>0, <1>f DEF IInv, RecordOK, RestOK, Bounds, Phases, Exchanges, Activate,
     Activated, Outdated
<1>8. Reachable'
  BY <1>0, <1>f DEF IInv, RecordOK, RestOK, Bounds, Phases, Exchanges, Reachable,
     Activate, Activated, Outdated
<1>9. Leaving'
  BY <1>0, <1>f DEF IInv, RestOK, Bounds, Phases, Leaving, Referenced, Activate,
     Activated, Outdated
<1>10. ConfirmedIsTrue'
  BY <1>0, <1>f DEF IInv, RestOK, Leaving, ConfirmedIsTrue, Activate, Activated,
     Outdated
<1>11. Referenced'
  BY <1>0, <1>f DEF IInv, RecordOK, RestOK, Bounds, Phases, Exchanges, Leaving,
     Referenced, Blank, Activate, Activated, Outdated
<1>12. ManualNotStale'
  BY <1>0, <1>f DEF IInv, Phases, ManualNotStale, Activate, Activated, Outdated
<1> QED BY <1>1, <1>2, <1>3, <1>4, <1>5, <1>6, <1>7, <1>8, <1>9, <1>10, <1>11,
     <1>12, TypePartsNext DEF IInv

LEMMA DropKeeps == ASSUME IInv, Drop PROVE IInv'
<1>0. RecordOK /\ LogoutOK /\ RestOK /\ PlaceOK /\ Bounds /\ Phases
  BY TypeParts DEF IInv
<1>s. \A y \in Exchange : stored'[y] =
       IF y = drop /\ stored' # stored THEN None ELSE stored[y]
  BY <1>0 DEF RestOK, Drop, Erase
<1>1. RecordOK'
  BY <1>0, <1>s DEF RecordOK, RestOK, Bounds, Phases, Record, Blank, Drop, Erase
<1>2. LogoutOK'
  BY <1>0, NoLogoutOK DEF LogoutOK, Drop, Erase
<1>3. PlaceOK'
  BY <1>0 DEF PlaceOK, Drop, Erase
<1>4. RestOK'
  <2>1. stored' \in [Exchange -> Token \union {None}]
        /\ \A x \in Exchange : x > exchanges => stored'[x] = None
    BY <1>0 DEF RestOK, Drop, Erase
  <2>2. 0 \in 0 .. exchanges
    BY <1>0 DEF RestOK
  <2> QED BY <1>0, <2>1, <2>2 DEF RestOK, Drop
<1>5. Bounds'
  BY <1>0, <1>s, <1>4 DEF Drop, Erase, Bounds, RestOK
<1>6. Phases'
  BY <1>0, <1>s DEF RecordOK, Blank, Bounds, Phases, Drop, Erase
<1>7. Exchanges'
  <2>1. rec' = rec /\ live' = live /\ spent' = spent /\ saved' = saved
        /\ exchanges' = exchanges /\ ours' = ours /\ at' \in {"idle", "reading"}
    BY DEF Drop
  <2>2. rec.status = "active" /\ drop # rec.credential
        /\ rec.credential \in Exchange /\ rec.pending = None
    BY <1>0 DEF RecordOK, Record, Phases, Drop
  <2> QED BY <1>0, <1>s, <2>1, <2>2 DEF IInv, RestOK, Exchanges
<1>8. Reachable'
  <2>1. rec' = rec /\ live' = live /\ spent' = spent /\ saved' = saved
        /\ exchanges' = exchanges /\ ours' = ours /\ at' \in {"idle", "reading"}
    BY DEF Drop
  <2>2. rec.status = "active" /\ drop # rec.credential
        /\ rec.credential \in Exchange /\ rec.pending = None
    BY <1>0 DEF RecordOK, Record, Phases, Drop
  <2>3. \A t \in ours \intersect live : t # None
    BY <1>0 DEF RestOK
  <2>4. rec.confirmed => live \intersect ours = {}
    BY DEF IInv, Reachable
  <2>5. \A t \in ours \intersect live : t \in saved
    BY <2>2, <2>3 DEF IInv, Reachable
  <2> QED BY <2>1, <2>4, <2>5 DEF Reachable
<1>9. Leaving'
  BY <1>0, <1>s DEF IInv, RestOK, Bounds, Phases, Leaving, Referenced, Drop, Erase
<1>10. ConfirmedIsTrue'
  BY <1>0, <1>s DEF IInv, RestOK, Leaving, ConfirmedIsTrue, Drop, Erase
<1>11. Referenced'
  <2>1. rec' = rec /\ live' = live /\ spent' = spent /\ saved' = saved
        /\ exchanges' = exchanges /\ ours' = ours /\ at' \in {"idle", "reading"}
    BY DEF Drop
  <2>2. rec.status = "active" /\ drop # rec.credential
        /\ rec.credential \in Exchange /\ rec.pending = None
    BY <1>0 DEF RecordOK, Record, Phases, Drop
  <2> QED BY <1>0, <1>s, <2>1, <2>2 DEF IInv, Referenced
<1>12. ManualNotStale'
  BY <1>0, <1>s DEF IInv, Phases, ManualNotStale, Drop, Erase
<1> QED BY <1>1, <1>2, <1>3, <1>4, <1>5, <1>6, <1>7, <1>8, <1>9, <1>10, <1>11,
     <1>12, TypePartsNext DEF IInv

LEMMA BeginAccessKeeps == ASSUME IInv, BeginAccess PROVE IInv'
<1>0. RecordOK /\ LogoutOK /\ RestOK /\ PlaceOK /\ Bounds /\ Phases
  BY TypeParts DEF IInv
<1>1. RecordOK'
  BY <1>0 DEF RecordOK, RestOK, Bounds, Phases, Record, Blank, BeginAccess
<1>2. LogoutOK'
  BY <1>0, NoLogoutOK DEF LogoutOK, BeginAccess
<1>3. PlaceOK'
  BY <1>0 DEF PlaceOK, BeginAccess
<1>4. RestOK'
  BY <1>0 DEF RestOK, BeginAccess
<1>5. Bounds'
  BY <1>0, <1>4 DEF BeginAccess, Bounds, RestOK
<1>6. Phases'
  BY <1>0 DEF RecordOK, Blank, Bounds, Phases, BeginAccess
<1>7. Exchanges'
  BY <1>0 DEF IInv, RecordOK, RestOK, Bounds, Phases, Exchanges, BeginAccess
<1>8. Reachable'
  BY <1>0 DEF IInv, RecordOK, RestOK, Bounds, Phases, Exchanges, Reachable,
     BeginAccess
<1>9. Leaving'
  BY <1>0 DEF IInv, RestOK, Bounds, Phases, Leaving, Referenced, BeginAccess
<1>10. ConfirmedIsTrue'
  BY <1>0 DEF IInv, RestOK, Leaving, ConfirmedIsTrue, BeginAccess
<1>11. Referenced'
  BY <1>0 DEF IInv, RecordOK, RestOK, Bounds, Phases, Exchanges, Leaving,
     Referenced, Blank, BeginAccess
<1>12. ManualNotStale'
  BY <1>0 DEF IInv, Phases, ManualNotStale, BeginAccess
<1> QED BY <1>1, <1>2, <1>3, <1>4, <1>5, <1>6, <1>7, <1>8, <1>9, <1>10, <1>11,
     <1>12, TypePartsNext DEF IInv

LEMMA RecoverKeeps == ASSUME IInv, Recover PROVE IInv'
<1>0. RecordOK /\ LogoutOK /\ RestOK /\ PlaceOK /\ Bounds /\ Phases
  BY TypeParts DEF IInv
<1>f. rec'.status = "active" /\ rec'.credential = rec.pending
     /\ rec'.pending = None /\ rec'.confirmed = rec.confirmed
     /\ exchanges' = exchanges
  BY <1>0 DEF RecordOK, RestOK, LogoutOK, Recover, Activated, Outdated, Stored,
     Record, Blank
<1>1. RecordOK'
  BY <1>0, <1>f DEF RecordOK, RestOK, Bounds, Phases, Record, Blank, Recover,
     Activated, Outdated, Stored
<1>2. LogoutOK'
  BY <1>0, NoLogoutOK DEF LogoutOK, Recover, Activated, Outdated, Stored
<1>3. PlaceOK'
  BY <1>0 DEF PlaceOK, Recover, Activated, Outdated, Stored
<1>4. RestOK'
  BY <1>0 DEF RestOK, RecordOK, Bounds, Phases, Recover, Activated, Outdated, Stored
<1>5. Bounds'
  BY <1>0, <1>f, <1>4 DEF Bounds, RestOK
<1>6. Phases'
  BY <1>0, <1>f DEF RecordOK, Blank, Bounds, Phases, Recover, Activated,
     Outdated, Stored
<1>7. Exchanges'
  <2>1. stored' = stored /\ exchanges' = exchanges /\ live' = live /\ spent' = spent
        /\ at' = "dropping recovered" /\ stored[rec.pending] # None
    BY DEF Recover, Stored
  <2> QED BY <1>0, <1>f, <2>1 DEF IInv, Phases, Exchanges, Recover
<1>8. Reachable'
  BY <1>0, <1>f DEF IInv, RecordOK, RestOK, Bounds, Phases, Exchanges, Reachable,
     Recover, Activated, Outdated, Stored
<1>9. Leaving'
  BY <1>0, <1>f DEF IInv, RestOK, Bounds, Phases, Leaving, Referenced, Recover,
     Activated, Outdated, Stored
<1>10. ConfirmedIsTrue'
  BY <1>0, <1>f DEF IInv, RestOK, Leaving, ConfirmedIsTrue, Recover, Activated,
     Outdated, Stored
<1>11. Referenced'
  BY <1>0, <1>f DEF IInv, RecordOK, RestOK, Bounds, Phases, Exchanges, Leaving,
     Referenced, Blank, Recover, Activated, Outdated, Stored
<1>12. ManualNotStale'
  BY <1>0, <1>f DEF IInv, Phases, ManualNotStale, Recover, Activated, Outdated,
     Stored
<1> QED BY <1>1, <1>2, <1>3, <1>4, <1>5, <1>6, <1>7, <1>8, <1>9, <1>10, <1>11,
     <1>12, TypePartsNext DEF IInv

LEMMA ReadTokensKeeps == ASSUME IInv, ReadTokens PROVE IInv'
<1>0. RecordOK /\ LogoutOK /\ RestOK /\ PlaceOK /\ Bounds /\ Phases
  BY TypeParts DEF IInv
<1>l. logout' = logout \/ (~logout'.local /\ logout'.answer = "none")
  BY <1>0 DEF RecordOK, Record, LogoutOK, Logout, NoLogout, ReadTokens, Rest, Stored
<1>1. RecordOK'
  BY <1>0 DEF RecordOK, RestOK, Bounds, Phases, Record, Blank, ReadTokens, Rest,
     Stored
<1>2. LogoutOK'
  BY <1>0, NoLogoutOK DEF LogoutOK, ReadTokens, Rest, Stored
<1>3. PlaceOK'
  BY <1>0 DEF PlaceOK, ReadTokens, Rest, Stored
<1>4. RestOK'
  BY <1>0 DEF IInv, RestOK, RecordOK, Bounds, Phases, Exchanges, ReadTokens,
     Rest, Stored
<1>5. Bounds'
  BY <1>0, <1>4 DEF ReadTokens, Rest, Stored, Bounds, RestOK
<1>6. Phases'
  BY <1>0 DEF RecordOK, Blank, Bounds, Phases, ReadTokens, Rest, Stored
<1>7. Exchanges'
  BY <1>0 DEF IInv, RecordOK, RestOK, Bounds, Phases, Exchanges, ReadTokens,
     Rest, Stored
<1>8. Reachable'
  BY <1>0 DEF IInv, RecordOK, RestOK, Bounds, Phases, Exchanges, Reachable,
     ReadTokens, Rest, Stored
<1>9. Leaving'
  BY <1>0, <1>l DEF IInv, RestOK, Bounds, Phases, Leaving, Referenced,
     ReadTokens, Rest, Stored
<1>10. ConfirmedIsTrue'
  BY <1>0, <1>l DEF IInv, RestOK, Leaving, ConfirmedIsTrue, ReadTokens, Rest, Stored
<1>11. Referenced'
  BY <1>0 DEF IInv, RecordOK, RestOK, Bounds, Phases, Exchanges, Leaving,
     Referenced, Blank, ReadTokens, Rest, Stored
<1>12. ManualNotStale'
  BY <1>0 DEF IInv, Phases, ManualNotStale, ReadTokens, Rest, Stored
<1> QED BY <1>1, <1>2, <1>3, <1>4, <1>5, <1>6, <1>7, <1>8, <1>9, <1>10, <1>11,
     <1>12, TypePartsNext DEF IInv

LEMMA BeginLogoutKeeps == ASSUME NEW local \in BOOLEAN, IInv,
     BeginLogout(local) PROVE IInv'
<1>0. RecordOK /\ LogoutOK /\ RestOK /\ PlaceOK /\ Bounds /\ Phases
  BY TypeParts DEF IInv
<1>f. rec'.status \in {rec.status, "logout-pending"}
     /\ rec'.credential = rec.credential /\ rec'.pending = rec.pending
     /\ rec'.confirmed = rec.confirmed /\ exchanges' = exchanges
     /\ (at' = "collecting" => rec'.status = "logout-pending")
     /\ (at' = "signing out" => rec' = rec /\ rec.status \in NoSession)
  BY <1>0 DEF RecordOK, RestOK, LogoutOK, BeginLogout, Record, Blank
<1>l. logout'.local = local /\ logout'.answer # "confirmed"
  BY <1>0 DEF RecordOK, Record, LogoutOK, Logout, NoLogout, BeginLogout
<1>1. RecordOK'
  BY <1>0, <1>f DEF RecordOK, RestOK, Bounds, Phases, Record, Blank, BeginLogout
<1>2. LogoutOK'
  BY <1>0, NoLogoutOK DEF RecordOK, Record, LogoutOK, Logout, BeginLogout
<1>3. PlaceOK'
  BY <1>0 DEF PlaceOK, BeginLogout
<1>4. RestOK'
  BY <1>0 DEF RestOK, BeginLogout
<1>5. Bounds'
  BY <1>0, <1>f, <1>4 DEF Bounds, RestOK
<1>6. Phases'
  BY <1>0, <1>f DEF RecordOK, Blank, Bounds, Phases, BeginLogout
<1>7. Exchanges'
  BY <1>0, <1>f DEF IInv, RecordOK, RestOK, Bounds, Phases, Exchanges, BeginLogout
<1>8. Reachable'
  BY <1>0, <1>f DEF IInv, RecordOK, RestOK, Bounds, Phases, Exchanges, Reachable,
     BeginLogout
<1>9. Leaving'
  <2>1. /\ saved' \subseteq saved /\ live' = live
        /\ local => saved' = {}
        /\ at' \in {"signing out", "collecting"}
    BY DEF BeginLogout
  <2>2. at' = "signing out" => saved \intersect live = {}
    BY <1>0, <1>f, NoSessionNamesNothing DEF IInv, Referenced
  <2> QED BY <1>l, <2>1, <2>2 DEF Leaving
<1>10. ConfirmedIsTrue'
  BY <1>0, <1>f, <1>l DEF IInv, RestOK, Leaving, ConfirmedIsTrue, BeginLogout
<1>11. Referenced'
  BY <1>0, <1>f DEF IInv, RecordOK, RestOK, Bounds, Phases, Exchanges, Leaving,
     Referenced, Blank, BeginLogout
<1>12. ManualNotStale'
  BY <1>0, <1>f DEF IInv, Phases, ManualNotStale, BeginLogout
<1> QED BY <1>1, <1>2, <1>3, <1>4, <1>5, <1>6, <1>7, <1>8, <1>9, <1>10, <1>11,
     <1>12, TypePartsNext DEF IInv

LEMMA CollectKeeps == ASSUME IInv, Collect PROVE IInv'
<1>0. RecordOK /\ LogoutOK /\ RestOK /\ PlaceOK /\ Bounds /\ Phases
  BY TypeParts DEF IInv
<1>l. logout'.local = logout.local /\ logout'.answer = logout.answer
     /\ logout'.credential = rec.credential
  BY <1>0 DEF RecordOK, Record, LogoutOK, Logout, NoLogout, Collect, Stored,
     Readable, Complete, Uncertain
<1>1. RecordOK'
  BY <1>0 DEF RecordOK, RestOK, Bounds, Phases, Record, Blank, Collect, Stored,
     Readable, Complete, Uncertain
<1>2. LogoutOK'
  <2>1. PICK read, readable \in BOOLEAN :
         LET found == Stored(rec.pending) /\ read
             references == ({rec.credential} \ {None})
                             \union (IF found THEN {rec.pending} ELSE {}) IN
         logout' = [logout EXCEPT
              !.references = references,
              !.tokens = {stored[y] : y \in references} \ {None},
              !.uncertain = Uncertain(found),
              !.removed = Complete(read, readable),
              !.credential = rec.credential]
    BY <1>0 DEF Collect, LogoutOK, Logout
  <2> DEFINE found == Stored(rec.pending) /\ read
             references == ({rec.credential} \ {None})
                             \union (IF found THEN {rec.pending} ELSE {})
  <2>2. references \in SUBSET Exchange /\ rec.credential \in Exchange \union {None}
    BY <1>0 DEF RecordOK, Record, Stored
  <2>3. {stored[y] : y \in references} \ {None} \in SUBSET Token
    BY <1>0, <2>2 DEF RestOK
  <2>4. Uncertain(found) \in BOOLEAN /\ Complete(read, readable) \in BOOLEAN
    BY DEF Uncertain, Complete
  <2> HIDE DEF references, found
  <2> QED BY <1>0, <2>1, <2>2, <2>3, <2>4 DEF LogoutOK, Logout, references, found
<1>3. PlaceOK'
  BY <1>0 DEF PlaceOK, Collect, Stored, Readable, Complete, Uncertain
<1>4. RestOK'
  BY <1>0 DEF RestOK, Collect, Stored, Readable, Complete, Uncertain
<1>5. Bounds'
  BY <1>0, <1>4 DEF Collect, Stored, Readable, Complete, Uncertain, Bounds, RestOK
<1>6. Phases'
  BY <1>0 DEF RecordOK, Blank, Bounds, Phases, Collect, Stored, Readable,
     Complete, Uncertain
<1>7. Exchanges'
  BY <1>0 DEF IInv, RecordOK, RestOK, Bounds, Phases, Exchanges, Collect, Stored,
     Readable, Complete, Uncertain
<1>8. Reachable'
  BY <1>0 DEF IInv, RecordOK, RestOK, Bounds, Phases, Exchanges, Reachable,
     Collect, Stored, Readable, Complete, Uncertain
<1>9. Leaving'
  <2>1. PICK read, readable \in BOOLEAN :
         LET found == Stored(rec.pending) /\ read
             references == ({rec.credential} \ {None})
                             \union (IF found THEN {rec.pending} ELSE {}) IN
         /\ logout'.references = references
         /\ logout'.tokens = {stored[y] : y \in references} \ {None}
         /\ logout'.uncertain = Uncertain(found)
         /\ logout'.removed = Complete(read, readable)
    BY <1>0 DEF Collect, LogoutOK, Logout
  <2>2. rec.credential # None /\ stored[rec.credential] # None =>
          stored[rec.credential] \in logout'.tokens
    BY <2>1
  <2>3. \/ rec.pending = None
        \/ stored[rec.pending] # None /\ stored[rec.pending] \in logout'.tokens
        \/ /\ logout'.uncertain /\ rec.pending \notin logout'.references
           /\ stored[rec.pending] = None \/ ~logout'.removed
    BY <1>0, <2>1 DEF Bounds, Stored, Uncertain, Complete
  <2> QED BY <1>0, <1>l, <2>2, <2>3 DEF IInv, RestOK, Phases, Leaving, Collect
<1>10. ConfirmedIsTrue'
  BY <1>0, <1>l DEF IInv, RestOK, Leaving, ConfirmedIsTrue, Collect, Stored,
     Readable, Complete, Uncertain
<1>11. Referenced'
  BY <1>0 DEF IInv, RecordOK, RestOK, Bounds, Phases, Exchanges, Leaving,
     Referenced, Blank, Collect, Stored, Readable, Complete, Uncertain
<1>12. ManualNotStale'
  BY <1>0 DEF IInv, Phases, ManualNotStale, Collect, Stored, Readable, Complete,
     Uncertain
<1> QED BY <1>1, <1>2, <1>3, <1>4, <1>5, <1>6, <1>7, <1>8, <1>9, <1>10, <1>11,
     <1>12, TypePartsNext DEF IInv

LEMMA RevokeKeeps == ASSUME NEW x \in Exchange, IInv, Revoke(x) PROVE IInv'
<1>0. RecordOK /\ LogoutOK /\ RestOK /\ PlaceOK /\ Bounds /\ Phases
  BY TypeParts DEF IInv
<1>1. RecordOK'
  BY <1>0 DEF RecordOK, RestOK, Bounds, Phases, Record, Blank, Revoke
<1>2. LogoutOK'
  BY <1>0, NoLogoutOK DEF LogoutOK, Revoke
<1>3. PlaceOK'
  BY <1>0 DEF PlaceOK, Revoke
<1>4. RestOK'
  BY <1>0 DEF RestOK, Revoke
<1>5. Bounds'
  BY <1>0, <1>4 DEF Revoke, Bounds, RestOK
<1>6. Phases'
  BY <1>0 DEF RecordOK, Blank, Bounds, Phases, Revoke
<1>7. Exchanges'
  BY <1>0 DEF IInv, RecordOK, RestOK, Bounds, Phases, Exchanges, Revoke
<1>8. Reachable'
  BY <1>0 DEF IInv, RecordOK, RestOK, Bounds, Phases, Exchanges, Reachable, Revoke
<1>9. Leaving'
  BY <1>0 DEF IInv, RestOK, Bounds, Phases, Leaving, Referenced, Revoke
<1>10. ConfirmedIsTrue'
  BY <1>0 DEF IInv, RestOK, Leaving, ConfirmedIsTrue, Revoke
<1>11. Referenced'
  BY <1>0 DEF IInv, RecordOK, RestOK, Bounds, Phases, Exchanges, Leaving,
     Referenced, Blank, Revoke
<1>12. ManualNotStale'
  BY <1>0 DEF IInv, Phases, ManualNotStale, Revoke
<1> QED BY <1>1, <1>2, <1>3, <1>4, <1>5, <1>6, <1>7, <1>8, <1>9, <1>10, <1>11,
     <1>12, TypePartsNext DEF IInv

LEMMA RevokedKeeps == ASSUME IInv, Revoked PROVE IInv'
<1>0. RecordOK /\ LogoutOK /\ RestOK /\ PlaceOK /\ Bounds /\ Phases
  BY TypeParts DEF IInv
<1>f. rec'.status = rec.status /\ rec'.credential = rec.credential
     /\ rec'.pending = rec.pending /\ (rec'.confirmed => ~logout.uncertain
     /\ logout.removed) /\ rec'.confirmed \in BOOLEAN /\ exchanges' = exchanges
  BY <1>0 DEF RecordOK, RestOK, LogoutOK, Revoked, Verdict, Record, Blank
<1>l. (logout'.answer = "confirmed" => ~logout.uncertain)
     /\ logout'.local = logout.local /\ logout'.references = logout.references
     /\ logout'.removed = logout.removed /\ logout'.credential = logout.credential
  BY <1>0 DEF RecordOK, Record, LogoutOK, Logout, NoLogout, Revoked, Verdict
<1>1. RecordOK'
  BY <1>0, <1>f DEF RecordOK, RestOK, Bounds, Phases, Record, Blank, Revoked,
     Verdict
<1>2. LogoutOK'
  BY <1>0, NoLogoutOK DEF RecordOK, Record, LogoutOK, Logout, Revoked, Verdict
<1>3. PlaceOK'
  BY <1>0 DEF PlaceOK, Revoked, Verdict
<1>4. RestOK'
  BY <1>0 DEF RestOK, Revoked, Verdict
<1>5. Bounds'
  BY <1>0, <1>f, <1>4 DEF Bounds, RestOK
<1>6. Phases'
  BY <1>0, <1>f DEF RecordOK, Blank, Bounds, Phases, Revoked, Verdict
<1>7. Exchanges'
  BY <1>0, <1>f DEF IInv, RecordOK, RestOK, Bounds, Phases, Exchanges, Revoked,
     Verdict
<1>8. Reachable'
  <2>1. \A t \in saved \intersect live :
          /\ ~logout.removed /\ rec.pending # None
          /\ rec.pending \notin logout.references
          /\ stored[rec.pending] = t /\ logout.uncertain
    BY <1>0 DEF IInv, RestOK, Leaving, Referenced, Revoked
  <2>2. ~logout.uncertain => live \intersect ours = {}
    BY <1>0, <2>1 DEF IInv, RestOK, Phases, Leaving, Reachable, Revoked
  <2> QED BY <1>0, <1>f, <2>2 DEF IInv, RestOK, Phases, Reachable, Revoked
<1>9. Leaving'
  <2>1. \A t \in saved \intersect live :
          /\ ~logout.removed /\ rec.pending # None
          /\ rec.pending \notin logout.references
          /\ stored[rec.pending] = t
    BY <1>0 DEF IInv, RestOK, Leaving, Referenced, Revoked
  <2>2. logout.credential = rec.credential
    BY DEF IInv, Leaving, Revoked
  <2> QED BY <1>0, <1>f, <1>l, <2>1, <2>2 DEF IInv, Leaving, Revoked
<1>10. ConfirmedIsTrue'
  <2>1. \A t \in saved \intersect live : logout.uncertain
    BY <1>0 DEF IInv, RestOK, Leaving, Referenced, Revoked
  <2>2. ~logout.uncertain => live \intersect ours = {}
    BY <1>0, <2>1 DEF IInv, RestOK, Phases, Leaving, Reachable, Revoked
  <2> QED BY <1>l, <2>2 DEF ConfirmedIsTrue, Revoked
<1>11. Referenced'
  BY <1>0, <1>f DEF IInv, RecordOK, RestOK, Bounds, Phases, Exchanges, Leaving,
     Referenced, Blank, Revoked, Verdict
<1>12. ManualNotStale'
  BY <1>0, <1>f DEF IInv, Phases, ManualNotStale, Revoked, Verdict
<1> QED BY <1>1, <1>2, <1>3, <1>4, <1>5, <1>6, <1>7, <1>8, <1>9, <1>10, <1>11,
     <1>12, TypePartsNext DEF IInv

LEMMA RemoveKeeps == ASSUME NEW x \in Exchange, IInv, Remove(x) PROVE IInv'
<1>0. RecordOK /\ LogoutOK /\ RestOK /\ PlaceOK /\ Bounds /\ Phases
  BY TypeParts DEF IInv
<1>s. \A y \in Exchange : stored'[y] =
       IF y = x /\ stored' # stored THEN None ELSE stored[y]
  BY <1>0 DEF RestOK, Remove, Erase
<1>l. logout'.local = logout.local
     /\ logout'.references = logout.references \ {x}
     /\ logout'.answer = logout.answer /\ (logout'.removed => logout.removed)
     /\ logout'.credential \in {logout.credential, None}
  BY <1>0 DEF RecordOK, Record, LogoutOK, Logout, NoLogout, Remove, Erase
<1>1. RecordOK'
  BY <1>0, <1>s DEF RecordOK, RestOK, Bounds, Phases, Record, Blank, Remove, Erase
<1>2. LogoutOK'
  BY <1>0, NoLogoutOK DEF RecordOK, Record, LogoutOK, Logout, Remove
<1>3. PlaceOK'
  BY <1>0 DEF PlaceOK, Remove, Erase
<1>4. RestOK'
  BY <1>0 DEF RestOK, Remove, Erase
<1>5. Bounds'
  BY <1>0, <1>s, <1>4 DEF Remove, Erase, Bounds, RestOK
<1>6. Phases'
  BY <1>0, <1>s DEF RecordOK, Blank, Bounds, Phases, Remove, Erase
<1>7. Exchanges'
  BY <1>0, <1>s DEF IInv, RecordOK, RestOK, Bounds, Phases, Exchanges, Remove
<1>8. Reachable'
  BY <1>0, <1>s DEF IInv, RecordOK, RestOK, Bounds, Phases, Exchanges, Reachable,
     Remove, Erase
<1>9. Leaving'
  BY <1>0, <1>s, <1>l DEF IInv, RestOK, Bounds, Phases, Leaving, Remove
<1>10. ConfirmedIsTrue'
  BY <1>0, <1>s, <1>l DEF IInv, RestOK, Leaving, ConfirmedIsTrue, Remove, Erase
<1>11. Referenced'
  BY <1>0, <1>s DEF IInv, RecordOK, RestOK, Bounds, Phases, Exchanges, Leaving,
     Referenced, Blank, Remove, Erase
<1>12. ManualNotStale'
  BY <1>0, <1>s DEF IInv, Phases, ManualNotStale, Remove, Erase
<1> QED BY <1>1, <1>2, <1>3, <1>4, <1>5, <1>6, <1>7, <1>8, <1>9, <1>10, <1>11,
     <1>12, TypePartsNext DEF IInv

LEMMA RemovedKeeps == ASSUME IInv, Removed PROVE IInv'
<1>0. RecordOK /\ LogoutOK /\ RestOK /\ PlaceOK /\ Bounds /\ Phases
  BY TypeParts DEF IInv
<1>f. rec'.status = rec.status /\ rec'.credential \in {rec.credential, None}
     /\ rec'.pending = rec.pending /\ rec'.confirmed = rec.confirmed
     /\ exchanges' = exchanges
  BY <1>0 DEF IInv, RecordOK, RestOK, LogoutOK, Leaving, Removed, Record, Blank
<1>1. RecordOK'
  BY <1>0, <1>f DEF RecordOK, RestOK, Bounds, Phases, Record, Blank, Removed
<1>2. LogoutOK'
  BY <1>0, NoLogoutOK DEF LogoutOK, Removed
<1>3. PlaceOK'
  BY <1>0 DEF PlaceOK, Removed
<1>4. RestOK'
  BY <1>0 DEF RestOK, Removed
<1>5. Bounds'
  BY <1>0, <1>f, <1>4 DEF Bounds, RestOK
<1>6. Phases'
  BY <1>0, <1>f DEF RecordOK, Blank, Bounds, Phases, Removed
<1>7. Exchanges'
  BY <1>0, <1>f DEF IInv, RecordOK, RestOK, Bounds, Phases, Exchanges, Removed
<1>8. Reachable'
  BY <1>0, <1>f DEF IInv, RecordOK, RestOK, Bounds, Phases, Exchanges, Reachable,
     Removed
<1>9. Leaving'
  BY <1>0, <1>f DEF IInv, RestOK, Bounds, Phases, Leaving, Referenced, Removed
<1>10. ConfirmedIsTrue'
  BY <1>0, <1>f DEF IInv, RestOK, Leaving, ConfirmedIsTrue, Removed
<1>11. Referenced'
  BY <1>0, <1>f DEF IInv, RecordOK, RestOK, Bounds, Phases, Exchanges, Leaving,
     Referenced, Blank, Removed
<1>12. ManualNotStale'
  BY <1>0, <1>f DEF IInv, Phases, ManualNotStale, Removed
<1> QED BY <1>1, <1>2, <1>3, <1>4, <1>5, <1>6, <1>7, <1>8, <1>9, <1>10, <1>11,
     <1>12, TypePartsNext DEF IInv

LEMMA SignOutKeeps == ASSUME IInv, SignOut PROVE IInv'
<1>0. RecordOK /\ LogoutOK /\ RestOK /\ PlaceOK /\ Bounds /\ Phases
  BY TypeParts DEF IInv
<1>f. rec'.status = "signed-out" /\ rec'.credential = None
     /\ rec'.pending = None /\ ~rec'.confirmed /\ exchanges' = exchanges
  BY <1>0 DEF RecordOK, RestOK, LogoutOK, SignOut, Outdated, Record, Blank
<1>1. RecordOK'
  BY <1>0, <1>f DEF RecordOK, RestOK, Bounds, Phases, Record, Blank, SignOut,
     Outdated
<1>2. LogoutOK'
  BY <1>0, NoLogoutOK DEF LogoutOK, SignOut, Outdated
<1>3. PlaceOK'
  BY <1>0 DEF PlaceOK, SignOut, Outdated
<1>4. RestOK'
  BY <1>0 DEF RestOK, SignOut, Outdated
<1>5. Bounds'
  BY <1>0, <1>f, <1>4 DEF Bounds, RestOK
<1>6. Phases'
  BY <1>0, <1>f DEF RecordOK, Blank, Bounds, Phases, SignOut, Outdated
<1>7. Exchanges'
  BY <1>0, <1>f DEF IInv, RecordOK, RestOK, Bounds, Phases, Exchanges, SignOut,
     Outdated
<1>8. Reachable'
  BY <1>0, <1>f DEF IInv, RecordOK, RestOK, Bounds, Phases, Exchanges, Reachable,
     SignOut, Outdated
<1>9. Leaving'
  BY <1>0, <1>f DEF IInv, RestOK, Bounds, Phases, Leaving, Referenced, SignOut,
     Outdated
<1>10. ConfirmedIsTrue'
  BY <1>0, <1>f DEF IInv, RestOK, Leaving, ConfirmedIsTrue, SignOut, Outdated
<1>11. Referenced'
  BY <1>0, <1>f DEF IInv, RecordOK, RestOK, Bounds, Phases, Exchanges, Leaving,
     Referenced, Blank, SignOut, Outdated
<1>12. ManualNotStale'
  BY <1>0, <1>f DEF IInv, Phases, ManualNotStale, SignOut, Outdated
<1> QED BY <1>1, <1>2, <1>3, <1>4, <1>5, <1>6, <1>7, <1>8, <1>9, <1>10, <1>11,
     <1>12, TypePartsNext DEF IInv

LEMMA ClearManualKeeps == ASSUME IInv, ClearManual PROVE IInv'
<1>0. RecordOK /\ LogoutOK /\ RestOK /\ PlaceOK /\ Bounds /\ Phases
  BY TypeParts DEF IInv
<1>l. ~logout'.local /\ logout'.answer = "none"
  BY <1>0 DEF RecordOK, Record, LogoutOK, Logout, NoLogout, ClearManual, Rest
<1>1. RecordOK'
  BY <1>0 DEF RecordOK, RestOK, Bounds, Phases, Record, Blank, ClearManual, Rest
<1>2. LogoutOK'
  BY <1>0, NoLogoutOK DEF LogoutOK, ClearManual, Rest
<1>3. PlaceOK'
  BY <1>0 DEF PlaceOK, ClearManual, Rest
<1>4. RestOK'
  BY <1>0 DEF RestOK, ClearManual, Rest
<1>5. Bounds'
  BY <1>0, <1>4 DEF ClearManual, Rest, Bounds, RestOK
<1>6. Phases'
  BY <1>0 DEF RecordOK, Blank, Bounds, Phases, ClearManual, Rest
<1>7. Exchanges'
  BY <1>0 DEF IInv, RecordOK, RestOK, Bounds, Phases, Exchanges, ClearManual, Rest
<1>8. Reachable'
  BY <1>0 DEF IInv, RecordOK, RestOK, Bounds, Phases, Exchanges, Reachable,
     ClearManual, Rest
<1>9. Leaving'
  BY <1>0, <1>l DEF IInv, RestOK, Bounds, Phases, Leaving, Referenced,
     ClearManual, Rest
<1>10. ConfirmedIsTrue'
  BY <1>0, <1>l DEF IInv, RestOK, Leaving, ConfirmedIsTrue, ClearManual, Rest
<1>11. Referenced'
  BY <1>0 DEF IInv, RecordOK, RestOK, Bounds, Phases, Exchanges, Leaving,
     Referenced, Blank, ClearManual, Rest
<1>12. ManualNotStale'
  BY <1>0 DEF IInv, Phases, ManualNotStale, ClearManual, Rest
<1> QED BY <1>1, <1>2, <1>3, <1>4, <1>5, <1>6, <1>7, <1>8, <1>9, <1>10, <1>11,
     <1>12, TypePartsNext DEF IInv

LEMMA BeginManualKeeps == ASSUME IInv, BeginManual PROVE IInv'
<1>0. RecordOK /\ LogoutOK /\ RestOK /\ PlaceOK /\ Bounds /\ Phases
  BY TypeParts DEF IInv
<1>1. RecordOK'
  BY <1>0 DEF RecordOK, RestOK, Bounds, Phases, Record, Blank, BeginManual
<1>2. LogoutOK'
  BY <1>0, NoLogoutOK DEF LogoutOK, BeginManual
<1>3. PlaceOK'
  BY <1>0 DEF PlaceOK, BeginManual
<1>4. RestOK'
  BY <1>0 DEF RestOK, BeginManual
<1>5. Bounds'
  BY <1>0, <1>4 DEF BeginManual, Bounds, RestOK
<1>6. Phases'
  BY <1>0 DEF RecordOK, Blank, Bounds, Phases, BeginManual
<1>7. Exchanges'
  BY <1>0 DEF IInv, RecordOK, RestOK, Bounds, Phases, Exchanges, BeginManual
<1>8. Reachable'
  BY <1>0 DEF IInv, RecordOK, RestOK, Bounds, Phases, Exchanges, Reachable,
     BeginManual
<1>9. Leaving'
  BY <1>0 DEF IInv, RestOK, Bounds, Phases, Leaving, Referenced, BeginManual
<1>10. ConfirmedIsTrue'
  BY <1>0 DEF IInv, RestOK, Leaving, ConfirmedIsTrue, BeginManual
<1>11. Referenced'
  BY <1>0 DEF IInv, RecordOK, RestOK, Bounds, Phases, Exchanges, Leaving,
     Referenced, Blank, BeginManual
<1>12. ManualNotStale'
  BY <1>0 DEF IInv, Phases, ManualNotStale, BeginManual
<1> QED BY <1>1, <1>2, <1>3, <1>4, <1>5, <1>6, <1>7, <1>8, <1>9, <1>10, <1>11,
     <1>12, TypePartsNext DEF IInv

LEMMA SaveManualKeeps == ASSUME IInv, SaveManual PROVE IInv'
<1>0. RecordOK /\ LogoutOK /\ RestOK /\ PlaceOK /\ Bounds /\ Phases
  BY TypeParts DEF IInv
<1>1. RecordOK'
  BY <1>0 DEF RecordOK, RestOK, Bounds, Phases, Record, Blank, SaveManual
<1>2. LogoutOK'
  BY <1>0, NoLogoutOK DEF LogoutOK, SaveManual
<1>3. PlaceOK'
  BY <1>0 DEF PlaceOK, SaveManual
<1>4. RestOK'
  BY <1>0 DEF RestOK, SaveManual
<1>5. Bounds'
  BY <1>0, <1>4 DEF SaveManual, Bounds, RestOK
<1>6. Phases'
  BY <1>0 DEF RecordOK, Blank, Bounds, Phases, SaveManual
<1>7. Exchanges'
  BY <1>0 DEF IInv, RecordOK, RestOK, Bounds, Phases, Exchanges, SaveManual
<1>8. Reachable'
  BY <1>0 DEF IInv, RecordOK, RestOK, Bounds, Phases, Exchanges, Reachable,
     SaveManual
<1>9. Leaving'
  BY <1>0 DEF IInv, RestOK, Bounds, Phases, Leaving, Referenced, SaveManual
<1>10. ConfirmedIsTrue'
  BY <1>0 DEF IInv, RestOK, Leaving, ConfirmedIsTrue, SaveManual
<1>11. Referenced'
  BY <1>0 DEF IInv, RecordOK, RestOK, Bounds, Phases, Exchanges, Leaving,
     Referenced, Blank, SaveManual
<1>12. ManualNotStale'
  BY <1>0 DEF IInv, Phases, ManualNotStale, SaveManual
<1> QED BY <1>1, <1>2, <1>3, <1>4, <1>5, <1>6, <1>7, <1>8, <1>9, <1>10, <1>11,
     <1>12, TypePartsNext DEF IInv

LEMMA SelectManualKeeps == ASSUME IInv, SelectManual PROVE IInv'
<1>0. RecordOK /\ LogoutOK /\ RestOK /\ PlaceOK /\ Bounds /\ Phases
  BY TypeParts DEF IInv
<1>f. rec'.status = "manual" /\ rec'.credential = None /\ rec'.pending = None
     /\ ~rec'.confirmed /\ exchanges' = exchanges
  BY <1>0 DEF RecordOK, RestOK, LogoutOK, SelectManual, Rest, Record, Blank
<1>l. ~logout'.local /\ logout'.answer = "none"
  BY <1>0 DEF RecordOK, Record, LogoutOK, Logout, NoLogout, SelectManual, Rest
<1>1. RecordOK'
  BY <1>0, <1>f DEF RecordOK, RestOK, Bounds, Phases, Record, Blank,
     SelectManual, Rest
<1>2. LogoutOK'
  BY <1>0, NoLogoutOK DEF LogoutOK, SelectManual, Rest
<1>3. PlaceOK'
  BY <1>0 DEF PlaceOK, SelectManual, Rest
<1>4. RestOK'
  <2>1. 0 \in 0 .. exchanges
    BY <1>0 DEF RestOK
  <2>2. /\ stored' = stored /\ exchanges' = exchanges /\ manual' = manual /\ live' = live
        /\ spent' = spent /\ ours' = ours /\ saved' = saved /\ held' = 0 /\ drop' = 0
    BY DEF SelectManual, Rest
  <2> QED BY <1>0, <2>1, <2>2 DEF RestOK
<1>5. Bounds'
  BY <1>0, <1>f, <1>4 DEF Bounds, RestOK
<1>6. Phases'
  BY <1>0, <1>f DEF RecordOK, Blank, Bounds, Phases, SelectManual, Rest
<1>7. Exchanges'
  BY <1>0, <1>f DEF IInv, RecordOK, RestOK, Bounds, Phases, Exchanges,
     SelectManual, Rest
<1>8. Reachable'
  BY <1>0, <1>f DEF IInv, RecordOK, RestOK, Bounds, Phases, Exchanges, Reachable,
     SelectManual, Rest
<1>9. Leaving'
  BY <1>0, <1>f, <1>l DEF IInv, RestOK, Bounds, Phases, Leaving, Referenced,
     SelectManual, Rest
<1>10. ConfirmedIsTrue'
  BY <1>0, <1>f, <1>l DEF IInv, RestOK, Leaving, ConfirmedIsTrue, SelectManual, Rest
<1>11. Referenced'
  <2>1. rec.credential = None /\ rec.pending = None
    <3>1. rec.status \in NoSession
      BY <1>0 DEF Phases, SelectManual
    <3> QED BY <1>0, <3>1, NoSessionNamesNothing
  <2> QED BY <2>1 DEF IInv, Referenced, SelectManual
<1>12. ManualNotStale'
  BY <1>0, <1>f DEF IInv, Phases, ManualNotStale, SelectManual, Rest
<1> QED BY <1>1, <1>2, <1>3, <1>4, <1>5, <1>6, <1>7, <1>8, <1>9, <1>10, <1>11,
     <1>12, TypePartsNext DEF IInv

LEMMA InitHolds == Init => IInv
<1> SUFFICES ASSUME Init PROVE IInv
  OBVIOUS
<1>1. RecordOK
  BY DEF Init, RecordOK, Record, Blank
<1>2. LogoutOK
  BY NoLogoutOK DEF Init, LogoutOK
<1>3. RestOK /\ PlaceOK
  BY DEF Init, RestOK, PlaceOK
<1>4. Bounds /\ Phases /\ Exchanges /\ Reachable /\ ManualNotStale
  BY DEF Init, Blank, Bounds, Phases, Exchanges, Reachable, ManualNotStale
<1>5. ~logout.local /\ logout.answer = "none"
  BY DEF Init, NoLogout
<1>6. Leaving /\ Referenced /\ ConfirmedIsTrue
  BY <1>5 DEF Init, Leaving, Referenced, ConfirmedIsTrue
<1> QED BY <1>1, <1>2, <1>3, <1>4, <1>6, TypeParts DEF IInv

LEMMA NextKeeps == IInv /\ [Next]_vars => IInv'
<1> SUFFICES ASSUME IInv, [Next]_vars PROVE IInv'
  OBVIOUS
<1>1. CASE UNCHANGED vars
  <2>1. /\ rec' = rec /\ stored' = stored /\ manual' = manual /\ exchanges' = exchanges
        /\ live' = live /\ spent' = spent /\ ours' = ours /\ saved' = saved
        /\ at' = at /\ held' = held /\ drop' = drop /\ logout' = logout
    BY <1>1 DEF vars
  <2>2. TypeOK'
    BY <2>1 DEF IInv, TypeOK
  <2>3. Bounds' /\ Phases' /\ ManualNotStale' /\ ConfirmedIsTrue'
    BY <2>1 DEF IInv, Bounds, Phases, ManualNotStale, ConfirmedIsTrue
  <2>4. Exchanges' /\ Reachable'
    BY <2>1 DEF IInv, Exchanges, Reachable
  <2>5. Leaving' /\ Referenced'
    BY <2>1 DEF IInv, Leaving, Referenced
  <2> QED BY <2>2, <2>3, <2>4, <2>5 DEF IInv
<1>2. CASE Fails
  BY <1>2, FailsKeeps
<1>3. CASE BeginLogin
  BY <1>3, BeginLoginKeeps
<1>4. CASE Authorize
  BY <1>4, AuthorizeKeeps
<1>5. CASE BeginRefresh
  BY <1>5, BeginRefreshKeeps
<1>6. CASE Refresh
  BY <1>6, RefreshKeeps
<1>7. CASE RefreshRefused
  BY <1>7, RefreshRefusedKeeps
<1>8. CASE Save
  BY <1>8, SaveKeeps
<1>9. CASE Activate
  BY <1>9, ActivateKeeps
<1>10. CASE Drop
  BY <1>10, DropKeeps
<1>11. CASE BeginAccess
  BY <1>11, BeginAccessKeeps
<1>12. CASE Recover
  BY <1>12, RecoverKeeps
<1>13. CASE ReadTokens
  BY <1>13, ReadTokensKeeps
<1>14. ASSUME NEW local \in BOOLEAN, BeginLogout(local) PROVE IInv'
  BY <1>14, BeginLogoutKeeps
<1>15. CASE Collect
  BY <1>15, CollectKeeps
<1>16. ASSUME NEW x \in Exchange, Revoke(x) PROVE IInv'
  BY <1>16, RevokeKeeps
<1>17. CASE Revoked
  BY <1>17, RevokedKeeps
<1>18. ASSUME NEW x \in Exchange, Remove(x) PROVE IInv'
  BY <1>18, RemoveKeeps
<1>19. CASE Removed
  BY <1>19, RemovedKeeps
<1>20. CASE SignOut
  BY <1>20, SignOutKeeps
<1>21. CASE ClearManual
  BY <1>21, ClearManualKeeps
<1>22. CASE BeginManual
  BY <1>22, BeginManualKeeps
<1>23. CASE SaveManual
  BY <1>23, SaveManualKeeps
<1>24. CASE SelectManual
  BY <1>24, SelectManualKeeps
<1> QED BY <1>1, <1>2, <1>3, <1>4, <1>5, <1>6, <1>7, <1>8, <1>9, <1>10, <1>11,
     <1>12, <1>13, <1>14, <1>15, <1>16, <1>17, <1>18, <1>19, <1>20, <1>21, <1>22,
     <1>23, <1>24 DEF Next

(* The inductive invariant: what the record, the stored tokens and the     *)
(* issuer have to do with each other, and what a call in between knows.    *)
THEOREM Invariant == Spec => []IInv
<1> QED BY InitHolds, NextKeeps, PTL DEF Spec

(* Whatever fails, dies or cannot be read, and however many exchanges:     *)
(* the record names exactly what its status says it names.                 *)
THEOREM TypeCorrect == Spec => []TypeOK
<1>1. IInv => TypeOK
  BY DEF IInv
<1> QED BY <1>1, Invariant, PTL

(* No refresh sends a token that the issuer has rotated away, even after   *)
(* an exchange whose answer was never stored.                              *)
THEOREM SpentTokenNotReusedHolds == Spec => []SpentTokenNotReused
<1>1. IInv => SpentTokenNotReused
  BY DEF IInv, Exchanges, SpentTokenNotReused
<1> QED BY <1>1, Invariant, PTL

(* A logout that answers "confirmed" has had every token of the sign-in    *)
(* revoked.                                                                *)
THEOREM ConfirmedIsTrueHolds == Spec => []ConfirmedIsTrue
<1>1. IInv => ConfirmedIsTrue
  BY DEF IInv
<1> QED BY <1>1, Invariant, PTL

(* A stored token that the issuer honours is named by the record.          *)
THEOREM LiveTokensStayReferencedHolds == Spec => []LiveTokensStayReferenced
<1>1. IInv => LiveTokensStayReferenced
  BY ReferencedIsEnough DEF IInv
<1> QED BY <1>1, Invariant, PTL

(* No superseded manual token is answered.                                 *)
THEOREM ManualNotStaleHolds == Spec => []ManualNotStale
<1>1. IInv => ManualNotStale
  BY DEF IInv
<1> QED BY <1>1, Invariant, PTL

==============================================================================
