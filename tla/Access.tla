------------------------------- MODULE Access -------------------------------
(***************************************************************************)
(* Who may PUT a bag: registration through ORCID (routes.py), the table of *)
(* users and their tokens (auth.py), and what an administrator permits     *)
(* them (commands.py), around the handlers of BagStore.                    *)
(*                                                                         *)
(* A user has one browser, whose cookie holds the state token of the last  *)
(* /register.  ORCID sends the tab that asked back to /registered, which   *)
(* asks ORCID for an access token, stores it and answers with it.  Several *)
(* tabs may be on their way.  Registration k has the state token k, and    *)
(* brings the access token <<user, k>> unless ORCID gives the one that the *)
(* user had before.                                                        *)
(***************************************************************************)
EXTENDS BagStore

CONSTANTS
  Registered,       \* users who registered earlier
  MaxRegistrations

ASSUME AccessAssumption == Registered \subseteq Users /\ MaxRegistrations \in Nat

VARIABLES
  user,             \* table user
  cookie,           \* session["state_token"] in the browser of each user
  tab,              \* the registrations, in the order of /register
  held,             \* tokens that the clients of each user have received
  granted,          \* what the administrator permitted last (history variable)
  overtaken         \* workers whose user lost a permission meanwhile (likewise)

accessVars == <<user, cookie, tab, held, granted, overtaken>>
allVars == <<vars, accessVars>>

NoState == 0
NoToken == <<>>
Tokens == Users \X (0..MaxRegistrations)
EarlierToken(u) == <<u, 0>>

(* Of what users may be permitted, only this matters to bags.              *)
Needs == {"create-bag"}
DefaultsWithAccept == Needs \cup {"accept-patch"}
DEFAULT_PERMISSIONS == Needs

(* A user who is not in the table has no token there.                      *)
Accounts == [token : Tokens \cup {NoToken}, expired : BOOLEAN, permissions : SUBSET Needs]
NoAccount == [token |-> NoToken, expired |-> FALSE, permissions |-> {}]
InTable(u) == user[u].token # NoToken

Tabs == [user : Users, pc : {"orcid", "exchange", "answer", "done", "refused", "failed"},
         token : Tokens \cup {NoToken}, crossed : BOOLEAN]

-----------------------------------------------------------------------------
(* register(): a new state token replaces that of a tab still on its way.  *)
(* The tabs that this crosses are marked, for the properties.              *)
UnderWay(k) == tab[k].pc \in {"orcid", "exchange", "answer"}
CookieKept(u, state) == IF cookie[u] = NoState THEN state ELSE cookie[u]
Cookie(u, state) == state

Register(u) ==
  /\ Len(tab) < MaxRegistrations
  /\ LET others == {k \in DOMAIN tab : tab[k].user = u /\ UnderWay(k)}
         marked == [k \in DOMAIN tab |-> IF k \in others THEN [tab[k] EXCEPT !.crossed = TRUE]
                                                         ELSE tab[k]]
     IN tab' = Append(marked, [user |-> u, pc |-> "orcid", token |-> NoToken,
                               crossed |-> others # {}])
  /\ cookie' = [cookie EXCEPT ![u] = Cookie(u, Len(tab) + 1)]
  /\ UNCHANGED <<vars, user, held, granted, overtaken>>

(* registered(): the state token is compared with the one in the cookie.   *)
StateMatches(k) == cookie[tab[k].user] = k

(* The response to a tab takes the state token from the cookie, whichever  *)
(* is there by then, because the handler has popped one.                   *)
Answered(k, pc) ==
  /\ tab' = [tab EXCEPT ![k].pc = pc]
  /\ cookie' = [cookie EXCEPT ![tab[k].user] = NoState]

Callback(k) ==
  /\ tab[k].pc = "orcid"
  /\ \/ StateMatches(k) /\ tab' = [tab EXCEPT ![k].pc = "exchange"] /\ UNCHANGED cookie
     \/ ~StateMatches(k) /\ Answered(k, "refused")
  /\ UNCHANGED <<vars, user, held, granted, overtaken>>

-----------------------------------------------------------------------------
(* add_user_or_update_credentials(): INSERT OR IGNORE, and UPDATE of a row *)
(* that was there, in one transaction.                                     *)
NewAccount(token) ==
  [token |-> token, expired |-> FALSE, permissions |-> DEFAULT_PERMISSIONS]
AccountReplaced(u, token) == NewAccount(token)
AccountKeepingToken(u, token) ==
  IF InTable(u) THEN [user[u] EXCEPT !.expired = FALSE] ELSE NewAccount(token)
Account(u, token) ==
  IF InTable(u) THEN [user[u] EXCEPT !.token = token, !.expired = FALSE]
  ELSE NewAccount(token)

(* ORCID gives a new token or the one that it gave the user before.        *)
Exchange(k) ==
  /\ tab[k].pc = "exchange"
  /\ LET u == tab[k].user
     IN \E token \in {<<u, k>>} \cup (IF InTable(u) THEN {user[u].token} ELSE {}) :
          /\ user' = [user EXCEPT ![u] = Account(u, token)]
          /\ tab' = [tab EXCEPT ![k].pc = "answer", ![k].token = token]
          /\ granted' = IF InTable(u) THEN granted ELSE [granted EXCEPT ![u] = DEFAULT_PERMISSIONS]
  /\ UNCHANGED <<vars, cookie, held, overtaken>>

(* ORCID does not answer, or with an error, which has no access token.     *)
ExchangeFails(k) ==
  /\ tab[k].pc = "exchange"
  /\ Answered(k, "failed")
  /\ UNCHANGED <<vars, user, held, granted, overtaken>>

Receive(k) ==
  /\ tab[k].pc = "answer"
  /\ Answered(k, "done")
  /\ held' = [held EXCEPT ![tab[k].user] = @ \cup {tab[k].token}]
  /\ UNCHANGED <<vars, user, granted, overtaken>>

(* The worker dies, before or after it stored the token: the cookie stays. *)
Lose(k) ==
  /\ tab[k].pc \in {"exchange", "answer"}
  /\ tab' = [tab EXCEPT ![k].pc = "failed"]
  /\ UNCHANGED <<vars, user, cookie, held, granted, overtaken>>

-----------------------------------------------------------------------------
(* set_permissions() of the command line.                                  *)
Acting(w) == ~At(w, "idle") /\ ~At(w, "done")

SetPermissions(u, permissions) ==
  /\ InTable(u)
  /\ user' = [user EXCEPT ![u].permissions = permissions]
  /\ granted' = [granted EXCEPT ![u] = permissions]
  /\ overtaken' = overtaken \cup {w \in Workers : Acting(w) /\ worker[w].user = u}
  /\ UNCHANGED <<vars, cookie, tab, held>>

(* token_expires_at passes.                                                *)
Expire(u) ==
  /\ InTable(u) /\ ~user[u].expired
  /\ user' = [user EXCEPT ![u].expired = TRUE]
  /\ overtaken' = overtaken \cup {w \in Workers : Acting(w) /\ worker[w].user = u}
  /\ UNCHANGED <<vars, cookie, tab, held, granted>>

-----------------------------------------------------------------------------
(* _get_identity() and update_bag_permission.require().                    *)
IdentityEvenExpired(token) == {u \in Users : user[u].token = token}
Identity(token) == {u \in Users : user[u].token = token /\ ~user[u].expired}
MayPut(u) == "create-bag" \in user[u].permissions

Unauthenticated(w, token) == Identity(token) = {} /\ Answer(w, 401)
Forbidden(w, u) == ~MayPut(u) /\ Answer(w, 403)

BearerPut(w, token, uuid, items) ==
  /\ At(w, "idle")
  /\ \/ Unauthenticated(w, token) /\ UNCHANGED <<bag, dataset>>
     \/ \E u \in Identity(token) :
          \/ Forbidden(w, u) /\ UNCHANGED <<bag, dataset>>
          \/ MayPut(u) /\ Put(w, u, uuid, items)
  /\ overtaken' = overtaken \ {w}
  /\ UNCHANGED <<user, cookie, tab, held, granted>>

-----------------------------------------------------------------------------
AccessInit ==
  /\ Init
  /\ user = [u \in Users |-> IF u \in Registered THEN NewAccount(EarlierToken(u)) ELSE NoAccount]
  /\ held = [u \in Users |-> IF u \in Registered THEN {EarlierToken(u)} ELSE {}]
  /\ granted = [u \in Users |-> user[u].permissions]
  /\ cookie = [u \in Users |-> NoState]
  /\ tab = <<>>
  /\ overtaken = {}

Handling(w) == PutItems(w) \/ PutOwner(w) \/ PutNumber(w) \/ PutInsert(w) \/ Fail(w) \/ Done(w)

AccessNext ==
  \/ \E w \in Workers, uuid \in Uuids, items \in Listings :
       \E token \in UNION {held[u] : u \in Users} : BearerPut(w, token, uuid, items)
  \/ (DatasetChange \/ \E w \in Workers : Handling(w)) /\ UNCHANGED accessVars
  \/ \E u \in Users :
       \/ Register(u)
       \/ Expire(u)
       \/ \E permissions \in SUBSET Needs : SetPermissions(u, permissions)
  \/ \E k \in DOMAIN tab :
       Callback(k) \/ Exchange(k) \/ ExchangeFails(k) \/ Receive(k) \/ Lose(k)

AccessSpec == AccessInit /\ [][AccessNext]_allVars

-----------------------------------------------------------------------------
(* Properties.                                                             *)

(* The table of users, cookies and registrations have their types.         *)
AccessTypeOK ==
  /\ user \in [Users -> Accounts] /\ granted \in [Users -> SUBSET Needs]
  /\ cookie \in [Users -> 0..MaxRegistrations]
  /\ tab \in Seq(Tabs) /\ held \in [Users -> SUBSET Tokens]
  /\ overtaken \subseteq Workers

(* Whoever PUTs a bag had the permission and an unexpired token when the   *)
(* request came, and has them still unless an administrator or the clock   *)
(* came between (_get_identity, auth.py:218-247).                          *)
PutsArePermitted ==
  \A w \in Workers :
    Acting(w) /\ w \notin overtaken =>
      MayPut(worker[w].user) /\ ~user[worker[w].user].expired

(* To register again changes nothing of what a user is permitted           *)
(* (add_user_or_update_credentials, auth.py:174-213).                      *)
PermissionsAsGranted ==
  \A u \in Users : InTable(u) => user[u].permissions = granted[u]

(* The access token that a registration answers with is the one that       *)
(* works, if no other registration of the user crossed it or stored a      *)
(* token after it (auth.py:174-215).                                       *)
NewestTokenWorks ==
  \A k \in DOMAIN tab :
    /\ tab[k].pc \in {"answer", "done"} /\ ~tab[k].crossed
    /\ \A j \in k + 1..Len(tab) : tab[j].user = tab[k].user => tab[j].token = NoToken
    => user[tab[k].user].token = tab[k].token

(* A registration is refused only if another one of the same browser was   *)
(* on its way with it (registered, routes.py:180-182).                     *)
RefusalsHaveACause == \A k \in DOMAIN tab : tab[k].pc = "refused" => tab[k].crossed
=============================================================================
