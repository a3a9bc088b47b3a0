-------------------------------- MODULE WebSession --------------------------------
(***************************************************************************)
(* One tab of the web application: components/auth-provider.tsx, the          *)
(* interceptors of lib/api/client.ts, the login page and the shell.           *)
(*                                                                         *)
(* The session storage keeps a token and a user; React keeps them too.  When   *)
(* the application starts, it takes the stored ones and asks the API who the    *)
(* token belongs to; the login page waits for that no more than for anything.   *)
(* An answer of 401 empties the storage, and leaves what React keeps.          *)
(***************************************************************************)
EXTENDS Accounts, Permissions

CONSTANTS
  rolePermissions,  \* the permissions of each role
  MaxReloads        \* bound: reloads of the tab

ASSUME WebSessionAssumption ==
  /\ MaxReloads \in Nat /\ {"mount", "unauthorized"} \cap Sessions = {}

VARIABLES
  storage,  \* the session storage: token and user
  shown,    \* what React keeps: token and user, and whether it is ready
  header,   \* the default authorization header
  pending,  \* requests of the tab that are not answered: the check at the start, a login, a call
  given,    \* the tokens the tab was given
  reloads   \* how often it was reloaded

tabVars == <<storage, shown, header, pending, given, reloads>>

Tokens == Sessions \cup {None}
Nobody == [user |-> None]
Profile == {Nobody} \cup [user : Users, roles : SUBSET Roles]
Signed(token, profile) == [token |-> token, user |-> profile]
SignedOut == Signed(None, Nobody)

TabTypeOK ==
  /\ storage \in [token : Tokens, user : Profile]
  /\ shown \in [token : Tokens, user : Profile, ready : BOOLEAN] /\ header \in Tokens
  /\ pending \in [start : Tokens \cup {"mount"}, login : Users \cup {None}, call : Tokens \cup {"unauthorized"}]
  /\ given \subseteq Sessions /\ reloads \in 0..MaxReloads

Fresh == [token |-> None, user |-> Nobody, ready |-> FALSE]
Mounting == [start |-> "mount", login |-> None, call |-> None]

WebSessionInit ==
  /\ storage = SignedOut /\ shown = Fresh /\ header = None /\ pending = Mounting
  /\ given = {} /\ reloads = 0

\* The request interceptor.
tokenSent == IF storage.token # None THEN storage.token ELSE header
-----------------------------------------------------------------------------
(* Starting *)

reload ==
  /\ "reload" \in scope /\ reloads < MaxReloads /\ reloads' = reloads + 1
  /\ shown' = Fresh /\ header' = None /\ pending' = Mounting
  /\ UNCHANGED <<storage, given>>

\* The effect of AuthProvider.
start ==
  /\ pending.start = "mount"
  /\ shown' = [token |-> storage.token, user |-> storage.user, ready |-> storage.token = None]
  /\ header' = IF storage.token # None THEN storage.token ELSE header
  /\ pending' = [pending EXCEPT !.start = storage.token]
  /\ UNCHANGED <<storage, given, reloads>>

\* getMe is answered: with the user as it is now, or with an error.
startAnswered ==
  /\ pending.start \in Sessions
  /\ \/ /\ validate(pending.start)
        /\ LET u == session[pending.start].user
               profile == [user |-> u, roles |-> user[u].roles]
           IN /\ storage' = [storage EXCEPT !.user = profile]
              /\ shown' = [shown EXCEPT !.user = profile, !.ready = TRUE]
        /\ UNCHANGED header
     \/ /\ validate(pending.start) => "lost" \in scope
        /\ storage' = SignedOut /\ shown' = [Fresh EXCEPT !.ready = TRUE] /\ header' = None
  /\ pending' = [pending EXCEPT !.start = None]
  /\ UNCHANGED <<given, reloads>>
-----------------------------------------------------------------------------
(* Logging in and out *)

loginPage == pending.start # "mount" /\ pending.login = None

submitLogin(u) ==
  /\ loginPage /\ (pending.start # None => "early" \in scope)
  /\ pending' = [pending EXCEPT !.login = u]
  /\ UNCHANGED <<storage, shown, header, given, reloads>>

\* Mutation: React keeps the user it shows.
loginBehind(s) ==
  /\ pending.login # None /\ session[s] # NoSession /\ session[s].user = pending.login
  /\ s \notin given /\ given' = given \cup {s}
  /\ LET signed == Signed(s, [user |-> session[s].user, roles |-> session[s].roles])
     IN /\ storage' = signed
        /\ shown' = [shown EXCEPT !.token = s, !.user = IF shown.user = Nobody THEN signed.user ELSE @]
  /\ header' = s
  /\ pending' = [pending EXCEPT !.login = None]
  /\ UNCHANGED reloads

\* The API has signed a token for the login.
loginAnswered(s) ==
  /\ pending.login # None /\ session[s] # NoSession /\ session[s].user = pending.login
  /\ s \notin given /\ given' = given \cup {s}
  /\ LET signed == Signed(s, [user |-> session[s].user, roles |-> session[s].roles])
     IN storage' = signed /\ shown' = [shown EXCEPT !.token = signed.token, !.user = signed.user]
  /\ header' = s
  /\ pending' = [pending EXCEPT !.login = None]
  /\ UNCHANGED reloads

\* It has refused it, with a 401.
loginRefused ==
  /\ pending.login # None
  /\ storage' = SignedOut /\ header' = None
  /\ pending' = [pending EXCEPT !.login = None]
  /\ UNCHANGED <<shown, given, reloads>>

\* Mutation: the default header stays.
logoutOfStorage ==
  /\ "logout" \in scope /\ shown.ready /\ shown.token # None
  /\ storage' = SignedOut /\ shown' = [shown EXCEPT !.token = None, !.user = Nobody]
  /\ UNCHANGED <<header, pending, given, reloads>>

logout ==
  /\ "logout" \in scope /\ shown.ready /\ shown.token # None
  /\ storage' = SignedOut /\ shown' = [shown EXCEPT !.token = None, !.user = Nobody] /\ header' = None
  /\ UNCHANGED <<pending, given, reloads>>
-----------------------------------------------------------------------------
(* Working *)

\* AppShell shows the pages to somebody who is signed in.
appShell == shown.ready /\ shown.token # None /\ shown.user # Nobody

callApi ==
  /\ "call" \in scope /\ appShell /\ pending.call = None
  /\ pending' = [pending EXCEPT !.call = IF tokenSent = None THEN "unauthorized" ELSE tokenSent]
  /\ UNCHANGED <<storage, shown, header, given, reloads>>

callAnswered ==
  /\ pending.call # None
  /\ IF pending.call \in Sessions /\ validate(pending.call) THEN UNCHANGED <<storage, header>>
     ELSE storage' = SignedOut /\ header' = None
  /\ pending' = [pending EXCEPT !.call = None]
  /\ UNCHANGED <<shown, given, reloads>>
-----------------------------------------------------------------------------
WebSessionNext ==
  \/ reload \/ start \/ startAnswered \/ loginRefused \/ logout \/ callApi \/ callAnswered
  \/ \E u \in Users : submitLogin(u)
  \/ \E s \in Sessions : loginAnswered(s)
-----------------------------------------------------------------------------
(* Properties *)

permissionsOf(roles) == UNION {rolePermissions[role] : role \in roles}

\* What the menus and buttons offer, the API lets the holder of the token do, as
\* long as the session is valid: through logins of different people in one tab,
\* reloads, and sessions that end.  Not if the roles change, if somebody logs in
\* before the check at the start is answered or a call of the last session is,
\* and not for the two permissions the tables of names disagree about: the web
\* application takes who may create a workflow, as two roles of the seed may, for one
\* who may manage it, and the other way round.
OfferedIsAllowed ==
  appShell /\ storage.token # None /\ validate(storage.token) /\ Without({"roles", "early"}) =>
    LET u == user[session[storage.token].user]
    IN \A permission \in permissionsOf(Roles) \ {"workflow:create", "workflow.manage"} :
         can(shown.user.roles, permissionsOf(shown.user.roles), permission)
           => canActivate(u.roles, permissionsOf(u.roles), {permission})

\* A tab that shows nobody keeps no token, and sends none.
SignedOutKeepsNothing ==
  shown.ready /\ shown.user = Nobody /\ Without({"early"}) => storage.token = None /\ header = None
===============================================================================
