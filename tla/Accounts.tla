-------------------------------- MODULE Accounts --------------------------------
(***************************************************************************)
(* Users, their sign-in and their sessions: auth/auth.service.ts,            *)
(* users/users.service.ts, the JWT strategy, and the rate limit of             *)
(* common/security.ts.                                                      *)
(*                                                                         *)
(* A session is a token the server keeps nothing of: it ends when the account  *)
(* is no longer active or the password was changed in a later second than the  *)
(* one it was signed in.  A password is hashed, or compared, between reading a  *)
(* user and what follows from it.  Reset tokens and the attempts counted live   *)
(* in the memory of the process.                                            *)
(***************************************************************************)
EXTENDS Service

CONSTANTS
  Users, Passwords, Roles,
  Seeds(_),              \* bound: the accounts there may be from the start of a behaviour with such a scope
  Statuses,              \* bound: those an administrator sets
  Sessions, ResetTokens, \* bound: the tokens signed, and the reset tokens issued
  Clients,               \* the addresses logins come from
  EmailLimit, ClientLimit, Window, \* logins of an email, and of an address, within a window
  Lifetime,              \* of a reset token
  MaxTime                \* bound: seconds

UserStatus == {"INVITED", "ACTIVE", "SUSPENDED", "DISABLED"}

ASSUME AccountsAssumption ==
  /\ Statuses \subseteq UserStatus
  /\ EmailLimit \in Nat \ {0} /\ ClientLimit \in Nat \ {0} /\ Window \in Nat \ {0}
  /\ Lifetime \in Nat /\ MaxTime \in Nat
  /\ Users \cap Clients = {} /\ None \notin ResetTokens \cup Sessions \cup Users
  /\ \A occurring \in Scopes : \A seed \in Seeds(occurring) : \A u \in DOMAIN seed :
       seed[u].password \in Passwords /\ seed[u].roles \in SUBSET Roles

VARIABLES
  now,
  user,       \* the accounts: status, password and the second it was set in, roles
  session,    \* the tokens signed: for whom, when, with which roles and for which password
  reset,      \* the reset tokens: for whom, and until when
  resets,     \* history: how often each of them changed a password
  attempts,   \* how often an email, and an address, was let through to log in, by the second
  lookups     \* history: how often an account was looked up to log in, by the second

accountVars == <<now, user, session, reset, resets, attempts, lookups>>

NoUser == [status |-> "NONE"]
User == [status : UserStatus, password : Passwords, changed : 0..MaxTime, roles : SUBSET Roles]
NoSession == [user |-> "none"]
Session == [user : Users, iat : 0..MaxTime, password : Passwords, roles : SUBSET Roles]
NoReset == [user |-> "none"]
Tally == [0..MaxTime -> Nat]

LoggingIn == [phase : {"auditLogin", "sign"}, user : Users, password : Passwords, roles : SUBSET Roles]
Hashing == [phase : {"setPassword"}, user : Users, password : Passwords, token : ResetTokens \cup {"none"}]
Comparing == [phase : {"comparePassword"}, user : Users, current : Passwords, password : Passwords]
Editing == [phase : {"editUser"}, user : Users, status : UserStatus, password : Passwords \cup {"none"},
            roles : SUBSET Roles]

AccountsTypeOK ==
  /\ now \in 0..MaxTime
  /\ user \in [Users -> {NoUser} \cup User]
  /\ session \in [Sessions -> {NoSession} \cup Session]
  /\ reset \in [ResetTokens -> {NoReset} \cup [user : Users, expires : Nat]]
  /\ resets \in [ResetTokens -> Nat]
  /\ attempts \in [Users \cup Clients -> Tally] /\ lookups \in [Users -> Tally]
  /\ req \in [Processes -> {Idle} \cup LoggingIn \cup Hashing \cup Comparing \cup Editing]

Never == [time \in 0..MaxTime |-> 0]

AccountsInit ==
  /\ now = 0
  /\ \E seed \in Seeds(scope) :
       user = [u \in Users |-> IF u \in DOMAIN seed
                               THEN [status |-> "ACTIVE", password |-> seed[u].password, changed |-> 0, roles |-> seed[u].roles]
                               ELSE NoUser]
  /\ session = [s \in Sessions |-> NoSession]
  /\ reset = [t \in ResetTokens |-> NoReset] /\ resets = [t \in ResetTokens |-> 0]
  /\ attempts = [k \in Users \cup Clients |-> Never] /\ lookups = [u \in Users |-> Never]
-----------------------------------------------------------------------------
(* Logging in *)

\* Mutation: the first instant of the window is forgotten.
lately == {time \in 0..now : now - time < Window - 1}

\* The seconds that are not forgotten yet.
recent == {time \in 0..now : now - time < Window}

among(counts, times) == MapThenSumSet(LAMBDA time : counts[time], times)

\* What is remembered of an email or an address, and what once it has tried again.
tried(k) == among(attempts[k], recent)
counted(k) == [time \in 0..MaxTime |-> IF time \notin recent THEN 0
                                      ELSE IF time = now THEN attempts[k][time] + 1 ELSE attempts[k][time]]

\* Mutation: an address may try once more than its limit.
assertLooseLimits(u, client) ==
  IF tried(client) > ClientLimit THEN UNCHANGED <<attempts, lookups>>
  ELSE IF tried(u) >= EmailLimit
  THEN attempts' = [attempts EXCEPT ![client] = counted(client)] /\ UNCHANGED lookups
  ELSE /\ attempts' = [attempts EXCEPT ![client] = counted(client), ![u] = counted(u)]
       /\ lookups' = [lookups EXCEPT ![u][now] = @ + 1]

\* assertRateLimit of the address and then of the email: an attempt the second one
\* refuses has been counted by the first.
assertRateLimits(u, client) ==
  IF tried(client) >= ClientLimit THEN UNCHANGED <<attempts, lookups>>
  ELSE IF tried(u) >= EmailLimit
  THEN attempts' = [attempts EXCEPT ![client] = counted(client)] /\ UNCHANGED lookups
  ELSE /\ attempts' = [attempts EXCEPT ![client] = counted(client), ![u] = counted(u)]
       /\ lookups' = [lookups EXCEPT ![u][now] = @ + 1]

\* Attempts the limits refuse, and what becomes of those they do not.
attempt(r, u, client) ==
  /\ mayBegin(r, "rate") /\ assertRateLimits(u, client)
  /\ UNCHANGED <<now, user, session, reset, resets, req, scope>>

\* A login with the password the account has; any other one ends in an audit entry.
\* Bound: those the limits let pass.
login(r, u, password) ==
  /\ mayBegin(r, "login") /\ user[u] # NoUser /\ user[u].status = "ACTIVE" /\ user[u].password = password
  /\ \E s \in Sessions : session[s] = NoSession
  /\ become(r, [phase |-> "auditLogin", user |-> u, password |-> password, roles |-> user[u].roles])
  /\ UNCHANGED <<accountVars, scope>>

\* Also marks the login.
auditLogin(r) ==
  /\ at(r, "auditLogin")
  /\ \/ become(r, [req[r] EXCEPT !.phase = "sign"])
     \/ "logFails" \in scope /\ become(r, Idle)
  /\ UNCHANGED <<accountVars, scope>>

\* Bound: no more than there are tokens left.
sign(r) ==
  /\ at(r, "sign")
  /\ \/ \E s \in Sessions :
          /\ session[s] = NoSession
          /\ session' = [session EXCEPT ![s] = [user |-> req[r].user, iat |-> now, password |-> req[r].password,
                                                 roles |-> req[r].roles]]
     \/ UNCHANGED session /\ \A s \in Sessions : session[s] # NoSession
  /\ become(r, Idle)
  /\ UNCHANGED <<now, user, reset, resets, attempts, lookups, scope>>

\* The JWT strategy, on every request but the public ones.
validate(s) ==
  /\ session[s] # NoSession /\ user[session[s].user].status = "ACTIVE"
  /\ session[s].iat >= user[session[s].user].changed
-----------------------------------------------------------------------------
(* Passwords *)

hashing(u, password, token) == [phase |-> "setPassword", user |-> u, password |-> password, token |-> token]

changePassword(r, s, current, password) ==
  /\ mayBegin(r, "password") /\ validate(s)
  /\ become(r, [phase |-> "comparePassword", user |-> session[s].user, current |-> current, password |-> password])
  /\ UNCHANGED <<accountVars, scope>>

comparePassword(r) ==
  /\ at(r, "comparePassword")
  /\ become(r, IF user[req[r].user].password = req[r].current
               THEN hashing(req[r].user, req[r].password, "none") ELSE Idle)
  /\ UNCHANGED <<accountVars, scope>>

\* Whatever the status of the account.
requestPasswordReset(r, t, u) ==
  /\ mayBegin(r, "reset") /\ user[u] # NoUser /\ reset[t] = NoReset /\ resets[t] = 0
  /\ \A q \in Processes : at(q, "setPassword") => req[q].token # t
  /\ reset' = [reset EXCEPT ![t] = [user |-> u, expires |-> now + Lifetime]]
  /\ UNCHANGED <<now, user, session, resets, attempts, lookups, req, scope>>

\* Mutation: the token is not taken.
confirmAnyReset(r, t, password) ==
  /\ mayBegin(r, "reset") /\ reset[t] # NoReset
  /\ become(r, IF reset[t].expires < now THEN Idle ELSE hashing(reset[t].user, password, t))
  /\ UNCHANGED <<accountVars, scope>>

\* The token is taken before anything is awaited.
confirmPasswordReset(r, t, password) ==
  /\ mayBegin(r, "reset") /\ reset[t] # NoReset
  /\ reset' = [reset EXCEPT ![t] = NoReset]
  /\ become(r, IF reset[t].expires < now THEN Idle ELSE hashing(reset[t].user, password, t))
  /\ UNCHANGED <<now, user, session, resets, attempts, lookups, scope>>

\* Mutation: the time of the change is not stored.
setPasswordOnly(r) ==
  LET q == req[r]
  IN /\ at(r, "setPassword")
     /\ user' = [user EXCEPT ![q.user].password = q.password, ![q.user].status = "ACTIVE"]
     /\ resets' = IF q.token = "none" THEN resets ELSE [resets EXCEPT ![q.token] = @ + 1]
     /\ become(r, Idle)
     /\ UNCHANGED <<now, session, reset, attempts, lookups, scope>>

\* updatePassword: the account is active from then on, whatever it was.
setPassword(r) ==
  LET q == req[r]
  IN /\ at(r, "setPassword")
     /\ user' = [user EXCEPT ![q.user].password = q.password, ![q.user].changed = now, ![q.user].status = "ACTIVE"]
     /\ resets' = IF q.token = "none" THEN resets ELSE [resets EXCEPT ![q.token] = @ + 1]
     /\ become(r, Idle)
     /\ UNCHANGED <<now, session, reset, attempts, lookups, scope>>
-----------------------------------------------------------------------------
(* Accounts *)

\* register and inviteUser; the second one of the same email is refused by the table.
createUser(r, u, status, password, roles) ==
  /\ mayBegin(r, "create") /\ user[u] = NoUser
  /\ user' = [user EXCEPT ![u] = [status |-> status, password |-> password, changed |-> now, roles |-> roles]]
  /\ UNCHANGED <<now, session, reset, resets, attempts, lookups, req, scope>>

\* update: any of the three may be sent.
updateUser(r, u, status, password, roles) ==
  /\ mayBegin(r, "edit") /\ user[u] # NoUser
  /\ password # "none" => "password" \in scope
  /\ status # user[u].status => "suspend" \in scope
  /\ roles # user[u].roles => "roles" \in scope
  /\ become(r, [phase |-> "editUser", user |-> u, status |-> status, password |-> password, roles |-> roles])
  /\ UNCHANGED <<accountVars, scope>>

writeUser(r) ==
  LET q == req[r]
      edited == [user EXCEPT ![q.user].status = q.status, ![q.user].roles = q.roles]
  IN /\ at(r, "editUser")
     /\ user' = IF q.password = "none" THEN edited
                ELSE [edited EXCEPT ![q.user].password = q.password, ![q.user].changed = now]
     /\ become(r, Idle)
     /\ UNCHANGED <<now, session, reset, resets, attempts, lookups, scope>>
-----------------------------------------------------------------------------
tick == "time" \in scope /\ now < MaxTime /\ now' = now + 1 /\ UNCHANGED <<user, session, reset, resets, attempts, lookups, req, scope>>

\* What is in memory is lost.
restart ==
  /\ "crash" \in scope
  /\ reset' = [t \in ResetTokens |-> NoReset] /\ attempts' = [k \in Users \cup Clients |-> Never]
  /\ req' = [r \in Processes |-> Idle]
  /\ UNCHANGED <<now, user, session, resets, lookups, scope>>

AccountsStep(r) == auditLogin(r) \/ sign(r) \/ comparePassword(r) \/ setPassword(r) \/ writeUser(r)

AccountsNext ==
  \/ tick \/ restart
  \/ \E r \in Requests :
    \/ AccountsStep(r)
    \/ \E u \in Users, c \in Clients : attempt(r, u, c)
    \/ \E t \in ResetTokens, u \in Users : requestPasswordReset(r, t, u)
    \/ \E t \in ResetTokens, password \in Passwords : confirmPasswordReset(r, t, password)
    \/ \E s \in Sessions, current, password \in Passwords : changePassword(r, s, current, password)
    \/ \E u \in Users, password \in Passwords :
         \/ login(r, u, password)
         \/ \E roles \in SUBSET Roles, status \in {"INVITED", "ACTIVE"} : createUser(r, u, status, password, roles)
    \/ \E u \in Users, status \in Statuses, password \in Passwords \cup {"none"}, roles \in SUBSET Roles :
         updateUser(r, u, status, password, roles)
-----------------------------------------------------------------------------
(* Properties *)

\* A reset token changes a password once at most, however its confirmations
\* overlap and whenever the process restarts.
ResetOnce == \A t \in ResetTokens : resets[t] <= 1

\* A session signed for a password the account no longer has is not valid, unless
\* it was signed in the very second of the change, or the change fell between the
\* reading of the password and the signing.
SupersededSessionsEnd ==
  Without({"overlap"}) =>
    \A s \in Sessions :
      LET u == user[session[s].user]
      IN validate(s) => session[s].password = u.password \/ session[s].iat = u.changed

\* No address is remembered with more attempts than its limit, and within a window no
\* account is looked up for a login more often than the limit says, from however many
\* addresses, unless the process restarts.
WithinRate ==
  /\ \A client \in Clients : among(attempts[client], 0..now) <= ClientLimit
  /\ Without({"crash"}) =>
       \A u \in Users, first \in 0..MaxTime :
         among(lookups[u], {time \in 0..now : time - first \in 0..Window - 1}) <= EmailLimit
===============================================================================
