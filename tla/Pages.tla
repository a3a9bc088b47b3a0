-------------------------------- MODULE Pages --------------------------------
(***************************************************************************)
(* The pages of PageTables at work in the tab of WebSession: what they show    *)
(* of one record comes from a cache, and what their forms send may come from   *)
(* what they showed.                                                        *)
(*                                                                         *)
(* The cache is that of react-query, configured in app/providers.tsx: an        *)
(* answer is fresh for a while; a page that opens shows what there is, and      *)
(* fetches it if there is nothing or it is stale; an invalidation makes entries *)
(* stale, and those on display are fetched again, in place of a fetch under    *)
(* way if there is something on display already.  The cache outlives the page,  *)
(* and a logout.  A record is its version: how often it was changed.           *)
(***************************************************************************)
EXTENDS WebSession, PageTables

CONSTANT MaxChanges   \* bound: changes of the record

ASSUME PagesAssumption == MaxChanges \in Nat

VARIABLES
  page,     \* the page on display
  version,  \* of the record, in the API
  cache,    \* of each key: the version it shows, and whether it is stale
  fetch,    \* of each key: the answer on its way
  filled,   \* the version the form on display was filled from
  operation,\* the operation under way
  mine      \* history: the last version this tab was told it had made, of the record
            \* on its own page, and on the page on display

pageVars == <<page, version, cache, fetch, filled, operation, mine>>

Kinds == DOMAIN kinds
\* The kind of record this behaviour is about.
kind == CHOOSE k \in scope : k \in Kinds
paging == scope \cap Kinds # {}

Closed == "closed"
Elsewhere == "elsewhere"
Keys == IF paging THEN kinds[kind].keys ELSE {}
keysOf(p) == IF p \in DOMAIN pages THEN pages[p].reads \cap kinds[kind].keys ELSE {}
operationsOf(p) == IF p \in DOMAIN pages THEN {o \in pages[p].operations : kind \in o.about} ELSE {}
\* Bound: pages that show the record or have an operation on it.
Concerned == {p \in DOMAIN pages : keysOf(p) # {} \/ operationsOf(p) # {}}
ownPage(p) == \E key \in keysOf(p) : key[Len(key)] = "id"

Absent == [version |-> -1]
NoAnswer == -1
Unauthorized == -2
Forbidden == -3
NoOperation == [stage |-> "none"]
NotFilled == -1

PageOperations == UNION {pages[p].operations : p \in DOMAIN pages}
UnderWay == [stage : {"sent", "failed", "done", "awaiting"}, of : PageOperations, on : DOMAIN pages,
             base : NotFilled..MaxChanges, made : 0..MaxChanges]

PagesTypeOK ==
  /\ page \in DOMAIN pages \cup {Closed, Elsewhere} /\ version \in 0..MaxChanges
  /\ cache \in [Keys -> {Absent} \cup [version : 0..version, stale : BOOLEAN]]
  /\ fetch \in [Keys -> Forbidden..version]
  /\ filled \in NotFilled..version
  /\ operation \in {NoOperation} \cup UnderWay
  /\ operation # NoOperation =>
       operation.of \in operationsOf(operation.on) /\ operation.base <= version /\ operation.made <= version
  /\ mine \in [record : 0..version, here : 0..version]

PagesInit ==
  /\ page = Closed /\ version = 0 /\ filled = NotFilled /\ operation = NoOperation
  /\ cache = [key \in Keys |-> Absent] /\ fetch = [key \in Keys |-> NoAnswer]
  /\ mine = [record |-> 0, here |-> 0]
-----------------------------------------------------------------------------
(* Requests *)

\* What a session lets its user do.
served(s, required) ==
  LET u == user[session[s].user] IN mayCall(u.roles, permissionsOf(u.roles), required)

\* The tab keeps a token of somebody who may read the record.
mayRead == paging /\ storage.token # None /\ served(storage.token, kinds[kind].needs)

\* How the API answers a request with the token that is sent now.
refusal(required) ==
  CASE required = Public -> NoAnswer
    [] tokenSent = None \/ ~validate(tokenSent) -> Unauthorized
    [] OTHER -> IF served(tokenSent, required) THEN NoAnswer ELSE Forbidden

\* What a fetch of the record brings.  It is read when it is asked for: an answer
\* that is read later is what a fetch asked for later brings.
asked == LET refused == refusal(kinds[kind].needs) IN IF refused = NoAnswer THEN version ELSE refused

\* The response interceptor.
signOutIf(refused) ==
  IF refused THEN storage' = SignedOut /\ header' = None /\ UNCHANGED <<shown, pending, given, reloads>>
  ELSE UNCHANGED tabVars

isPrefixOf(prefix, key) == Len(prefix) <= Len(key) /\ \A i \in DOMAIN prefix : prefix[i] = key[i]
matching(invalidated) == {key \in Keys : \E prefix \in invalidated : isPrefixOf(prefix, key)}
settled(keys) == \A key \in keys : fetch[key] = NoAnswer
-----------------------------------------------------------------------------
(* Navigation *)

\* A page is mounted: p, with what the cache has after c.
mount(p, c) ==
  /\ page' = p
  /\ fetch' = [key \in Keys |-> IF key \in keysOf(p) /\ fetch[key] = NoAnswer /\ (c[key] = Absent \/ c[key].stale)
                                   THEN asked ELSE fetch[key]]
  /\ filled' = LET shownOnes == {key \in keysOf(p) : c[key] # Absent}
               IN IF (\E o \in operationsOf(p) : o.shape = "edit") /\ shownOnes # {}
                  THEN c[CHOOSE key \in shownOnes : TRUE].version ELSE NotFilled

\* A link, or the menu: AppShell shows what the user may see of it.  Without
\* "hasty" everything under way is waited for.
openPage(p) ==
  /\ appShell /\ pending.login = None /\ p # page
  /\ p \in DOMAIN navGroups => can(shown.user.roles, permissionsOf(shown.user.roles), navGroups[p])
  /\ "hasty" \in scope \/ (operation = NoOperation /\ settled(Keys))
  /\ mount(p, cache) /\ mine' = [mine EXCEPT !.here = 0]
  /\ UNCHANGED <<version, cache, operation, tabVars>>

\* An answer arrives; a form that waits for it is filled.
arrive(key) ==
  /\ fetch[key] # NoAnswer /\ fetch' = [fetch EXCEPT ![key] = NoAnswer]
  /\ IF fetch[key] < 0 THEN UNCHANGED <<cache, filled>>
     ELSE /\ cache' = [cache EXCEPT ![key] = [version |-> fetch[key], stale |-> FALSE]]
          /\ filled' = IF filled = NotFilled /\ key \in keysOf(page) /\ \E o \in operationsOf(page) : o.shape = "edit"
                       THEN fetch[key] ELSE filled
  /\ signOutIf(fetch[key] = Unauthorized)
  /\ UNCHANGED <<page, version, operation, mine>>

outdated(entry) == [version |-> entry.version, stale |-> TRUE]

\* staleTime has passed.
age(key) ==
  /\ cache[key] # Absent /\ ~cache[key].stale /\ cache' = [cache EXCEPT ![key] = outdated(@)]
  /\ UNCHANGED <<page, version, fetch, filled, operation, mine, tabVars>>

\* invalidateQueries.
invalidate(invalidated) ==
  LET stale == matching(invalidated)
  IN /\ cache' = [key \in Keys |-> IF key \in stale /\ cache[key] # Absent THEN outdated(cache[key])
                                      ELSE cache[key]]
     /\ fetch' = [key \in Keys |-> IF key \in stale \cap keysOf(page) /\ (cache[key] # Absent \/ fetch[key] = NoAnswer)
                                      THEN asked ELSE fetch[key]]

\* The button of the dashboard.
refresh ==
  /\ page = "Dashboard"
  /\ invalidate(DashboardPage.reads \ {<<"health">>})
  /\ UNCHANGED <<page, version, filled, operation, mine, tabVars>>

\* A row is taken into the form.
fillFromRow(key) ==
  /\ key \in keysOf(page) /\ cache[key] # Absent /\ \E o \in operationsOf(page) : o.shape = "row"
  /\ operation = NoOperation /\ filled' = cache[key].version
  /\ UNCHANGED <<page, version, cache, fetch, operation, mine, tabVars>>
-----------------------------------------------------------------------------
(* Operations *)

\* A button is pressed or a form submitted.  A Form is there before the page has
\* loaded anything; without "eager" that is waited for.
press(o) ==
  /\ operation = NoOperation /\ o \in operationsOf(page)
  /\ o.gate = Ungated \/ can(shown.user.roles, permissionsOf(shown.user.roles), o.gate)
  /\ o.shape \in {"edit", "row"} => filled # NotFilled
  /\ (o.shape # "form" \/ "eager" \notin scope) => \A key \in keysOf(page) : cache[key] # Absent
  /\ operation' = [stage |-> "sent", of |-> o, on |-> page, base |-> IF o.shape \in {"edit", "row"} THEN filled ELSE NotFilled,
                    made |-> 0]
  /\ UNCHANGED <<page, version, cache, fetch, filled, mine, tabVars>>

\* The API does it, or does not: it may refuse what the record does not allow.
serve ==
  /\ operation.stage = "sent"
  /\ LET refused == refusal(operation.of.needs)
     IN \/ /\ refused = NoAnswer /\ version < MaxChanges /\ version' = version + 1
           /\ operation' = [operation EXCEPT !.stage = "done", !.made = version']
           /\ UNCHANGED tabVars
        \/ /\ operation' = [operation EXCEPT !.stage = "failed"] /\ UNCHANGED version
           /\ signOutIf(refused = Unauthorized)
  /\ UNCHANGED <<page, cache, fetch, filled, mine>>

failed ==
  /\ operation.stage = "failed" /\ operation' = NoOperation
  /\ UNCHANGED <<page, version, cache, fetch, filled, mine, tabVars>>

\* onSuccess: the form is emptied, or keeps what was sent.
succeeded ==
  LET o == operation.of
  IN /\ operation.stage = "done" /\ invalidate(o.invalidates)
     /\ mine' = [record |-> IF o.shape # "remove" /\ ownPage(operation.on) THEN operation.made ELSE mine.record,
                 here |-> IF page = operation.on THEN operation.made ELSE mine.here]
     /\ filled' = IF page # operation.on THEN filled
                  ELSE IF o.shape = "edit" THEN operation.made ELSE IF o.shape \in {"row", "form"} THEN NotFilled ELSE filled
     /\ operation' = IF o.next = Stay THEN NoOperation ELSE [operation EXCEPT !.stage = "awaiting"]
     /\ UNCHANGED <<page, version, tabVars>>

\* What is invalidated is awaited, and then the next page pushed; AppShell shows it to
\* somebody who is signed in.
push ==
  LET next == IF ~appShell THEN Closed ELSE IF operation.of.next \in Concerned THEN operation.of.next ELSE Elsewhere
  IN /\ operation.stage = "awaiting" /\ settled(matching(operation.of.invalidates) \cap keysOf(page))
     /\ mount(next, cache) /\ operation' = NoOperation /\ mine' = [mine EXCEPT !.here = 0]
     /\ UNCHANGED <<version, cache, tabVars>>

\* Somebody else changes the record, or something else does.
changedElsewhere ==
  /\ "others" \in scope /\ version < MaxChanges /\ version' = version + 1
  /\ UNCHANGED <<page, cache, fetch, filled, operation, mine, tabVars>>

PagesNext ==
  \/ \E p \in Concerned : openPage(p)
  \/ \E key \in Keys : arrive(key) \/ age(key) \/ fillFromRow(key)
  \/ refresh \/ (\E o \in operationsOf(page) : press(o)) \/ serve \/ failed \/ succeeded \/ push \/ changedElsewhere
-----------------------------------------------------------------------------
(* What becomes of the pages when the tab does something *)

closed == page' = Closed /\ filled' = NotFilled /\ mine' = [mine EXCEPT !.here = 0]

\* A reload forgets the cache and what is under way; AppShell leaves the page when
\* nobody is signed in; who logs in sees no page.
afterTab ==
  /\ pending'.login # pending.login => page = Closed
  /\ CASE reloads' # reloads ->
            /\ page' = Closed /\ filled' = NotFilled /\ operation' = NoOperation /\ mine' = [record |-> 0, here |-> 0]
            /\ cache' = [key \in Keys |-> Absent] /\ fetch' = [key \in Keys |-> NoAnswer] /\ UNCHANGED version
       [] reloads' = reloads /\ page # Closed /\ ~appShell' -> closed /\ UNCHANGED <<version, cache, fetch, operation>>
       [] OTHER -> UNCHANGED pageVars
-----------------------------------------------------------------------------
(* Properties *)

\* While a page is open that changed the record, it shows the record with that
\* change as soon as it has finished loading: whatever was under way when the change
\* was answered.  Not if it was made before the page had loaded at all, or by somebody who
\* may not read it: the cache of a tab outlives the session that filled it.
OwnChangeIsShown ==
  Without({"eager", "roles"}) /\ mayRead /\ operation = NoOperation /\ settled(keysOf(page)) =>
    \A key \in keysOf(page) : cache[key] # Absent => cache[key].version >= mine.here

\* A form that sends the fields of a record it was filled from was filled after the
\* changes this tab made on the record's own page: it does not take them back.  Not
\* if somebody leaves a page that is still busy, or logs out, or may not read the record,
\* and not for products, whose list is not fetched again after an action.
SavesBuildOnOwnChanges ==
  Without({"hasty", "eager", "roles", "logout", "product"}) /\ mayRead /\ operation.stage = "sent" =>
    operation.base = NotFilled \/ operation.base >= mine.record

\* Whoever may read what a page reads, and sees a gated button or form on it for
\* one more permission, is served by its endpoint: the names of the two sides agree.
GatesAdmit ==
  LET named == UNION {{alias[1], alias[2]} : alias \in apiAliases \cup webAliases}
               \cup {o.gate : o \in UNION {pages[p].operations : p \in DOMAIN pages}}
  IN \A p \in DOMAIN pages : \A o \in {q \in pages[p].operations : q.gate # Ungated} : \A permission \in named :
       LET held == {permission} \cup {kinds[k].needs : k \in {j \in Kinds : pages[p].reads \cap kinds[j].keys # {}}}
       IN can({}, held, o.gate) => mayCall({}, held, o.needs)
===============================================================================
