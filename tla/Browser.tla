-------------------------------- MODULE Browser --------------------------------
(***************************************************************************)
(* The accounts of the API and one tab of the web application with its pages. *)
(***************************************************************************)
EXTENDS Pages

browserVars == <<accountVars, tabVars, pageVars>>

BrowserInit == ServiceInit /\ AccountsInit /\ WebSessionInit /\ PagesInit

\* Bound: a behaviour about pages has one login, and accounts that stay as they are
\* then, unless the scope has "again".
mayAct == paging /\ "again" \notin scope => \A s \in Sessions : session[s] = NoSession

BrowserNext ==
  \/ mayAct /\ AccountsNext /\ UNCHANGED <<tabVars, pageVars>>
  \/ "tab" \in scope /\ WebSessionNext /\ afterTab /\ UNCHANGED <<accountVars, req, scope>>
  \/ paging /\ PagesNext /\ UNCHANGED <<accountVars, req, scope>>

BrowserSpec == BrowserInit /\ [][BrowserNext]_<<browserVars, req, scope>>

\* Accounts and sessions stay sound through resets, changes of password and
\* restarts: tokens reset once, superseded sessions end, the login rate holds.
AccountsHold == AccountsTypeOK /\ ResetOnce /\ SupersededSessionsEnd /\ WithinRate

\* A tab offers what its user may do and sends a token only for the user it shows.
TabHolds == TabTypeOK /\ OfferedIsAllowed /\ SignedOutKeepsNothing

\* A change made in the tab is shown by the page that made it, and no form takes it
\* back: through fetches under way, stale entries and changes of others.  Who a page
\* offers an operation to is served.
PagesHold == PagesTypeOK /\ OwnChangeIsShown /\ SavesBuildOnOwnChanges /\ GatesAdmit
===============================================================================
