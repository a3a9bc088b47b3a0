------------------------------- MODULE MCBrowser -------------------------------
(***************************************************************************)
(* An administrator and, perhaps, an officer share a browser tab; the API has   *)
(* two requests under way.  A behaviour has the operations and faults of one    *)
(* of the sets below; one that names a kind of record is about its pages.      *)
(***************************************************************************)
EXTENDS Browser, TLC
CONSTANTS r1, r2, s1, s2, t1, t2, ann, bob, old, new, here, there
Admin == [password |-> old, roles |-> {"PLATFORM_ADMIN"}]
Officer == [password |-> old, roles |-> {"CREDIT_OFFICER"}]
BothOrOne(occurring) ==
  IF occurring \cap Kinds # {} THEN {[u \in {ann} |-> Admin]}
  ELSE {[u \in {ann, bob} |-> IF u = ann THEN Admin ELSE Officer], [u \in {ann} |-> Admin]}
permissionsOfRoles == [role \in Roles |-> IF role = "PLATFORM_ADMIN" THEN {"users:read", "role.manage", "workflow.manage"} ELSE {"user.read", "workflow:create"}]
OnPages ==
  {{"tab", "login", k} : k \in Kinds}
  \cup {{"tab", "login", "others", k} : k \in {"counterparty", "programme", "invoice", "financing"}}
  \cup {{"tab", "login", "hasty", "payment"}, {"tab", "login", "eager", "others", "payment"},
        {"tab", "login", "hasty", "others", "document"}, {"tab", "login", "reload", "financing"},
        {"tab", "login", "again", "logout", "reload", "delivery"},
        {"tab", "login", "again", "edit", "suspend", "user"}, {"tab", "login", "again", "edit", "suspend", "delivery"}}
Occurring == OnPages \cup
  {{"tab", "login", "reload", "logout", "call", "edit", "suspend"}, {"tab", "login", "reload", "early"},
   {"edit", "roles"}, {"tab", "login", "logFails", "lost", "reload"},
   {"reset", "time", "overlap", "crash"}, {"edit", "suspend", "reset"}, {"edit", "suspend", "overlap", "password"},
   {"edit", "suspend", "login", "password"}, {"login", "password", "time"}, {"rate", "time"}, {"create", "login"}, {"login", "overlap"}}
===============================================================================
