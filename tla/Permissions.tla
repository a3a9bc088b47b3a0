------------------------------- MODULE Permissions -------------------------------
(***************************************************************************)
(* Who may do what: the guard of the API (auth/guards/permissions.guard.ts)   *)
(* and the question the web application asks before it offers something        *)
(* (auth-provider.tsx).  Each has its own table of the two names a permission  *)
(* may have, and its own way to look a name up.                              *)
(***************************************************************************)

superAdminRoles == {"PLATFORM_ADMIN", "PLATFORM_ADMINISTRATOR"}

commonAliases ==
  {<<"counterparty.read", "counterparties:read">>, <<"counterparty.create", "counterparties:create">>,
   <<"counterparty.update", "counterparties:update">>, <<"kyc.approve", "counterparties:approve_kyc">>,
   <<"programme.read", "programmes:read">>, <<"programme.create", "programmes:create">>,
   <<"programme.update", "programmes:update">>, <<"invoice.read", "invoices:read">>,
   <<"invoice.create", "invoices:create">>, <<"invoice.update", "invoices:update">>,
   <<"invoice.import", "invoices:import">>, <<"invoice.approve", "invoices:approve">>,
   <<"invoice.delete", "invoices:cancel">>, <<"financing.read", "financing:read">>,
   <<"financing.offer.generate", "financing:generate_offer">>, <<"financing.offer.accept", "financing:accept">>,
   <<"funding.allocate", "financing:allocate_funding">>, <<"payment.disburse", "financing:mark_disbursed">>,
   <<"payment.disburse", "payments:initiate_provider">>, <<"collection.manage", "financing:mark_collected">>,
   <<"payment.read", "payments:read">>, <<"payment.approve", "payments:confirm">>,
   <<"payment.approve", "payments:approve">>, <<"collection.read", "collections:read">>,
   <<"workflow.read", "workflow:read">>, <<"workflow.manage", "workflow:complete">>,
   <<"report.read", "reports:read">>, <<"kyc.read", "compliance:read">>, <<"kyc.screen", "compliance:run_checks">>,
   <<"kyc.review", "compliance:review">>, <<"audit.read", "audit:read">>, <<"user.read", "users:read">>,
   <<"user.create", "users:create">>, <<"user.update", "users:update">>, <<"role.manage", "roles:manage">>}

\* The tables differ in what managing the workflow includes.
apiAliases == commonAliases \cup {<<"workflow.manage", "workflow:update">>}
webAliases == commonAliases \cup {<<"workflow.manage", "workflow:create">>}

\* What the permissions of a user come to, one alias in either direction.
expandPermissions(aliases, permissions) ==
  permissions \cup {alias[2] : alias \in {a \in aliases : a[1] \in permissions}}
              \cup {alias[1] : alias \in {a \in aliases : a[2] \in permissions}}

canActivate(roles, permissions, required) ==
  \/ roles \cap superAdminRoles # {}
  \/ required \subseteq expandPermissions(apiAliases, permissions)

hasPermission(aliases, permissions, permission) ==
  \/ permission \in permissions
  \/ \E alias \in aliases : alias[1] = permission /\ alias[2] \in permissions
  \/ \E alias \in aliases : alias[2] = permission /\ alias[1] \in permissions

can(roles, permissions, permission) ==
  hasPermission(webAliases, permissions, permission) \/ roles \cap superAdminRoles # {}
===============================================================================
