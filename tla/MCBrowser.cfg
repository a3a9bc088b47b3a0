SPECIFICATION BrowserSpec
CONSTANTS
  r1 = r1
  r2 = r2
  s1 = s1
  s2 = s2
  t1 = t1
  t2 = t2
  ann = ann
  bob = bob
  old = old
  new = new
  here = here
  there = there
  Requests = {r1, r2}
  Background = {}
  Users = {ann, bob}
  Passwords = {old, new}
  Roles = {"PLATFORM_ADMIN", "CREDIT_OFFICER"}
  rolePermissions <- permissionsOfRoles
  MaxReloads = 1
  Statuses = {"ACTIVE", "SUSPENDED"}
  Seeds <- BothOrOne
  Sessions = {s1, s2}
  ResetTokens = {t1, t2}
  Clients = {here, there}
  EmailLimit = 2
  ClientLimit = 3
  Window = 2
  Lifetime = 1
  MaxTime = 3
  MaxChanges = 2
  Scopes <- Occurring
INVARIANTS
  AccountsHold
  TabHolds
  PagesHold
CHECK_DEADLOCK FALSE
