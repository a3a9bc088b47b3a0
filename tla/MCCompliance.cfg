SPECIFICATION ComplianceFairSpec
CONSTANTS
  r1 = r1
  r2 = r2
  company = company
  owner = owner
  owner2 = owner2
  Requests = {r1, r2}
  Background = {}
  Company = company
  Owners = {owner, owner2}
  ScreeningTypes <- TwoTypes
  Profiles <- Some
  FirstProfile <- pep
  OwnerProfile <- CleanOwners
  FirstOwners = {owner}
  MaxChecks = 5
  Scopes <- Occurring
INVARIANTS
  ChecksAreReflected
PROPERTIES
  ApprovedOnLatestChecks
  ReviewIsAssigned
CHECK_DEADLOCK FALSE
