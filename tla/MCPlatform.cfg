SPECIFICATION FairSpec
CONSTANTS
  r1 = r1
  r2 = r2
  d1 = d1
  d2 = d2
  e1 = e1
  e2 = e2
  n1 = n1
  n2 = n2
  p1 = p1
  f1 = f1
  f2 = f2
  c1 = c1
  paid = paid
  reset = reset
  anchor = anchor
  supplier = supplier
  Requests = {r1, r2}
  Background = {d1, d2}
  Deliveries = {d1, d2}
  Endpoints = {e1, e2}
  EventTypes = {paid}
  Subscriptions <- PaidOrAny
  MaxRetries = 2
  MaxCalls = 3
  Notes = {n1, n2}
  Occasions = {reset, p1}
  OtherOccasions = {reset}
  Carriers = {"EMAIL", "SMS"}
  MaxSends = 2
  Programmes = {p1}
  Counterparties = {anchor, supplier}
  Anchors = {anchor}
  Documents = {f1, f2}
  MaxReads = 2
  Tables = {"limits", "exposures"}
  Connections = {c1}
  MaxWrites = 2
  Scopes <- Occurring
INVARIANTS
  DeliveriesHold
  RecordsHold
PROPERTIES
  FinalStaysFinal
  PromisesAreKept
CHECK_DEADLOCK FALSE
