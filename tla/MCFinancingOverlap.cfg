SPECIFICATION FairSpec
CONSTANTS
  i1 = i1
  i2 = i2
  r1 = r1
  r2 = r2
  r3 = r3
  f1 = f1
  Invoices = {i1}
  Requests = {r1, r2}
  Ops <- WorkflowOps
  InvoiceAmount <- Amounts
  NetProceeds <- Nets
  ActiveFunders = {f1}
  StatusPatches <- MaturityPatches
  AmountPatches = {1}
  NetPatches = {1}
  InvoicePatches <- FinancedPatches
  SerialPerFinancing = FALSE
  CrashAfterCommit = FALSE
  MaxPayments = 3
INVARIANTS
  TypeOK
  EvidenceLadder
  EventsAreTruthful
  PaidMeansCollected
  CashInMatchesInbound
PROPERTIES
  CollectionIsAnnounced
CHECK_DEADLOCK FALSE
