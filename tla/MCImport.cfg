SPECIFICATION FairSpec
CONSTANTS
  i1 = i1
  i2 = i2
  i3 = i3
  b1 = b1
  b2 = b2
  b3 = b3
  e1 = e1
  e2 = e2
  e3 = e3
  r1 = r1
  r2 = r2
  s1 = s1
  s2 = s2
  none = none
  keep = keep
  Requests = {r1, r2}
  Invoices = {i1, i2}
  Batches = {b1, b2, b3}
  Events = {e1, e2, e3}
  Lines <- ThreeBatches
  NoReference = none
  Terms = {1, 2}
  Similar <- Alike
  Entered <- Plain
  Patches <- SomePatches
  Keep = keep
  SupplierOf <- OneSupplier
  Suppliers = {s1}
  SentBy <- TwoUploads
  Callback <- Callbacks
  ErpApproves = {i1}
  TaxResult <- TaxResults
  Serial = {b1}
  Scopes <- Occurring
  MaxAttempts = 2
  MaxRetries <- RetryApproval
INVARIANTS
  RowsAndInvoicesAgree
  EventsAppliedOnce
PROPERTIES
  PickedRowsAreSettled
  CancelledImportsNothing
CHECK_DEADLOCK FALSE
