SPECIFICATION Spec
CONSTANTS
  i1 = i1
  i2 = i2
  r1 = r1
  r2 = r2
  r3 = r3
  f1 = f1
  Invoices = {i1}
  Requests = {r1, r2}
  Ops <- AllOps
  InvoiceAmount <- Amounts
  NetProceeds <- Nets
  ActiveFunders = {f1}
  StatusPatches <- MaturityPatches
  AmountPatches = {}
  NetPatches = {1}
  InvoicePatches <- EarlyInvoicePatches
  SerialPerFinancing = TRUE
  CrashAfterCommit = TRUE
  MaxPayments = 3
SYMMETRY RequestSymmetry
INVARIANTS
  BooksAgree
  
PROPERTIES
  ImplementsLifecycle
CHECK_DEADLOCK FALSE
