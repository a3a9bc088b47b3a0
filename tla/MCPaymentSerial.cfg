SPECIFICATION Spec
CONSTANTS
  out = out
  in = in
  f1 = f1
  r1 = r1
  r2 = r2
  w1 = w1
  w2 = w2
  w3 = w3
  Payments = {out, in}
  Financings = {f1}
  FinancingOf <- OneFinancing
  Direction <- Directions
  Outcome <- OutwardSucceeds
  AutoSuccess = FALSE
  AllowPlaintext = TRUE
  Webhooks = {w1, w2, w3}
  Notification <- Signed
  Requests = {r1, r2}
  SerialPerPayment = TRUE
  Crashes <- OutsideTheCall
  ThroughFinancing = TRUE
  MaxRows = 3
SYMMETRY Symmetry
INVARIANTS
  TypeOK
  MoneyMovesForAReason
  PostedOnce
  InitiatedOnce
CHECK_DEADLOCK FALSE
