SPECIFICATION FairSpec
CONSTANTS
  out = out
  in = in
  f1 = f1
  r1 = r1
  r2 = r2
  w1 = w1
  w2 = w2
  w3 = w3
  Payments = {out}
  Financings = {f1}
  FinancingOf <- OneFinancing
  Direction <- Directions
  Outcome <- Succeeds
  AutoSuccess = TRUE
  AllowPlaintext = TRUE
  Webhooks = {w1}
  Notification <- Mixed
  Requests = {r1, r2}
  SerialPerPayment = FALSE
  Crashes <- None
  ThroughFinancing = TRUE
  MaxRows = 3
INVARIANTS
  LedgerHasRecon
PROPERTIES
  ConfirmationIsBooked
  SuccessWebhookIsBooked
CHECK_DEADLOCK FALSE
