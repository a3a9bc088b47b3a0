SPECIFICATION Spec
CONSTANTS
  a1 = a1
  a2 = a2
  a3 = a3
  payment = payment
  product = product
  u1 = u1
  u2 = u2
  u3 = u3
  r1 = r1
  r2 = r2
  Approvals = {a1, a2, a3}
  EntityOf <- OnPaymentAndProduct
  Payments = {payment}
  Users = {u1, u2, u3}
  Calls = {r1, r2}
  Serial = {payment}
  MaxExecutions = 2
SYMMETRY Symmetry
INVARIANTS
  TypeOK
  FourEyes
  ApprovedIsExecuted
  DecidedOnce
CHECK_DEADLOCK FALSE
