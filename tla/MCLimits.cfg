SPECIFICATION Spec
CONSTANTS
  x = x
  y = y
  z = z
  r1 = r1
  r2 = r2
  r3 = r3
  programme = programme
  anchor = anchor
  anchor2 = anchor2
  supplier = supplier
  supplier2 = supplier2
  funder = funder
  Financings = {x, y, z}
  Requests = {r1, r2}
  Programme = programme
  AnchorOf <- OtherAnchor
  SupplierOf <- OtherSupplier
  Funders <- OneFunder
  Amount <- Amounts
  Share <- Shares
  ConfiguredLimit <- TightLimits
  Seeded <- AllOrSome
  Failures = TRUE
SYMMETRY Symmetry
INVARIANTS
  TypeOK
  LimitsHold
  NoCircularWait
CHECK_DEADLOCK FALSE
