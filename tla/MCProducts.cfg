SPECIFICATION Spec
CONSTANTS
  r1 = r1
  r2 = r2
  u1 = u1
  u2 = u2
  a1 = a1
  a2 = a2
  k1 = k1
  none = none
  offer = offer
  facility = facility
  facility2 = facility2
  bid = bid
  scorecard = scorecard
  signal = signal
  report = report
  supplier = supplier
  programme = programme
  none_programme = none_programme
  currency = currency
  Requests = {r1, r2}
  Users = {u1, u2}
  Approvals = {a1, a2}
  Keys = {k1}
  NoKey = none
  Records = {offer, facility, facility2, bid, scorecard, signal, report}
  KindOf <- OneOfEach
  Inputs <- Sent
  Edits <- Changes
  DimensionOf <- OneSupplier
  NoProgramme = none_programme
  DiscountOf <- Quarter
  Threshold <- FromFour
  Amounts <- Moves
  Cent = 1
  MaxUses = 4
  Scopes <- Occurring
SYMMETRY Symmetry
INVARIANTS
  PostingsHold
  FacilitiesHold
PROPERTIES
  LargeNeedsTwoUsers
CHECK_DEADLOCK FALSE
