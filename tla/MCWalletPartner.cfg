CONSTANTS
  partner = partner
  customer = customer
  o1 = o1
  r1 = r1
  r2 = r2
  ref1 = ref1
  None = None
  Tenant = {partner, customer}
  Lot = {l1, l2, l3, l4}
  Reservation = {r1, r2}
  Order = {o1}
  Ref = {ref1}
  Purpose = {"phishing", "training"}
  TenantOf <- Owners
  PurposeOf <- Uses
  PointsOf <- OnePoint
  Supplies <- Linked
  Event <- CustomerEvents
  Seeded <- PartnerSeed
  LotLife = 2
  Skew = 0
  MaxHold = 2
  MaxTime = 3
SPECIFICATION Spec
SYMMETRY Symmetry
INVARIANTS
  LoopIsFirstExpiringFirst
PROPERTIES
  TransfersMovePoints
  ImplementsCustody
CHECK_DEADLOCK FALSE
