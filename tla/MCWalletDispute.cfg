CONSTANTS
  t1 = t1
  o1 = o1
  r1 = r1
  r2 = r2
  ref1 = ref1
  ref2 = ref2
  None = None
  Tenant = {t1}
  Lot = {l1, l2}
  Reservation = {r1, r2}
  Order = {o1}
  Ref = {ref1, ref2}
  Purpose = {"phishing", "training"}
  TenantOf <- OneTenant
  PurposeOf <- Purposes2
  PointsOf <- TwoPoints
  Supplies = {}
  Event <- DisputeEvents
  Seeded <- GiftSeed
  LotLife = 2
  Skew = 1
  MaxHold = 2
  MaxTime = 1
SPECIFICATION RetriedSpec
PROPERTY DisputedIsFrozen
CHECK_DEADLOCK FALSE
