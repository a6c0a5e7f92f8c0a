CONSTANTS
  b1 = b1
  b2 = b2
  r1 = r1
  r2 = r2
  w1 = w1
  w2 = w2
  Batch = {b1, b2}
  Report = {r1, r2}
  Worker = {w1}
  BatchOf <- OfFirst
  MaxUnits = 1
  MaxContent = 2
  MaxReviews = 2
  MaxRetries = 0
SPECIFICATION EitherSpec
SYMMETRY Symmetry
INVARIANTS
  UnitsAccounted
PROPERTIES
  ImplementsRegister
CHECK_DEADLOCK FALSE
