CONSTANTS
  Task = {t1, t2, t3}
  Editor = {e1, e2}
  MaxVersion = 3
  north = north
  south = south
  p = p
  q = q
  a1 = a1
  a2 = a2
  b1 = b1
  ka = ka
  kb = kb
  Tenant = {north, south}
  Batch = {a1, a2, b1}
  Person = {p, q}
  Tool = {ka, kb}
  OwnerOf <- MCOwnerOf
  Plan <- MCPlan
  Untrained <- MCUntrained
  Settled <- MCSettled
  MaxPolicies = 1
  Buffer = {0, 1}
  MaxCapacity = 2
  Horizon = 3
  Configurations = 2
  Answer = {q1}
  Content = {x, y}
  Documented = {x}
  MaxRequests = 3
  Scoped = {s1, s2}
  Asset = {m1}
  Order = {o1}
  Import = {i1}
  Request = {r1}
  Amount = {low, high}
  MaxOffers = 3
  Grant = {g1, g2}
  Ttl = 2
  MaxNow = 4
  MaxConfigured = 3
  None = None
SPECIFICATION EachSpec
SYMMETRY Symmetry
INVARIANTS
  DependenciesHold
  NoDoubleBooking
  BookingsHold
  ReviewedAsRead
  RepliesOnce
  ScopeAsAgreed
  ShownIsCurrent
PROPERTIES
  EditsBuildOnRead
CHECK_DEADLOCK FALSE
