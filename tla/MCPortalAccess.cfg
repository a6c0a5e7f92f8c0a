CONSTANTS
  eng = eng
  adm = adm
  b1 = b1
  b2 = b2
  User = {eng, adm}
  Partner = {2}
  Customer = {1}
  Office = 3
  Administrator = {adm}
  Direct = {adm}
  Session = {1, 2, 3, 4}
  Intent = {i1}
  Browser = {b1}
  Request = {r1, r2}
  Entry <- MCEntry
  Asks <- MCAsks
  Staff <- MCStaff
  SignedIn <- MCSignedIn
  Adopted <- MCAdopted
  MaxVersion = 2
  MaxChanges = 1
  Base = Base
  None = None
SPECIFICATION Spec
SYMMETRY Symmetry
INVARIANTS
  ContextStaysTrue
  LocksInOrder
  SessionsFollowLogins
CHECK_DEADLOCK FALSE
