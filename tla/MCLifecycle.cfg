CONSTANTS
  north = north
  south = south
  u1 = u1
  u2 = u2
  ra = ra
  ma = ma
  fb = fb
  Tenant = {north, south}
  User = {u1, u2}
  Report = {ra}
  Mail = {ma}
  OwnerOf <- MCOwnerOf
  Members <- MCMembers
  Leaving = {south}
  Stored <- MCStored
  Invitation <- MCInvitation
  MaxClaims = 1
  MaxCrashes = 1
  app = app
  api = api
  www = www
  learn = learn
  old = old
  new = new
  Zone <- MCZone
  Config <- MCConfig
  Content = {old, new}
  MaxId = 6
  MaxOutside = 2
  Window = {w1, w2}
  Text = {x, y}
  Blank = blank
  MaxEdits = 2
  MaxLosses = 1
  None = None
SPECIFICATION EachSpec
INVARIANTS
  NobodyForgotten
PROPERTIES
  OffboardingIsFinal
  ErasesWhatWasReviewed
  ErasureFinishes
  ActsAsReviewed
  RollbackRestores
  OverwritesWhatWasSeen
  TypedIsSaved
CHECK_DEADLOCK FALSE
