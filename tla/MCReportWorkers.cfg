\* One report and two workers, any of which may stop or fall behind at any time.
CONSTANTS
  b1 = b1
  b2 = b2
  r1 = r1
  r2 = r2
  w1 = w1
  w2 = w2
  Batch = {b1}
  Report = {r1}
  Worker = {w1, w2}
  BatchOf <- OfFirst
  MaxUnits = 1
  MaxContent = 1
  MaxReviews = 1
  MaxRetries = 1
SPECIFICATION WorkersSpec
INVARIANTS
  ReportFollowsJob
PROPERTIES
  CompletedIsFinal
  ReportsEnd
CHECK_DEADLOCK FALSE
