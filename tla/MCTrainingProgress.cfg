\* One course of two lessons: progress is saved again and again.
CONSTANTS
  x1 = x1
  x2 = x2
  e1 = e1
  e2 = e2
  g1 = g1
  g2 = g2
  l1 = l1
  l2 = l2
  Learner = {x1}
  Enrollment = {e1}
  Entitlement = {g1}
  Lesson = {l1, l2}
  LearnerOf <- OneLearner
  Covers <- OneCohort
  MinSeconds <- ThreeSeconds
  MaxAttempts = 2
  Window <- Windows
  Validity = 2
  MaxSeats = 1
  MaxSave = 2
  MaxTime = 3
SPECIFICATION Spec
INVARIANT
  ProgressWithinElapsed
CHECK_DEADLOCK FALSE
