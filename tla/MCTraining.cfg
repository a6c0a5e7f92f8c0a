\* Two learners and two grants: seats run out, come back and are given out again.
CONSTANTS
  x1 = x1
  x2 = x2
  e1 = e1
  e2 = e2
  g1 = g1
  g2 = g2
  l1 = l1
  l2 = l2
  Learner = {x1, x2}
  Enrollment = {e1, e2}
  Entitlement = {g1, g2}
  Lesson = {l1, l2}
  LearnerOf <- TwoLearners
  Covers <- EveryCohort
  MinSeconds <- TwoLessons
  MaxAttempts = 1
  Window <- Windows
  Validity = 2
  MaxSeats = 1
  MaxSave = 1
  MaxTime = 3
SPECIFICATION FairSpec
INVARIANTS
  CourseRecordsAgree
  EveryLessonDone
PROPERTIES
  UnstartedIsSettled
CHECK_DEADLOCK FALSE
