----------------------------- MODULE MCTraining -----------------------------
(***************************************************************************)
(* Small instances of training for TLC.                                    *)
(***************************************************************************)
EXTENDS Training

CONSTANTS x1, x2, e1, e2, g1, g2, l1, l2

\* Two learners who compete for the seats of one course.
TwoLearners == [e \in {e1, e2} |-> IF e = e1 THEN x1 ELSE x2]
OneLearner == [e \in {e1} |-> x1]

\* A grant for every cohort and, where there are two, one for the cohort of the first enrollment.
EveryCohort == [g \in {g1, g2} |-> IF g = g1 THEN {e1, e2} ELSE {e1}]
OneCohort == [g \in {g1} |-> {e1}]

\* One that outlives an assigned course, and one that opens later and ends first.
Windows == {<<0, 3>>, <<1, 2>>}

TwoLessons == [l \in {l1, l2} |-> 1]
ThreeSeconds == [l \in {l1, l2} |-> IF l = l1 THEN 1 ELSE 2]
=============================================================================
