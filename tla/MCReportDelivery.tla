-------------------------- MODULE MCReportDelivery --------------------------
(***************************************************************************)
(* Small instances of report delivery for TLC: reports of the batch b1,    *)
(* and the batch b2, which is never reported, beside it.                   *)
(***************************************************************************)
EXTENDS DeliveryRegister, TLC

CONSTANTS b1, b2, r1, r2, w1, w2

OfFirst == [r \in Report |-> b1]
Symmetry == Permutations({r1, r2})

-----------------------------------------------------------------------------
(***************************************************************************)
(* Two kinds of behaviours.  In some b1 is alone, corrected and reported   *)
(* twice.  In the others b1 and b2 compete for the units of their project, *)
(* at tighter bounds: one import and one approval of each, one report.     *)
(* Alone, claims are bounded: one may be lost and both reports still made. *)
(***************************************************************************)
VARIABLE alone

MaxClaims == 3
Tight == INSTANCE ReportDelivery WITH MaxContent <- 1, MaxReviews <- 1

EitherInit == Init /\ alone \in BOOLEAN
Alone ==
  /\ alone /\ Next /\ UNCHANGED alone
  /\ batch'[b2] = batch[b2] /\ claims' <= MaxClaims
Competing ==
  /\ ~alone /\ Tight!Next /\ UNCHANGED alone
  /\ Cardinality({r \in Report : report'[r].status # "none"}) <= 1
EitherSpec == EitherInit /\ [][Alone \/ Competing]_<<vars, alone>>

\* b1 alone, with workers that are scheduled fairly.
WorkersInit == Init /\ alone = TRUE
WorkersSpec ==
  /\ WorkersInit
  /\ [][Next /\ UNCHANGED alone]_<<vars, alone>>
  /\ Fairness
=============================================================================
