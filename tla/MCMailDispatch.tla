--------------------------- MODULE MCMailDispatch ---------------------------
(***************************************************************************)
(* One campaign of a few messages and two workers.  A lease is one tick    *)
(* and the sending window two, so that a claim can be lost before, at and  *)
(* after the end of the window.                                            *)
(***************************************************************************)
EXTENDS MailDispatch, TLC

CONSTANTS c1

OneCampaign == [m \in Message |-> c1]

Symmetry == Permutations(Message) \cup Permutations(Worker)
=============================================================================
