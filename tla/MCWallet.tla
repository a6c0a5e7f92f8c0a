------------------------------ MODULE MCWallet ------------------------------
(***************************************************************************)
(* One tenant with a restricted gift lot, one order and the events its     *)
(* provider may send: the payment under two references, a late failure, a  *)
(* partial refund and a chargeback.  Finance refunds as it likes.          *)
(***************************************************************************)
EXTENDS Wallet, TLC

CONSTANTS t1, o1, r1, r2, ref1, ref2

OneTenant == [x \in {r1, r2, o1} |-> t1]
Purposes2 == (r1 :> "phishing") @@ (r2 :> "training")
TwoPoints == [x \in {o1} |-> 2]

GiftSeed == <<[tenant |-> t1, purpose |-> "training", quantity |-> 1, expires |-> 2]>>

An(id, status, amount, ref) ==
  [id |-> id, order |-> o1, status |-> status, amount |-> amount, ref |-> ref]

OrderEvents ==
  {An(1, "paid", 2, ref1), An(2, "paid", 2, ref2), An(3, "failed", 2, ref1),
   An(4, "refunded", 1, ref1), An(5, "chargeback", 2, ref1)}

\* A chargeback of the whole payment, and one of what was not yet refunded.
DisputeEvents ==
  {An(1, "paid", 2, ref1), An(4, "refunded", 1, ref1),
   An(5, "chargeback", 2, ref1), An(6, "chargeback", 1, ref1)}
=============================================================================
