--------------------------- MODULE MCWalletPartner --------------------------
(***************************************************************************)
(* A partner with two lots and a customer who may buy a point and dispute  *)
(* the payment: points are moved to the customer, held there and at the    *)
(* partner, and expire.  In every wallet that arises so, the loop that     *)
(* picks the lots is compared with the takes the actions choose from.      *)
(***************************************************************************)
EXTENDS WalletCustody, TLC

CONSTANTS partner, customer, r1, r2, o1, ref1

Owners == (r1 :> customer) @@ (r2 :> partner) @@ (o1 :> customer)
Uses == (r1 :> "phishing") @@ (r2 :> "training")
Linked == {<<partner, customer>>}
OnePoint == [x \in {o1} |-> 1]

PartnerSeed ==
  <<[tenant |-> partner, purpose |-> "all", quantity |-> 1, expires |-> 1],
    [tenant |-> partner, purpose |-> "training", quantity |-> 2, expires |-> 2]>>

CustomerEvents ==
  {[id |-> 1, order |-> o1, status |-> "paid", amount |-> 1, ref |-> ref1],
   [id |-> 2, order |-> o1, status |-> "chargeback", amount |-> 1, ref |-> ref1]}

Symmetry == Permutations(Lot)
=============================================================================
