--------------------------- MODULE WalletCustody ----------------------------
(***************************************************************************)
(* The wallets implement PointCustody: the buckets of all lots summed, and *)
(* the reservation rows read as holders.                                   *)
(***************************************************************************)
EXTENDS Wallet

InBucket(b) == SumFunction([l \in Lot |-> balance[l][b]])

HolderState ==
  [none |-> "idle", reserved |-> "held", consumed |-> "spent", released |-> "returned"]

Custody == INSTANCE PointCustody WITH
  Holder  <- Reservation,
  free    <- InBucket("available"),
  held    <- [r \in Reservation |-> IF hold[r].status = "reserved" THEN hold[r].quantity ELSE 0],
  state   <- [r \in Reservation |-> HolderState[hold[r].status]],
  spent   <- InBucket("consumed"),
  retired <- InBucket("expired") + InBucket("refunded")

(* Every wallet operation is a custody step or leaves custody as it is: in *)
(* particular the rows of lots, ledger and reservations that one operation *)
(* writes together never show a point in two places or in none.            *)
ImplementsCustody == Custody!Spec
=============================================================================
