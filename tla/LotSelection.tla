---------------------------- MODULE LotSelection ----------------------------
(***************************************************************************)
(* How points are taken out of a wallet: first expiring lot first.         *)
(*                                                                         *)
(* wallet.reserve and partner_routes.allocate_credits walk the usable lots *)
(* in the order of their expiry and take from each what is still missing.  *)
(* GreedyTake is that loop; FirstExpiringFirst says, without an order of   *)
(* visits, which takes the loop can produce.  The wallet uses the second;  *)
(* LoopIsFirstExpiringFirst says that the two describe the same takes.     *)
(***************************************************************************)
EXTENDS Naturals, Sequences, FiniteSets, Functions

\* The orders in which sorted(..., key=expires_at) may list some lots.  Transfers decide ties by
\* the lots' identities, which is one of them.
SortedOrders(lots, expires) ==
  {o \in Bijection(1..Cardinality(lots), lots) :
     \A i \in 1..Cardinality(lots) - 1 : expires[o[i]] <= expires[o[i + 1]]}

\* Mutant: every lot is asked for the whole quantity.
GreedyTakeAnew(order, available, quantity) ==
  [l \in DOMAIN available |->
     IF \E i \in 1..Len(order) : order[i] = l
     THEN IF available[l] <= quantity THEN available[l] ELSE quantity
     ELSE 0]

(***************************************************************************)
(* The loop over a sequence of lots: remaining[i] is what the first i      *)
(* lots left to be taken, and lot i gives min(remaining, available).       *)
(***************************************************************************)
GreedyTake(order, available, quantity) ==
  LET Least(a, b) == IF a <= b THEN a ELSE b
      remaining[i \in 0..Len(order)] ==
        IF i = 0
        THEN quantity
        ELSE remaining[i - 1] - Least(remaining[i - 1], available[order[i]])
  IN  [l \in DOMAIN available |->
        IF \E i \in 1..Len(order) : order[i] = l
        THEN LET i == CHOOSE i \in 1..Len(order) : order[i] = l
             IN  remaining[i - 1] - remaining[i]
        ELSE 0]

(***************************************************************************)
(* A take of exactly quantity points out of the usable lots in which a lot *)
(* gives points only when every usable lot that expires earlier is empty,  *)
(* and of the lots that expire together at most one is left half used.     *)
(***************************************************************************)
FirstExpiringFirst(take, usable, expires, available, quantity) ==
  /\ SumFunction(take) = quantity
  /\ \A l \in DOMAIN take :
       take[l] <= IF l \in usable THEN available[l] ELSE 0
  /\ \A l, k \in usable :
       take[l] > 0 /\ expires[k] < expires[l] => take[k] = available[k]
  /\ \A l, k \in usable :
       l # k /\ expires[k] = expires[l] /\ take[l] > 0 /\ take[k] > 0
         => take[l] = available[l] \/ take[k] = available[k]

(***************************************************************************)
(* When the usable points suffice, the loop takes exactly the quantity,    *)
(* first expiring lot first, and some order of the lots that expire        *)
(* together produces any take of that shape.  When they do not suffice it  *)
(* takes less, which is how the caller sees INSUFFICIENT_POINTS.           *)
(***************************************************************************)
LoopAgrees(usable, expires, available, quantity) ==
  LET looped == {GreedyTake(o, available, quantity) : o \in SortedOrders(usable, expires)}
  IN  IF SumFunction(available) >= quantity
      THEN looped = {take \in [usable -> 0..quantity] :
                       FirstExpiringFirst(take, usable, expires, available, quantity)}
      ELSE \A take \in looped : SumFunction(take) < quantity
=============================================================================
