------------------------------- MODULE Wallet -------------------------------
(***************************************************************************)
(* The point wallets of the tenants (wallet.py), the orders and provider   *)
(* events that fill and refund them (billing_routes.py), and the partner's *)
(* transfer of points to a customer (partner_routes.allocate_credits).     *)
(*                                                                         *)
(* Every operation runs in one transaction that holds the tenant's         *)
(* advisory lock (db.set_tenant with mutation=True) and is rolled back     *)
(* when it fails, so each is one action, and a refused operation is a      *)
(* disabled one.  A tick of the clock is a time unit of the expiries.      *)
(***************************************************************************)
EXTENDS Integers, FiniteSets, LotSelection

CONSTANTS
  Tenant,       \* the tenants that own a wallet
  Lot,          \* identities available to point_lots rows
  Reservation,  \* business identities (purpose, business_id) of holds
  Order,        \* identities of purchase orders
  Event,        \* events the payment provider may send, see EventType
  Ref,          \* payment references of the provider
  None,         \* stands for a null column
  Purpose,      \* what points may be bought or held for, besides "all"
  TenantOf,     \* the tenant of each reservation and of each order
  PurposeOf,    \* the purpose of each reservation
  PointsOf,     \* the points of each order; its amount is 100 per point
  Supplies,     \* the <<partner, customer>> pairs linked by partner_customers
  Seeded,       \* the lots the setup grants, see SeedType
  LotLife,      \* lifetime of a purchased lot (365 days)
  Skew,         \* how far ahead a provider time may be (5 minutes)
  MaxHold,      \* bound: largest quantity of one hold or transfer
  MaxTime       \* bound: last instant of the model

Time == 0..MaxTime
Purposes == Purpose \cup {"all"}

\* The amounts of events and refunds are whole points: wallet.py:160 refuses
\* an amount that is not a multiple of 100 minor units.
EventType ==
  [id : Nat, order : Order, amount : Nat, ref : Ref,
   status : {"paid", "failed", "refunded", "chargeback"}]

SeedType == [tenant : Tenant, purpose : Purposes, quantity : Nat, expires : Nat]

ASSUME WalletConstants ==
  /\ TenantOf \in [Reservation \cup Order -> Tenant]
  /\ PurposeOf \in [Reservation -> Purpose]
  /\ PointsOf \in [Order -> Nat \ {0}]
  /\ Supplies \subseteq Tenant \X Tenant
  /\ Event \subseteq EventType
  /\ Seeded \in [DOMAIN Seeded -> SeedType]
  /\ \A s \in DOMAIN Seeded : Seeded[s].quantity > 0
  /\ \A t \in Tenant : <<t, t>> \notin Supplies
  /\ None \notin Order \cup Ref \cup Tenant
  /\ LotLife \in Nat /\ Skew \in Nat /\ MaxHold \in Nat /\ MaxTime \in Nat

\* The sums the properties speak of are sums over rows.
ASSUME RowsAreFinite ==
  /\ IsFiniteSet(Lot) /\ IsFiniteSet(Reservation) /\ IsFiniteSet(Order)
  /\ IsFiniteSet(DOMAIN Seeded)

VARIABLES
  now,       \* the clock m.now()
  lot,       \* point_lots; quantity 0 means that the row does not exist
  balance,   \* per lot, the sums of the ledger's delta columns by bucket
  posted,    \* the <<lot, business_key>> pairs of wallet_transactions
  hold,      \* reservations
  taken,     \* reservation_lots: what each hold took from each lot
  order,     \* orders, with the reference of their row in payments
  inbox,     \* acknowledged provider events
  frozen     \* wallets.frozen

vars == <<now, lot, balance, posted, hold, taken, order, inbox, frozen>>

-----------------------------------------------------------------------------
(***************************************************************************)
(* The ledger.  A row of wallet_transactions moves points of one lot from  *)
(* one bucket to another; "allocated" is what allocate-out rows took from  *)
(* available (wallet.allocated).  entry() posts a row once per lot and     *)
(* business key and ignores a repetition.  The keys of refunds and         *)
(* transfers hold a fresh identifier and cannot repeat: those are not kept.*)
(***************************************************************************)
Bucket == {"available", "reserved", "consumed", "expired", "refunded", "allocated"}

Empty == [b \in Bucket |-> 0]

Key == {<<"grant">>, <<"expire">>}
         \cup ({"reserve", "consume", "release"} \X Reservation)

\* Mutant: the row names only the bucket that loses points.
MoveOneSided(b, from, to, quantity) ==
  [b EXCEPT ![from] = @ - quantity]

Move(b, from, to, quantity) ==
  [b EXCEPT ![from] = @ - quantity, ![to] = @ + quantity]

Posting(b, l, key, from, to, quantity) ==
  IF <<l, key>> \in posted THEN b ELSE Move(b, from, to, quantity)

Exists(l) == lot[l].quantity > 0
LotsOf(t) == {l \in Lot : Exists(l) /\ lot[l].tenant = t}
Expired(l) == lot[l].expires <= now

NoLot == [tenant |-> None, purpose |-> "all", order |-> None, quantity |-> 0, expires |-> 0]
NoHold == [status |-> "none", quantity |-> 0, expires |-> 0]
NoOrder == [status |-> "none", payment |-> None, refunded |-> 0, review |-> FALSE]

-----------------------------------------------------------------------------
Init ==
  /\ now = 0
  /\ \E row \in Injection(DOMAIN Seeded, Lot) :
       LET seed(l) == CHOOSE s \in DOMAIN Seeded : row[s] = l IN
       /\ lot = [l \in Lot |->
                   IF l \in Range(row)
                   THEN [tenant |-> Seeded[seed(l)].tenant, purpose |-> Seeded[seed(l)].purpose,
                         order |-> None, quantity |-> Seeded[seed(l)].quantity,
                         expires |-> Seeded[seed(l)].expires]
                   ELSE NoLot]
       /\ balance = [l \in Lot |->
                       IF l \in Range(row)
                       THEN [Empty EXCEPT !["available"] = Seeded[seed(l)].quantity]
                       ELSE Empty]
       /\ posted = Range(row) \X {<<"grant">>}
  /\ hold = [r \in Reservation |-> NoHold]
  /\ taken = [r \in Reservation |-> [l \in Lot |-> 0]]
  /\ order = [o \in Order |-> NoOrder]
  /\ inbox = {}
  /\ frozen = [t \in Tenant |-> FALSE]

Tick ==
  /\ now < MaxTime
  /\ now' = now + 1
  /\ UNCHANGED <<lot, balance, posted, hold, taken, order, inbox, frozen>>

-----------------------------------------------------------------------------
(***************************************************************************)
(* expire_lots: the available points of a tenant's expired lots become     *)
(* expired.  The business key expire:<lot> lets it happen once per lot.    *)
(***************************************************************************)
Expiring(t) == {l \in LotsOf(t) : Expired(l) /\ balance[l]["available"] > 0}

AfterExpiry(t) ==
  [l \in Lot |->
     IF l \in Expiring(t)
     THEN Posting(balance[l], l, <<"expire">>, "available", "expired", balance[l]["available"])
     ELSE balance[l]]

\* The sweep of the worker loop (expire_training) for one tenant.
ExpireLots(t) ==
  /\ Expiring(t) # {}
  /\ balance' = AfterExpiry(t)
  /\ posted' = posted \cup (Expiring(t) \X {<<"expire">>})
  /\ UNCHANGED <<now, lot, hold, taken, order, inbox, frozen>>

(***************************************************************************)
(* reserve: holds quantity points until expires.  An identity is held once *)
(* (a repetition returns the row or is refused, without an effect).        *)
(***************************************************************************)
\* Mutant: lots are picked by purpose alone.
UsableByPurpose(r, expires) ==
  {l \in LotsOf(TenantOf[r]) :
     lot[l].expires > now /\ lot[l].purpose \in {"all", PurposeOf[r]}}

Usable(r, expires) ==
  {l \in LotsOf(TenantOf[r]) :
     lot[l].expires >= expires /\ lot[l].purpose \in {"all", PurposeOf[r]}}

Available(b) == [l \in Lot |-> b[l]["available"]]

Expires == [l \in Lot |-> lot[l].expires]

\* Mutant: the frozen flag is not read.
MayHoldAlways(t) == TRUE

MayHold(t) == ~frozen[t]

Reserve(r, quantity, expires) ==
  LET t == TenantOf[r]
      swept == AfterExpiry(t)
  IN
  /\ MayHold(t)
  /\ quantity > 0 /\ expires > now
  /\ hold[r].status = "none"
  /\ \E take \in [Lot -> 0..quantity] :
       /\ FirstExpiringFirst(take, Usable(r, expires), Expires, Available(swept), quantity)
       /\ balance' = [l \in Lot |->
            IF take[l] > 0
            THEN Posting(swept[l], l, <<"reserve", r>>, "available", "reserved", take[l])
            ELSE swept[l]]
       /\ posted' = posted \cup (Expiring(t) \X {<<"expire">>})
                           \cup ({l \in Lot : take[l] > 0} \X {<<"reserve", r>>})
       /\ taken' = [taken EXCEPT ![r] = take]
  /\ hold' = [hold EXCEPT ![r] =
                [status |-> "reserved", quantity |-> quantity, expires |-> expires]]
  /\ UNCHANGED <<now, lot, order, inbox, frozen>>

(***************************************************************************)
(* consume: the held points are used by an event that happened at          *)
(* occurred, which must lie inside the hold and not ahead of the clock.    *)
(* A consumed hold is returned as it is; a released one is refused.        *)
(***************************************************************************)
\* Mutant: any recorded hold can be settled.
OpenWhenRecorded(r) == hold[r].status # "none"

Open(r) == hold[r].status = "reserved"

Consume(r, occurred) ==
  /\ Open(r)
  /\ occurred <= hold[r].expires
  /\ occurred <= now + Skew
  /\ balance' = [l \in Lot |->
       IF taken[r][l] > 0
       THEN Posting(balance[l], l, <<"consume", r>>, "reserved", "consumed", taken[r][l])
       ELSE balance[l]]
  /\ posted' = posted \cup ({l \in Lot : taken[r][l] > 0} \X {<<"consume", r>>})
  /\ hold' = [hold EXCEPT ![r].status = "consumed"]
  /\ UNCHANGED <<now, lot, taken, order, inbox, frozen>>

(***************************************************************************)
(* release: the held points go back to the lots they came from, or expire  *)
(* with the lots that expired meanwhile.                                   *)
(***************************************************************************)
\* Mutant: the expiry of the lot is not looked at.
ReturnsAvailable(l) == "available"

ReturnsTo(l) == IF Expired(l) THEN "expired" ELSE "available"

Release(r) ==
  /\ Open(r)
  /\ balance' = [l \in Lot |->
       IF taken[r][l] > 0
       THEN Posting(balance[l], l, <<"release", r>>, "reserved", ReturnsTo(l), taken[r][l])
       ELSE balance[l]]
  /\ posted' = posted \cup ({l \in Lot : taken[r][l] > 0} \X {<<"release", r>>})
  /\ hold' = [hold EXCEPT ![r].status = "released"]
  /\ UNCHANGED <<now, lot, taken, order, inbox, frozen>>

-----------------------------------------------------------------------------
(***************************************************************************)
(* Orders.  create_order also writes the payment route that lets a webhook *)
(* find the tenant.                                                        *)
(***************************************************************************)
CreateOrder(o) ==
  /\ order[o].status = "none"
  /\ order' = [order EXCEPT ![o].status = "pending"]
  /\ UNCHANGED <<now, lot, balance, posted, hold, taken, inbox, frozen>>

(***************************************************************************)
(* Provider events (process_payment).  A known event identifier is         *)
(* answered from the inbox, or refused when its content differs; so is a   *)
(* wrong amount.  What an event changes is committed with its inbox row.   *)
(***************************************************************************)
Deliverable(e) ==
  /\ order[e.order].status # "none"
  /\ \A seen \in inbox : seen.id # e.id
  /\ e.status \in {"paid", "failed", "chargeback"} => e.amount = PointsOf[e.order]

Acknowledge(e) == inbox' = inbox \cup {e}

\* Mutant: the status is taken for the payment row.
PaidByStatus(o) == order[o].status = "paid"

Paid(o) == order[o].payment # None

\* grant for an order: one lot per order, valid for LotLife.
Grant(l, o) ==
  /\ ~Exists(l)
  /\ lot' = [lot EXCEPT ![l] =
       [tenant |-> TenantOf[o], purpose |-> "all", order |-> o,
        quantity |-> PointsOf[o], expires |-> now + LotLife]]
  /\ balance' = [balance EXCEPT ![l] = [Empty EXCEPT !["available"] = PointsOf[o]]]
  /\ posted' = posted \cup {<<l, <<"grant">>>>}

PaidEvent(e) ==
  /\ e.status = "paid" /\ Deliverable(e)
  /\ IF Paid(e.order)
     THEN /\ order[e.order].payment = e.ref
          /\ UNCHANGED <<lot, balance, posted, order>>
     ELSE /\ \A o \in Order : order[o].payment # e.ref   \* payments.provider_ref is unique
          /\ \E l \in Lot : Grant(l, e.order)
          /\ order' = [order EXCEPT ![e.order].status = "paid", ![e.order].payment = e.ref]
  /\ Acknowledge(e)
  /\ UNCHANGED <<now, hold, taken, frozen>>

\* Mutant: the provider's word becomes the order's status.
FailedVerbatim(o) == [order EXCEPT ![o].status = "failed"]

Failed(o) ==
  IF order[o].status = "pending"
  THEN [order EXCEPT ![o].status = "payment_failed"]
  ELSE order

FailedEvent(e) ==
  /\ e.status = "failed" /\ Deliverable(e)
  /\ order' = Failed(e.order)
  /\ Acknowledge(e)
  /\ UNCHANGED <<now, lot, balance, posted, hold, taken, frozen>>

(***************************************************************************)
(* refund_order: points still available are refunded at once; a            *)
(* chargeback, or a refund of points already held or used, is left for     *)
(* manual review and freezes the wallet.  Refunds under review do not      *)
(* count in the refunded total.                                            *)
(***************************************************************************)
Refundable(o) == order[o].status \in {"paid", "partially_refunded"}

LotOf(o) == CHOOSE l \in Lot : Exists(l) /\ lot[l].order = o

\* Mutant: only chargebacks are reviewed.
ReviewedIfChargeback(o, amount, chargeback) == chargeback

Reviewed(o, amount, chargeback) ==
  chargeback \/ balance[LotOf(o)]["available"] < amount

\* Mutant: earlier partial refunds are forgotten.
StatusOfThisRefund(o, amount) ==
  IF amount = PointsOf[o] THEN "refunded" ELSE "partially_refunded"

StatusAfterRefund(o, amount) ==
  IF order[o].refunded + amount = PointsOf[o] THEN "refunded" ELSE "partially_refunded"

Refund(o, amount, chargeback) ==
  /\ Refundable(o)
  /\ amount > 0
  /\ order[o].refunded + amount <= PointsOf[o]
  /\ IF Reviewed(o, amount, chargeback)
     THEN /\ order' = [order EXCEPT ![o].review = TRUE]
          /\ frozen' = [frozen EXCEPT ![TenantOf[o]] = TRUE]
          /\ UNCHANGED balance
     ELSE /\ balance' = [balance EXCEPT ![LotOf(o)] = Move(@, "available", "refunded", amount)]
          /\ order' = [order EXCEPT ![o].status = StatusAfterRefund(o, amount),
                                    ![o].refunded = @ + amount]
          /\ UNCHANGED frozen
  /\ UNCHANGED <<now, lot, posted, hold, taken>>

\* Finance refunds part of an order (POST /internal/billing/refunds).
FinanceRefund(o, amount) ==
  /\ Refund(o, amount, FALSE)
  /\ UNCHANGED inbox

RefundEvent(e) ==
  /\ e.status \in {"refunded", "chargeback"} /\ Deliverable(e)
  /\ Refund(e.order, e.amount, e.status = "chargeback")
  /\ Acknowledge(e)

(***************************************************************************)
(* allocate_credits: a partner moves points to a customer.  What it takes  *)
(* from each of its unexpired lots becomes a lot of the customer with the  *)
(* same purpose and expiry.                                                *)
(***************************************************************************)
Unexpired(t) == {l \in LotsOf(t) : lot[l].expires > now}

\* Mutant: only the partner's wallet is looked at.
MayTransferFrom(partner, customer) == ~frozen[partner]

MayTransfer(partner, customer) == ~frozen[partner] /\ ~frozen[customer]

\* Mutant: the points leave as if the partner had used them.
DebitConsumed(l, quantity) == Move(balance[l], "available", "consumed", quantity)

Debit(l, quantity) == Move(balance[l], "available", "allocated", quantity)

Allocate(partner, customer, quantity) ==
  /\ <<partner, customer>> \in Supplies
  /\ MayTransfer(partner, customer)
  /\ quantity > 0
  /\ \E take \in [Lot -> 0..quantity] :
       LET sources == {l \in Lot : take[l] > 0} IN
       /\ FirstExpiringFirst(take, Unexpired(partner), Expires, Available(balance), quantity)
       /\ \E copy \in Injection(sources, {l \in Lot : ~Exists(l)}) :
            LET source(l) == CHOOSE s \in sources : copy[s] = l IN
            /\ lot' = [l \in Lot |->
                 IF l \in Range(copy)
                 THEN [tenant |-> customer, purpose |-> lot[source(l)].purpose, order |-> None,
                       quantity |-> take[source(l)], expires |-> lot[source(l)].expires]
                 ELSE lot[l]]
            /\ balance' = [l \in Lot |->
                 IF l \in Range(copy)
                 THEN [Empty EXCEPT !["available"] = take[source(l)]]
                 ELSE IF l \in sources
                      THEN Debit(l, take[l])
                      ELSE balance[l]]
            /\ posted' = posted \cup (Range(copy) \X {<<"grant">>})
  /\ UNCHANGED <<now, hold, taken, order, inbox, frozen>>

-----------------------------------------------------------------------------
Webhook(e) == PaidEvent(e) \/ FailedEvent(e) \/ RefundEvent(e)

Next ==
  \/ Tick
  \/ \E t \in Tenant : ExpireLots(t)
  \/ \E r \in Reservation, q \in 1..MaxHold, x \in Time : Reserve(r, q, x)
  \/ \E r \in Reservation, at \in Time : Consume(r, at)
  \/ \E r \in Reservation : Release(r)
  \/ \E o \in Order : CreateOrder(o)
  \/ \E e \in Event : PaidEvent(e)
  \/ \E e \in Event : FailedEvent(e)
  \/ \E e \in Event : RefundEvent(e)
  \/ \E o \in Order, q \in 1..MaxHold : FinanceRefund(o, q)
  \/ \E p, c \in Tenant, q \in 1..MaxHold : Allocate(p, c, q)

Spec == Init /\ [][Next]_vars

-----------------------------------------------------------------------------
(***************************************************************************)
(* Properties.                                                             *)
(***************************************************************************)
TypeOK ==
  /\ now \in Time
  /\ lot \in [Lot -> [tenant : Tenant \cup {None}, purpose : Purposes,
                     order : Order \cup {None}, quantity : Nat, expires : Nat]]
  /\ balance \in [Lot -> [Bucket -> Int]]
  /\ posted \subseteq Lot \X Key
  /\ hold \in [Reservation -> [status : {"none", "reserved", "consumed", "released"},
                              quantity : Nat, expires : Nat]]
  /\ taken \in [Reservation -> [Lot -> Nat]]
  /\ order \in [Order -> [status : {"none", "pending", "payment_failed", "paid",
                                   "partially_refunded", "refunded"},
                         payment : Ref \cup {None}, refunded : Nat, review : BOOLEAN]]
  /\ inbox \subseteq Event
  /\ frozen \in [Tenant -> BOOLEAN]

Total(b) == b["available"] + b["reserved"] + b["consumed"]
              + b["expired"] + b["refunded"] + b["allocated"]

(* The buckets of a lot always add up to what was granted: no sequence of  *)
(* holds, releases, expiries, refunds and transfers creates or loses a     *)
(* point (LEDGER_INVARIANT of the reconciliation, billing_routes.py:185).  *)
LedgerBalanced == \A l \in Lot : Total(balance[l]) = lot[l].quantity

(* No bucket is ever overdrawn, the second half of LEDGER_INVARIANT: points *)
(* are not spent, expired, refunded or transferred twice.                  *)
NeverOverdrawn == \A l \in Lot, b \in Bucket : balance[l][b] >= 0

HeldBy(status, l) ==
  SumFunction([r \in Reservation |-> IF hold[r].status = status THEN taken[r][l] ELSE 0])

(* The reserved and consumed points of a lot are exactly those of the open *)
(* and the consumed holds, and a hold took the quantity it was made for:   *)
(* the ledger and the reservation rows, written apart, never disagree.     *)
HoldsBacked ==
  /\ \A l \in Lot :
       /\ balance[l]["reserved"] = HeldBy("reserved", l)
       /\ balance[l]["consumed"] = HeldBy("consumed", l)
  /\ \A r \in Reservation :
       hold[r].status # "none" => SumFunction(taken[r]) = hold[r].quantity

(* A hold only has points of its own tenant's lots, for its own purpose,   *)
(* that stay valid for as long as the hold may be consumed: gift points    *)
(* for training never pay for mail, and a hold does not outlive its lots.  *)
HoldsFitTheirLots ==
  \A r \in Reservation, l \in Lot :
    taken[r][l] > 0 =>
      /\ lot[l].tenant = TenantOf[r]
      /\ lot[l].purpose \in {"all", PurposeOf[r]}
      /\ hold[r].expires <= lot[l].expires

(* An order has a payment exactly when it has a lot, and never two lots,   *)
(* in whatever order the provider's events arrive and repeat               *)
(* (PAYMENT_GRANT_MISMATCH of the reconciliation, billing_routes.py:178).  *)
PaidOnce ==
  \A o \in Order :
    LET granted == {l \in Lot : Exists(l) /\ lot[l].order = o} IN
    /\ Paid(o) <=> granted # {}
    /\ \A l, k \in granted : l = k

(* What an order was refunded is what its lot lost to refunds, never more  *)
(* than was paid, and its status tells whether some or all was refunded.   *)
RefundsReconcile ==
  \A o \in Order :
    /\ order[o].refunded <= PointsOf[o]
    /\ Paid(o) => balance[LotOf(o)]["refunded"] = order[o].refunded
    /\ order[o].status = "refunded" <=> order[o].refunded = PointsOf[o]
    /\ order[o].status = "partially_refunded" <=> order[o].refunded \in 1..(PointsOf[o] - 1)

(* The ledger, the rows of lots and the rows of reservations, which        *)
(* different code writes, agree: no bucket is overdrawn, what is held and  *)
(* consumed is what the holds took, and a hold took only what it may use   *)
(* for as long as it lasts (wallet.py:67-135).                             *)
HoldsCovered == NeverOverdrawn /\ HoldsBacked /\ HoldsFitTheirLots

(* Orders, payments, refunds and lots agree after any sequence of events:  *)
(* one grant for a paid order, refunds within it, and a status that says   *)
(* what was refunded (billing_routes.py:38-77, wallet.py:155-179).         *)
MoneyReconciles == PaidOnce /\ RefundsReconcile

(* Points in customers' lots that came from a partner are the points that  *)
(* partners' lots list as allocated: a transfer moves points, it does not  *)
(* copy them.                                                              *)
PointsIssuedOnce ==
  SumFunction([l \in Lot |-> lot[l].quantity - balance[l]["allocated"]])
    = SumFunction([s \in DOMAIN Seeded |-> Seeded[s].quantity])
        + SumFunction([o \in Order |-> IF Paid(o) THEN PointsOf[o] ELSE 0])

(* Points of a lot that has expired never become available again, however  *)
(* late the hold on them is released.                                      *)
ExpiredStaysExpired ==
  [][\A l \in Lot : Exists(l) /\ Expired(l) =>
       balance'[l]["available"] <= balance[l]["available"]]_vars

(* A frozen wallet stays frozen, and while it is, no points are put on     *)
(* hold, sent to a customer or received from a partner.                    *)
FrozenStopsSpending ==
  [][\A t \in Tenant : frozen[t] =>
       /\ frozen'[t]
       /\ \A l \in LotsOf(t) :
            /\ balance'[l]["reserved"] <= balance[l]["reserved"]
            /\ balance'[l]["allocated"] = balance[l]["allocated"]
       /\ \A l \in Lot : ~Exists(l) /\ lot'[l].tenant = t => lot'[l].order # None]_vars

(* A hold is settled once: consumed or released, it keeps that status and  *)
(* the points it took, although workers, sweeps and users may all try.     *)
SettledOnce ==
  [][\A r \in Reservation : hold[r].status # "none" =>
       /\ taken'[r] = taken[r]
       /\ hold[r].status \in {"consumed", "released"} => hold'[r] = hold[r]]_vars

(* What was settled stays settled: neither an expired point nor a hold     *)
(* that was consumed or released comes back (wallet.py:103-135).           *)
SettledForGood == ExpiredStaysExpired /\ SettledOnce

(* Points that partners hand on are moved, never copied, and neither leave *)
(* nor reach a wallet that was frozen meanwhile (partner_routes.py:258).   *)
TransfersMovePoints == []PointsIssuedOnce /\ FrozenStopsSpending

\* The sets of lots that Reserve and Allocate walk.
Walked ==
  {Usable(r, expires) : r \in Reservation, expires \in Time} \cup {Unexpired(t) : t \in Tenant}

(* In every wallet that arises, whoever asks for however many points: the  *)
(* loop that walks the sorted lots produces exactly the takes that Reserve *)
(* and Allocate choose from (wallet.py:82-92, partner_routes.py:270-277).  *)
LoopIsFirstExpiringFirst ==
  \A usable \in Walked, quantity \in 1..MaxHold + 1 :
    LoopAgrees(usable, Expires, [l \in usable |-> balance[l]["available"]], quantity)

\* The worker loop runs the sweep of every active tenant once a minute.
Sweeping == \A t \in Tenant : WF_vars(ExpireLots(t))

FairSpec == Spec /\ Sweeping

(* Under the sweep, available points of an expired lot do not stay         *)
(* available, although the sweep can act only once on each lot.            *)
ExpiredIsSwept ==
  \A l \in Lot :
    (Exists(l) /\ Expired(l)) ~> (balance[l]["available"] = 0)

\* The provider sends an event again until it is acknowledged.
RetriedSpec == Spec /\ \A e \in Event : WF_vars(RefundEvent(e))

(* "Disputes of payments whose points were used enter arrears, freeze and  *)
(* manual handling" (docs/implementation-spec.md:480): while the provider  *)
(* keeps sending the chargeback of a partially refunded order, the wallet  *)
(* is frozen in the end, unless the rest was refunded meanwhile.           *)
DisputedIsFrozen ==
  \A o \in Order :
    (order[o].status = "partially_refunded")
      ~> (order[o].status = "refunded" \/ frozen[TenantOf[o]])
=============================================================================
