---------------------------- MODULE WalletProofs ----------------------------
(***************************************************************************)
(* Theorems about the wallets, for every set of tenants, lots, orders,     *)
(* holds and provider events.                                              *)
(***************************************************************************)
EXTENDS WalletCustody, SumFacts, TLAPS

Balance == [Bucket -> Int]

LEMMA BucketNames ==
  /\ "available" \in Bucket /\ "reserved" \in Bucket /\ "consumed" \in Bucket
  /\ "expired" \in Bucket /\ "refunded" \in Bucket /\ "allocated" \in Bucket
BY DEF Bucket

LEMMA MoveType ==
  ASSUME NEW b \in Balance, NEW from \in Bucket, NEW to \in Bucket, NEW q \in Int
  PROVE  Move(b, from, to, q) \in Balance
BY DEF Balance, Move

LEMMA MoveKeepsTotal ==
  ASSUME NEW b \in Balance, NEW from \in Bucket, NEW to \in Bucket, NEW q \in Int, from # to
  PROVE  Total(Move(b, from, to, q)) = Total(b)
BY DEF Balance, Bucket, Move, Total

LEMMA PostingType ==
  ASSUME NEW b \in Balance, NEW l, NEW key, NEW from \in Bucket, NEW to \in Bucket, NEW q \in Int
  PROVE  Posting(b, l, key, from, to, q) \in Balance
BY MoveType DEF Posting

LEMMA PostingKeepsTotal ==
  ASSUME NEW b \in Balance, NEW l, NEW key, NEW from \in Bucket, NEW to \in Bucket, NEW q \in Int,
         from # to
  PROVE  Total(Posting(b, l, key, from, to, q)) = Total(b)
BY MoveKeepsTotal DEF Posting

-----------------------------------------------------------------------------
(***************************************************************************)
(* Facts about the effects that several operations share.                  *)
(***************************************************************************)
LotRow ==
  [tenant : Tenant \cup {None}, purpose : Purposes,
   order : Order \cup {None}, quantity : Nat, expires : Nat]

OrderRow ==
  [status : {"none", "pending", "payment_failed", "paid", "partially_refunded", "refunded"},
   payment : Ref \cup {None}, refunded : Nat, review : BOOLEAN]

LEMMA EmptyBalance == Empty \in Balance /\ Total(Empty) = 0
BY DEF Empty, Balance, Bucket, Total

LEMMA GrantBalance ==
  ASSUME NEW q \in Int
  PROVE  /\ [Empty EXCEPT !["available"] = q] \in Balance
         /\ Total([Empty EXCEPT !["available"] = q]) = q
BY DEF Empty, Balance, Bucket, Total

LEMMA ExpiryBalance ==
  ASSUME TypeOK, NEW t \in Tenant
  PROVE  /\ AfterExpiry(t) \in [Lot -> Balance]
         /\ \A l \in Lot : Total(AfterExpiry(t)[l]) = Total(balance[l])
<1>1. \A l \in Lot : balance[l] \in Balance /\ balance[l]["available"] \in Int
  BY DEF TypeOK, Balance, Bucket
<1>2. ASSUME NEW l \in Lot
      PROVE  /\ Posting(balance[l], l, <<"expire">>, "available", "expired",
                        balance[l]["available"]) \in Balance
             /\ Total(Posting(balance[l], l, <<"expire">>, "available", "expired",
                        balance[l]["available"])) = Total(balance[l])
  <2>1. balance[l] \in Balance /\ balance[l]["available"] \in Int /\ "available" # "expired"
    BY <1>1
  <2> HIDE DEF Balance
  <2> QED
    BY ONLY <2>1, PostingType, PostingKeepsTotal, BucketNames
<1> QED
  BY <1>1, <1>2 DEF AfterExpiry

LEMMA InitType == Init => TypeOK
<1> SUFFICES ASSUME Init PROVE TypeOK
  OBVIOUS
<1> USE WalletConstants
<1>1. PICK row \in Injection(DOMAIN Seeded, Lot) :
        LET seed(l) == CHOOSE s \in DOMAIN Seeded : row[s] = l IN
        /\ lot = [l \in Lot |->
                   IF l \in Range(row)
                   THEN [tenant |-> Seeded[seed(l)].tenant, purpose |-> Seeded[seed(l)].purpose,
                         order |-> None, quantity |-> Seeded[seed(l)].quantity,
                         expires |-> Seeded[seed(l)].expires]
                   ELSE NoLot]
        /\ balance = [l \in Lot |->
                       IF l \in Range(row)
                       THEN [Empty EXCEPT !["available"] = Seeded[seed(l)].quantity]
                       ELSE Empty]
        /\ posted = Range(row) \X {<<"grant">>}
  BY DEF Init
<1> DEFINE seed(l) == CHOOSE s \in DOMAIN Seeded : row[s] = l
<1>2. row \in [DOMAIN Seeded -> Lot]
  BY <1>1 DEF Injection
<1>3. Range(row) \subseteq Lot
  BY <1>2 DEF Range
<1>4. \A l \in Range(row) : seed(l) \in DOMAIN Seeded
  BY <1>2 DEF Range
<1>5. \A l \in Range(row) : Seeded[seed(l)] \in SeedType
  BY <1>4
<1>6. lot \in [Lot -> LotRow]
  BY <1>1, <1>5, ZenonT(40) DEF LotRow, SeedType, NoLot, Purposes
<1>7. balance \in [Lot -> Balance]
  <2>1. ASSUME NEW l \in Range(row)
        PROVE  [Empty EXCEPT !["available"] = Seeded[seed(l)].quantity] \in Balance
    <3> HIDE DEF seed
    <3>1. Seeded[seed(l)].quantity \in Int
      BY ONLY <1>5, <2>1 DEF SeedType
    <3> QED
      BY ONLY <3>1, GrantBalance
  <2>2. Empty \in Balance
    BY EmptyBalance
  <2> QED
    BY <1>1, <2>1, <2>2
<1>8. posted \subseteq Lot \X Key
  BY <1>1, <1>3 DEF Key
<1>9. now \in Time
  BY DEF Init, Time
<1>10. hold \in [Reservation -> [status : {"none", "reserved", "consumed", "released"},
                                quantity : Nat, expires : Nat]]
  BY DEF Init, NoHold
<1>11. taken \in [Reservation -> [Lot -> Nat]]
  BY DEF Init
<1>12. order \in [Order -> OrderRow]
  BY DEF Init, NoOrder, OrderRow
<1>13. inbox \subseteq Event /\ frozen \in [Tenant -> BOOLEAN]
  BY DEF Init
<1> QED
  BY <1>6, <1>7, <1>8, <1>9, <1>10, <1>11, <1>12, <1>13 DEF TypeOK, LotRow, OrderRow, Balance

LEMMA GrantType ==
  ASSUME TypeOK, NEW l \in Lot, NEW o \in Order, Grant(l, o)
  PROVE  /\ lot' \in [Lot -> LotRow]
         /\ balance' \in [Lot -> Balance]
         /\ posted' \subseteq Lot \X Key
<1> USE WalletConstants
<1>1. TenantOf[o] \in Tenant /\ PointsOf[o] \in Nat /\ now + LotLife \in Nat
  BY DEF TypeOK, Time
<1>2. lot' \in [Lot -> LotRow]
  BY <1>1 DEF Grant, TypeOK, LotRow, Purposes
<1>3. [Empty EXCEPT !["available"] = PointsOf[o]] \in Balance
  BY ONLY <1>1, GrantBalance
<1>4. balance' \in [Lot -> Balance]
  <2> HIDE WalletConstants
  <2> DEFINE new == [Empty EXCEPT !["available"] = PointsOf[o]]
  <2>1. new \in Balance
    BY <1>3
  <2>2. balance \in [Lot -> Balance] /\ balance' = [balance EXCEPT ![l] = new]
    BY DEF TypeOK, Balance, Grant
  <2> HIDE DEF new, Balance
  <2> QED
    BY <2>1, <2>2
<1>5. posted' \subseteq Lot \X Key
  BY DEF Grant, TypeOK, Key
<1> QED
  BY <1>2, <1>4, <1>5

LEMMA RefundType ==
  ASSUME TypeOK, NEW o \in Order, NEW amount \in Nat, NEW chargeback,
         Refund(o, amount, chargeback), inbox' \subseteq Event
  PROVE  TypeOK'
<1> USE WalletConstants
<1>1. CASE Reviewed(o, amount, chargeback)
  <2>1. order' \in [Order -> OrderRow]
    <3>1. order \in [Order -> OrderRow] /\ order' = [order EXCEPT ![o].review = TRUE]
      BY <1>1 DEF Refund, TypeOK, OrderRow
    <3> QED
      BY ONLY <3>1, o \in Order DEF OrderRow
  <2>2. frozen' \in [Tenant -> BOOLEAN]
    BY <1>1 DEF Refund, TypeOK
  <2> QED
    BY <1>1, <2>1, <2>2 DEF Refund, TypeOK, OrderRow
<1>2. CASE ~Reviewed(o, amount, chargeback)
  <2>1. balance' \in [Lot -> Balance]
    <3> DEFINE moved == Move(balance[LotOf(o)], "available", "refunded", amount)
    <3>1. balance \in [Lot -> Balance] /\ balance' = [balance EXCEPT ![LotOf(o)] = moved]
      BY <1>2 DEF Refund, TypeOK, Balance
    <3>2. LotOf(o) \in Lot => moved \in Balance
      BY ONLY <3>1, MoveType, BucketNames, amount \in Nat
    <3> HIDE DEF moved, Balance
    <3> QED
      BY ONLY <3>1, <3>2
  <2>2. order' \in [Order -> OrderRow]
    <3> DEFINE status == StatusAfterRefund(o, amount)
    <3>1. order \in [Order -> OrderRow]
      BY DEF TypeOK, OrderRow
    <3>2. status \in {"refunded", "partially_refunded"}
      BY DEF StatusAfterRefund
    <3>3. order' = [order EXCEPT ![o].status = status, ![o].refunded = @ + amount]
      BY <1>2 DEF Refund
    <3>4. order[o].refunded + amount \in Nat
      BY <3>1 DEF OrderRow
    <3> DEFINE row == [order[o] EXCEPT !.status = status, !.refunded = order[o].refunded + amount]
    <3> HIDE DEF status
    <3>5. row \in OrderRow
      BY ONLY <3>1, <3>2, <3>4, o \in Order DEF OrderRow
    <3>6. order' = [order EXCEPT ![o] = row]
      BY ONLY <3>1, <3>3, o \in Order DEF OrderRow
    <3> HIDE DEF row
    <3> QED
      BY ONLY <3>1, <3>5, <3>6
  <2> QED
    BY <1>2, <2>1, <2>2 DEF Refund, TypeOK, Balance, OrderRow
<1> QED
  BY <1>1, <1>2

LEMMA AllocateType ==
  ASSUME TypeOK, NEW p \in Tenant, NEW c \in Tenant, NEW q \in 1..MaxHold, Allocate(p, c, q)
  PROVE  TypeOK'
<1> USE WalletConstants
<1>1. PICK take \in [Lot -> 0..q] :
       LET sources == {l \in Lot : take[l] > 0} IN
       \E copy \in Injection(sources, {l \in Lot : ~Exists(l)}) :
            LET source(l) == CHOOSE s \in sources : copy[s] = l IN
            /\ lot' = [l \in Lot |->
                 IF l \in Range(copy)
                 THEN [tenant |-> c, purpose |-> lot[source(l)].purpose, order |-> None,
                       quantity |-> take[source(l)], expires |-> lot[source(l)].expires]
                 ELSE lot[l]]
            /\ balance' = [l \in Lot |->
                 IF l \in Range(copy)
                 THEN [Empty EXCEPT !["available"] = take[source(l)]]
                 ELSE IF l \in sources
                      THEN Debit(l, take[l])
                      ELSE balance[l]]
            /\ posted' = posted \cup (Range(copy) \X {<<"grant">>})
  BY DEF Allocate
<1> DEFINE sources == {l \in Lot : take[l] > 0}
<1>2. PICK copy \in Injection(sources, {l \in Lot : ~Exists(l)}) :
            LET source(l) == CHOOSE s \in sources : copy[s] = l IN
            /\ lot' = [l \in Lot |->
                 IF l \in Range(copy)
                 THEN [tenant |-> c, purpose |-> lot[source(l)].purpose, order |-> None,
                       quantity |-> take[source(l)], expires |-> lot[source(l)].expires]
                 ELSE lot[l]]
            /\ balance' = [l \in Lot |->
                 IF l \in Range(copy)
                 THEN [Empty EXCEPT !["available"] = take[source(l)]]
                 ELSE IF l \in sources
                      THEN Debit(l, take[l])
                      ELSE balance[l]]
            /\ posted' = posted \cup (Range(copy) \X {<<"grant">>})
  BY <1>1
<1> DEFINE source(l) == CHOOSE s \in sources : copy[s] = l
<1>3. \A l \in Range(copy) : l \in Lot /\ source(l) \in Lot
  BY <1>2 DEF Injection, Range
<1>4. \A l \in Lot : take[l] \in Nat /\ take[l] \in Int
  BY <1>1
<1>5. lot' \in [Lot -> LotRow]
  <2>1. lot \in [Lot -> LotRow]
    BY DEF TypeOK, LotRow
  <2>2. ASSUME NEW l \in Range(copy)
        PROVE  [tenant |-> c, purpose |-> lot[source(l)].purpose, order |-> None,
                quantity |-> take[source(l)], expires |-> lot[source(l)].expires] \in LotRow
    <3>1. lot[source(l)] \in LotRow /\ take[source(l)] \in Nat
      BY <1>3, <1>4, <2>1
    <3> HIDE DEF source
    <3> QED
      BY ONLY <3>1, c \in Tenant DEF LotRow
  <2>3. lot' = [l \in Lot |->
                 IF l \in Range(copy)
                 THEN [tenant |-> c, purpose |-> lot[source(l)].purpose, order |-> None,
                       quantity |-> take[source(l)], expires |-> lot[source(l)].expires]
                 ELSE lot[l]]
    BY <1>2
  <2> HIDE DEF source, sources, LotRow
  <2> QED
    BY ONLY <2>1, <2>2, <2>3
<1>6. balance' \in [Lot -> Balance]
  <2>1. \A l \in Lot : balance[l] \in Balance
    BY DEF TypeOK, Balance
  <2>2. ASSUME NEW l \in Lot PROVE Debit(l, take[l]) \in Balance
    <3> QED
      BY ONLY <1>4, <2>1, MoveType, BucketNames DEF Debit
  <2>3. ASSUME NEW l \in Range(copy)
        PROVE  [Empty EXCEPT !["available"] = take[source(l)]] \in Balance
    <3>1. take[source(l)] \in Int
      BY <1>3, <1>4
    <3> HIDE DEF source
    <3> QED
      BY ONLY <3>1, GrantBalance
  <2>4. balance' = [l \in Lot |->
                 IF l \in Range(copy)
                 THEN [Empty EXCEPT !["available"] = take[source(l)]]
                 ELSE IF l \in sources
                      THEN Debit(l, take[l])
                      ELSE balance[l]]
    BY <1>2
  <2> HIDE DEF source, sources, Balance
  <2> QED
    BY ONLY <2>1, <2>2, <2>3, <2>4
<1>7. posted' \subseteq Lot \X Key
  BY <1>2, <1>3 DEF TypeOK, Key
<1> QED
  BY <1>5, <1>6, <1>7 DEF Allocate, TypeOK, LotRow, Balance

HoldRow ==
  [status : {"none", "reserved", "consumed", "released"}, quantity : Nat, expires : Nat]

LEMMA HoldStatusType ==
  ASSUME hold \in [Reservation -> HoldRow], NEW r \in Reservation, NEW status \in {"consumed", "released"},
         hold' = [hold EXCEPT ![r].status = status]
  PROVE  hold' \in [Reservation -> HoldRow]
<1>1. hold[r] \in HoldRow
  OBVIOUS
<1>2. [hold[r] EXCEPT !.status = status] \in HoldRow
  BY <1>1 DEF HoldRow
<1>3. hold' = [hold EXCEPT ![r] = [hold[r] EXCEPT !.status = status]]
  OBVIOUS
<1> QED
  BY ONLY <1>2, <1>3, hold \in [Reservation -> HoldRow]

LEMMA TypeStep == TypeOK /\ [Next]_vars => TypeOK'
<1> SUFFICES ASSUME TypeOK, [Next]_vars PROVE TypeOK'
  OBVIOUS
<1> USE WalletConstants
<1>1. CASE Tick
  BY <1>1 DEF Tick, TypeOK, Time
<1>2. ASSUME NEW t \in Tenant, ExpireLots(t) PROVE TypeOK'
  <2>1. balance' \in [Lot -> Balance]
    BY <1>2, ExpiryBalance DEF ExpireLots
  <2>2. posted' \subseteq Lot \X Key
    BY <1>2 DEF ExpireLots, Expiring, LotsOf, TypeOK, Key
  <2> QED
    BY <1>2, <2>1, <2>2 DEF ExpireLots, TypeOK, Balance
<1>3. ASSUME NEW r \in Reservation, NEW q \in 1..MaxHold, NEW x \in Time, Reserve(r, q, x)
      PROVE  TypeOK'
  <2> DEFINE t == TenantOf[r]
             swept == AfterExpiry(t)
  <2>1. t \in Tenant
    OBVIOUS
  <2>2. PICK take \in [Lot -> 0..q] :
          /\ balance' = [l \in Lot |->
               IF take[l] > 0
               THEN Posting(swept[l], l, <<"reserve", r>>, "available", "reserved", take[l])
               ELSE swept[l]]
          /\ posted' = posted \cup (Expiring(t) \X {<<"expire">>})
                              \cup ({l \in Lot : take[l] > 0} \X {<<"reserve", r>>})
          /\ taken' = [taken EXCEPT ![r] = take]
    BY <1>3 DEF Reserve
  <2>3. balance' \in [Lot -> Balance]
    <3>1. ASSUME NEW l \in Lot
          PROVE  Posting(swept[l], l, <<"reserve", r>>, "available", "reserved", take[l]) \in Balance
      <4>1. swept[l] \in Balance
        BY <2>1, ExpiryBalance
      <4>2. take[l] \in Int
        BY <2>2
      <4> QED
        BY ONLY <4>1, <4>2, PostingType, BucketNames
    <3> QED
      BY <2>1, <2>2, <3>1, ExpiryBalance
  <2>4. posted' \subseteq Lot \X Key
    BY <2>2 DEF Expiring, LotsOf, TypeOK, Key
  <2>5. taken' \in [Reservation -> [Lot -> Nat]]
    <3>1. take \in [Lot -> Nat]
      BY <2>2
    <3> QED
      BY <2>2, <3>1 DEF TypeOK
  <2>6. hold' \in [Reservation -> [status : {"none", "reserved", "consumed", "released"},
                                  quantity : Nat, expires : Nat]]
    BY <1>3 DEF Reserve, TypeOK, Time
  <2> QED
    BY <1>3, <2>3, <2>4, <2>5, <2>6 DEF Reserve, TypeOK, Balance
<1>4. ASSUME NEW r \in Reservation, NEW at \in Time, Consume(r, at) PROVE TypeOK'
  <2>1. balance' \in [Lot -> Balance]
    <3>1. ASSUME NEW l \in Lot
          PROVE  Posting(balance[l], l, <<"consume", r>>, "reserved", "consumed", taken[r][l]) \in Balance
      <4>1. balance[l] \in Balance /\ taken[r][l] \in Int
        BY DEF TypeOK, Balance
      <4> QED
        BY ONLY <4>1, PostingType, BucketNames
    <3> QED
      BY <1>4, <3>1 DEF Consume, TypeOK, Balance
  <2>2. posted' \subseteq Lot \X Key
    BY <1>4 DEF Consume, TypeOK, Key
  <2>3. hold' \in [Reservation -> [status : {"none", "reserved", "consumed", "released"},
                                  quantity : Nat, expires : Nat]]
    <3>1. hold \in [Reservation -> HoldRow]
      BY DEF TypeOK, HoldRow
    <3>2. hold' = [hold EXCEPT ![r].status = "consumed"]
      BY <1>4 DEF Consume
    <3>3. hold' \in [Reservation -> HoldRow]
      BY ONLY <3>1, <3>2, r \in Reservation, HoldStatusType
    <3> QED
      BY ONLY <3>3 DEF HoldRow
  <2> QED
    BY <1>4, <2>1, <2>2, <2>3 DEF Consume, TypeOK, Balance
<1>5. ASSUME NEW r \in Reservation, Release(r) PROVE TypeOK'
  <2>1. balance' \in [Lot -> Balance]
    <3>1. ASSUME NEW l \in Lot
          PROVE  Posting(balance[l], l, <<"release", r>>, "reserved", ReturnsTo(l), taken[r][l]) \in Balance
      <4>1. balance[l] \in Balance /\ taken[r][l] \in Int
        BY DEF TypeOK, Balance
      <4>2. ReturnsTo(l) \in Bucket
        BY BucketNames DEF ReturnsTo
      <4> QED
        BY ONLY <4>1, <4>2, PostingType, BucketNames
    <3> QED
      BY <1>5, <3>1 DEF Release, TypeOK, Balance
  <2>2. posted' \subseteq Lot \X Key
    BY <1>5 DEF Release, TypeOK, Key
  <2>3. hold' \in [Reservation -> [status : {"none", "reserved", "consumed", "released"},
                                  quantity : Nat, expires : Nat]]
    <3>1. hold \in [Reservation -> HoldRow]
      BY DEF TypeOK, HoldRow
    <3>2. hold' = [hold EXCEPT ![r].status = "released"]
      BY <1>5 DEF Release
    <3>3. hold' \in [Reservation -> HoldRow]
      BY ONLY <3>1, <3>2, r \in Reservation, HoldStatusType
    <3> QED
      BY ONLY <3>3 DEF HoldRow
  <2> QED
    BY <1>5, <2>1, <2>2, <2>3 DEF Release, TypeOK, Balance
<1>6. ASSUME NEW o \in Order, CreateOrder(o) PROVE TypeOK'
  BY <1>6, ZenonT(40) DEF CreateOrder, TypeOK
<1>7. ASSUME NEW e \in Event, PaidEvent(e) PROVE TypeOK'
  <2>1. e.order \in Order /\ e.ref \in Ref
    BY DEF EventType
  <2>2. inbox' \subseteq Event
    BY <1>7 DEF PaidEvent, Acknowledge, TypeOK
  <2>3. CASE Paid(e.order)
    BY <1>7, <2>2, <2>3 DEF PaidEvent, TypeOK
  <2>4. CASE ~Paid(e.order)
    <3>1. PICK l \in Lot : Grant(l, e.order)
      BY <1>7, <2>4 DEF PaidEvent
    <3>2. lot' \in [Lot -> LotRow] /\ posted' \subseteq Lot \X Key
      BY <2>1, <3>1, GrantType
    <3>3. balance' \in [Lot -> Balance]
      BY <2>1, <3>1, GrantType
    <3>4. order' \in [Order -> OrderRow]
      <4>1. order \in [Order -> OrderRow]
        BY DEF TypeOK, OrderRow
      <4>2. order' = [order EXCEPT ![e.order].status = "paid", ![e.order].payment = e.ref]
        BY <1>7, <2>4 DEF PaidEvent
      <4> QED
        BY ONLY <2>1, <4>1, <4>2 DEF OrderRow
    <3> QED
      BY <1>7, <2>2, <3>2, <3>3, <3>4 DEF PaidEvent, TypeOK, LotRow, OrderRow, Balance
  <2> QED
    BY <2>3, <2>4
<1>8. ASSUME NEW e \in Event, FailedEvent(e) PROVE TypeOK'
  <2>1. e.order \in Order
    BY DEF EventType
  <2>2. inbox' \subseteq Event
    BY <1>8 DEF FailedEvent, Acknowledge, TypeOK
  <2>3. order' \in [Order -> OrderRow]
    BY <1>8, <2>1, ZenonT(40) DEF FailedEvent, Failed, TypeOK, OrderRow
  <2> QED
    BY <1>8, <2>2, <2>3 DEF FailedEvent, TypeOK, OrderRow
<1>9. ASSUME NEW e \in Event, RefundEvent(e) PROVE TypeOK'
  <2>1. e.order \in Order /\ e.amount \in Nat /\ Refund(e.order, e.amount, e.status = "chargeback")
    BY <1>9 DEF EventType, RefundEvent
  <2>2. inbox' \subseteq Event
    BY <1>9 DEF RefundEvent, Acknowledge, TypeOK
  <2> QED
    BY <2>1, <2>2, RefundType
<1>10. ASSUME NEW o \in Order, NEW q \in 1..MaxHold, FinanceRefund(o, q) PROVE TypeOK'
  <2>1. q \in Nat
    OBVIOUS
  <2>2. Refund(o, q, FALSE) /\ inbox' \subseteq Event
    BY <1>10 DEF FinanceRefund, TypeOK
  <2> QED
    BY <2>1, <2>2, RefundType
<1>11. ASSUME NEW p \in Tenant, NEW c \in Tenant, NEW q \in 1..MaxHold, Allocate(p, c, q)
       PROVE  TypeOK'
  BY <1>11, AllocateType
<1>12. CASE UNCHANGED vars
  BY <1>12 DEF vars, TypeOK
<1> QED
  BY <1>1, <1>2, <1>3, <1>4, <1>5, <1>6, <1>7, <1>8, <1>9, <1>10, <1>11, <1>12 DEF Next

(* Every variable keeps its type: in particular statuses stay among those  *)
(* the database's rows may have, whatever order the events arrive in.      *)
THEOREM TypeCorrect == Spec => []TypeOK
BY InitType, TypeStep, PTL DEF Spec

-----------------------------------------------------------------------------
(***************************************************************************)
(* The ledger balances.  LedgerBalanced is inductive on top of the types:  *)
(* a row moves points between two buckets of one lot (PostingKeepsTotal),  *)
(* and a new lot starts with all its points available (GrantBalance).      *)
(***************************************************************************)
LEMMA InitLedger == Init => LedgerBalanced
<1> SUFFICES ASSUME Init, NEW l \in Lot PROVE Total(balance[l]) = lot[l].quantity
  BY DEF LedgerBalanced
<1> USE WalletConstants
<1>1. PICK row \in Injection(DOMAIN Seeded, Lot) :
        LET seed(k) == CHOOSE s \in DOMAIN Seeded : row[s] = k IN
        /\ lot = [k \in Lot |->
                   IF k \in Range(row)
                   THEN [tenant |-> Seeded[seed(k)].tenant, purpose |-> Seeded[seed(k)].purpose,
                         order |-> None, quantity |-> Seeded[seed(k)].quantity,
                         expires |-> Seeded[seed(k)].expires]
                   ELSE NoLot]
        /\ balance = [k \in Lot |->
                       IF k \in Range(row)
                       THEN [Empty EXCEPT !["available"] = Seeded[seed(k)].quantity]
                       ELSE Empty]
  BY DEF Init
<1> DEFINE seed(k) == CHOOSE s \in DOMAIN Seeded : row[s] = k
<1>2. CASE l \in Range(row)
  <2>1. seed(l) \in DOMAIN Seeded
    BY <1>1, <1>2 DEF Injection, Range
  <2>2. balance[l] = [Empty EXCEPT !["available"] = Seeded[seed(l)].quantity]
        /\ lot[l].quantity = Seeded[seed(l)].quantity
    BY <1>1, <1>2
  <2> HIDE DEF seed
  <2>3. Seeded[seed(l)].quantity \in Int
    BY <2>1 DEF SeedType
  <2> QED
    BY ONLY <2>2, <2>3, GrantBalance
<1>3. CASE l \notin Range(row)
  BY <1>1, <1>3, EmptyBalance DEF NoLot
<1> QED
  BY <1>2, <1>3

LEMMA GrantLedger ==
  ASSUME TypeOK, LedgerBalanced, NEW l \in Lot, NEW o \in Order, Grant(l, o)
  PROVE  LedgerBalanced'
<1> SUFFICES ASSUME NEW k \in Lot PROVE Total(balance'[k]) = lot'[k].quantity
  BY DEF LedgerBalanced, Total
<1>1. CASE k = l
  <2>1. PointsOf[o] \in Int
    BY WalletConstants
  <2>2. balance'[l] = [Empty EXCEPT !["available"] = PointsOf[o]] /\ lot'[l].quantity = PointsOf[o]
    BY DEF Grant, TypeOK
  <2> QED
    BY ONLY <1>1, <2>1, <2>2, GrantBalance
<1>2. CASE k # l
  BY <1>2 DEF Grant, TypeOK, LedgerBalanced
<1> QED
  BY <1>1, <1>2

LEMMA RefundLedger ==
  ASSUME TypeOK, LedgerBalanced, NEW o \in Order, NEW amount \in Nat, NEW chargeback,
         Refund(o, amount, chargeback)
  PROVE  LedgerBalanced'
<1> SUFFICES ASSUME NEW l \in Lot PROVE Total(balance'[l]) = lot'[l].quantity
  BY DEF LedgerBalanced, Total
<1>1. balance[l] \in Balance /\ amount \in Int
  BY DEF TypeOK, Balance
<1>2. Total(Move(balance[l], "available", "refunded", amount)) = Total(balance[l])
  BY ONLY <1>1, MoveKeepsTotal, BucketNames
<1>3. balance'[l] = balance[l] \/ balance'[l] = Move(balance[l], "available", "refunded", amount)
  <2>1. CASE Reviewed(o, amount, chargeback)
    BY <2>1 DEF Refund
  <2>2. CASE ~Reviewed(o, amount, chargeback)
    BY <2>2 DEF Refund, TypeOK
  <2> QED
    BY <2>1, <2>2
<1>4. lot' = lot
  BY DEF Refund
<1> QED
  BY <1>2, <1>3, <1>4 DEF LedgerBalanced

LEMMA AllocateLedger ==
  ASSUME TypeOK, LedgerBalanced, NEW p \in Tenant, NEW c \in Tenant, NEW q \in 1..MaxHold,
         Allocate(p, c, q)
  PROVE  LedgerBalanced'
<1> SUFFICES ASSUME NEW l \in Lot PROVE Total(balance'[l]) = lot'[l].quantity
  BY DEF LedgerBalanced, Total
<1>1. PICK take \in [Lot -> 0..q] :
       LET sources == {k \in Lot : take[k] > 0} IN
       \E copy \in Injection(sources, {k \in Lot : ~Exists(k)}) :
            LET source(k) == CHOOSE s \in sources : copy[s] = k IN
            /\ lot' = [k \in Lot |->
                 IF k \in Range(copy)
                 THEN [tenant |-> c, purpose |-> lot[source(k)].purpose, order |-> None,
                       quantity |-> take[source(k)], expires |-> lot[source(k)].expires]
                 ELSE lot[k]]
            /\ balance' = [k \in Lot |->
                 IF k \in Range(copy)
                 THEN [Empty EXCEPT !["available"] = take[source(k)]]
                 ELSE IF k \in sources
                      THEN Debit(k, take[k])
                      ELSE balance[k]]
  BY DEF Allocate
<1> DEFINE sources == {k \in Lot : take[k] > 0}
<1>2. PICK copy \in Injection(sources, {k \in Lot : ~Exists(k)}) :
            LET source(k) == CHOOSE s \in sources : copy[s] = k IN
            /\ lot' = [k \in Lot |->
                 IF k \in Range(copy)
                 THEN [tenant |-> c, purpose |-> lot[source(k)].purpose, order |-> None,
                       quantity |-> take[source(k)], expires |-> lot[source(k)].expires]
                 ELSE lot[k]]
            /\ balance' = [k \in Lot |->
                 IF k \in Range(copy)
                 THEN [Empty EXCEPT !["available"] = take[source(k)]]
                 ELSE IF k \in sources
                      THEN Debit(k, take[k])
                      ELSE balance[k]]
  BY <1>1
<1> DEFINE source(k) == CHOOSE s \in sources : copy[s] = k
<1>3. CASE l \in Range(copy)
  <2>1. source(l) \in Lot
    BY <1>2, <1>3 DEF Injection, Range
  <2>2. /\ balance'[l] = [Empty EXCEPT !["available"] = take[source(l)]]
        /\ lot'[l].quantity = take[source(l)]
    BY <1>2, <1>3
  <2> HIDE DEF source
  <2>3. take[source(l)] \in Int
    BY <2>1
  <2> QED
    BY ONLY <2>2, <2>3, GrantBalance
<1>4. CASE l \notin Range(copy)
  <2>1. balance[l] \in Balance /\ take[l] \in Int
    BY DEF TypeOK, Balance
  <2>2. Total(Debit(l, take[l])) = Total(balance[l])
    BY ONLY <2>1, MoveKeepsTotal, BucketNames DEF Debit
  <2>3. balance'[l] \in {balance[l], Debit(l, take[l])} /\ lot'[l] = lot[l]
    BY <1>2, <1>4
  <2> QED
    BY <2>2, <2>3 DEF LedgerBalanced
<1> QED
  BY <1>3, <1>4

LEMMA LedgerStep == TypeOK /\ LedgerBalanced /\ [Next]_vars => LedgerBalanced'
<1> SUFFICES ASSUME TypeOK, LedgerBalanced, [Next]_vars PROVE LedgerBalanced'
  OBVIOUS
<1> USE WalletConstants
<1>0. \A l \in Lot : balance[l] \in Balance /\ Total(balance[l]) = lot[l].quantity
  BY DEF TypeOK, Balance, LedgerBalanced
<1>1. CASE UNCHANGED <<lot, balance>>
  BY <1>1 DEF LedgerBalanced, Total
<1>2. ASSUME NEW t \in Tenant, ExpireLots(t) PROVE LedgerBalanced'
  <2>1. balance' = AfterExpiry(t) /\ lot' = lot
    BY <1>2 DEF ExpireLots
  <2> QED
    BY <1>0, <2>1, ExpiryBalance DEF LedgerBalanced, Total
<1>3. ASSUME NEW r \in Reservation, NEW q \in 1..MaxHold, NEW x \in Time, Reserve(r, q, x)
      PROVE  LedgerBalanced'
  <2> DEFINE swept == AfterExpiry(TenantOf[r])
  <2>1. PICK take \in [Lot -> 0..q] :
          balance' = [l \in Lot |->
               IF take[l] > 0
               THEN Posting(swept[l], l, <<"reserve", r>>, "available", "reserved", take[l])
               ELSE swept[l]]
    BY <1>3 DEF Reserve
  <2>2. ASSUME NEW l \in Lot PROVE Total(balance'[l]) = lot[l].quantity
    <3>1. swept[l] \in Balance /\ Total(swept[l]) = lot[l].quantity /\ take[l] \in Int
      BY <1>0, ExpiryBalance
    <3>2. Total(Posting(swept[l], l, <<"reserve", r>>, "available", "reserved", take[l]))
            = lot[l].quantity
      BY ONLY <3>1, PostingKeepsTotal, BucketNames
    <3> QED
      BY <2>1, <3>1, <3>2
  <2> QED
    BY <1>3, <2>2 DEF Reserve, LedgerBalanced, Total
<1>4. ASSUME NEW r \in Reservation, NEW at \in Time, Consume(r, at) PROVE LedgerBalanced'
  <2>1. ASSUME NEW l \in Lot PROVE Total(balance'[l]) = lot[l].quantity
    <3>1. balance[l] \in Balance /\ Total(balance[l]) = lot[l].quantity /\ taken[r][l] \in Int
      BY <1>0 DEF TypeOK
    <3>2. Total(Posting(balance[l], l, <<"consume", r>>, "reserved", "consumed", taken[r][l]))
            = lot[l].quantity
      BY ONLY <3>1, PostingKeepsTotal, BucketNames
    <3> QED
      BY <1>4, <3>1, <3>2 DEF Consume
  <2> QED
    BY <1>4, <2>1 DEF Consume, LedgerBalanced, Total
<1>5. ASSUME NEW r \in Reservation, Release(r) PROVE LedgerBalanced'
  <2>1. ASSUME NEW l \in Lot PROVE Total(balance'[l]) = lot[l].quantity
    <3>1. balance[l] \in Balance /\ Total(balance[l]) = lot[l].quantity /\ taken[r][l] \in Int
      BY <1>0 DEF TypeOK
    <3>2. ReturnsTo(l) \in Bucket /\ ReturnsTo(l) # "reserved"
      BY BucketNames DEF ReturnsTo
    <3>3. Total(Posting(balance[l], l, <<"release", r>>, "reserved", ReturnsTo(l), taken[r][l]))
            = lot[l].quantity
      BY ONLY <3>1, <3>2, PostingKeepsTotal, BucketNames
    <3> QED
      BY <1>5, <3>1, <3>3 DEF Release
  <2> QED
    BY <1>5, <2>1 DEF Release, LedgerBalanced, Total
<1>6. ASSUME NEW e \in Event, PaidEvent(e) PROVE LedgerBalanced'
  <2>1. CASE Paid(e.order)
    BY <1>1, <1>6, <2>1 DEF PaidEvent
  <2>2. CASE ~Paid(e.order)
    <3>1. PICK l \in Lot : Grant(l, e.order)
      BY <1>6, <2>2 DEF PaidEvent
    <3>2. e.order \in Order
      BY DEF EventType
    <3> QED
      BY ONLY <3>1, <3>2, GrantLedger, TypeOK, LedgerBalanced
  <2> QED
    BY <2>1, <2>2
<1>7. ASSUME NEW e \in Event, RefundEvent(e) PROVE LedgerBalanced'
  <2>1. e.order \in Order /\ e.amount \in Nat
    BY DEF EventType
  <2> QED
    BY <1>7, <2>1, RefundLedger DEF RefundEvent
<1>8. ASSUME NEW o \in Order, NEW q \in 1..MaxHold, FinanceRefund(o, q) PROVE LedgerBalanced'
  <2>1. q \in Nat
    OBVIOUS
  <2> QED
    BY <1>8, <2>1, RefundLedger DEF FinanceRefund
<1>9. ASSUME NEW p \in Tenant, NEW c \in Tenant, NEW q \in 1..MaxHold, Allocate(p, c, q)
      PROVE  LedgerBalanced'
  BY <1>9, AllocateLedger
<1>10. Tick \/ (\E o \in Order : CreateOrder(o)) \/ (\E e \in Event : FailedEvent(e))
         \/ UNCHANGED vars => UNCHANGED <<lot, balance>>
  BY DEF Tick, CreateOrder, FailedEvent, vars
<1> QED
  BY <1>1, <1>2, <1>3, <1>4, <1>5, <1>6, <1>7, <1>8, <1>9, <1>10 DEF Next

(* No operation creates or loses a point: the buckets of every lot add up  *)
(* to what was granted, for any number of lots, orders and holds.          *)
THEOREM LedgerAlwaysBalanced == Spec => []LedgerBalanced
<1>1. Init => LedgerBalanced
  BY InitLedger
<1>2. TypeOK /\ LedgerBalanced /\ [Next]_vars => LedgerBalanced'
  BY LedgerStep
<1> QED
  BY <1>1, <1>2, TypeCorrect, PTL DEF Spec

-----------------------------------------------------------------------------
(* A hold keeps what it took, and once settled it is settled for good,     *)
(* whichever of worker, sweep and user comes second.                       *)
THEOREM SettlesOnce == Spec => SettledOnce
<1>1. ASSUME [Next]_vars, TypeOK, NEW r \in Reservation, hold[r].status # "none"
      PROVE  /\ taken'[r] = taken[r]
             /\ hold[r].status \in {"consumed", "released"} => hold'[r] = hold[r]
  <2>1. CASE UNCHANGED <<hold, taken>>
    BY <2>1
  <2>2. ASSUME NEW s \in Reservation, NEW q \in 1..MaxHold, NEW x \in Time, Reserve(s, q, x)
        PROVE  hold'[r] = hold[r] /\ taken'[r] = taken[r]
    BY <1>1, <2>2 DEF Reserve, TypeOK
  <2>3. ASSUME NEW s \in Reservation, NEW at \in Time, Consume(s, at)
        PROVE  /\ taken'[r] = taken[r]
               /\ hold[r].status \in {"consumed", "released"} => hold'[r] = hold[r]
    BY <1>1, <2>3 DEF Consume, Open, TypeOK
  <2>4. ASSUME NEW s \in Reservation, Release(s)
        PROVE  /\ taken'[r] = taken[r]
               /\ hold[r].status \in {"consumed", "released"} => hold'[r] = hold[r]
    BY <1>1, <2>4 DEF Release, Open, TypeOK
  <2> QED
    BY <1>1, <2>1, <2>2, <2>3, <2>4
       DEF Next, vars, Tick, ExpireLots, CreateOrder, PaidEvent, FailedEvent, RefundEvent,
           FinanceRefund, Refund, Allocate
<1>2. TypeOK /\ [Next]_vars =>
        [\A r \in Reservation : hold[r].status # "none" =>
           /\ taken'[r] = taken[r]
           /\ hold[r].status \in {"consumed", "released"} => hold'[r] = hold[r]]_vars
  BY <1>1
<1> QED
  BY <1>2, TypeCorrect, PTL DEF Spec, SettledOnce
-----------------------------------------------------------------------------
(***************************************************************************)
(* Expired points.  Only Release could make a point available again, and   *)
(* it asks whether the lot has expired; every other row takes points away  *)
(* from what is available, or concerns a lot that did not exist.           *)
(***************************************************************************)
LEMMA PostingTakes ==
  ASSUME NEW b \in Balance, NEW l, NEW key, NEW from \in Bucket, NEW to \in Bucket, NEW q \in Nat,
         to # "available"
  PROVE  Posting(b, l, key, from, to, q)["available"] <= b["available"]
<1>1. b["available"] \in Int
  BY DEF Balance, Bucket
<1>2. Move(b, from, to, q)["available"] <= b["available"]
  BY <1>1 DEF Balance, Move, Bucket
<1> QED
  BY <1>1, <1>2 DEF Posting

LEMMA ExpiryTakes ==
  ASSUME TypeOK, NEW t \in Tenant, NEW l \in Lot
  PROVE  AfterExpiry(t)[l]["available"] <= balance[l]["available"]
<1>1. balance[l] \in Balance /\ balance[l]["available"] \in Int
  BY DEF TypeOK, Balance, Bucket
<1>2. CASE l \in Expiring(t)
  <2>1. balance[l]["available"] \in Nat
    BY <1>1, <1>2 DEF Expiring
  <2>2. Posting(balance[l], l, <<"expire">>, "available", "expired", balance[l]["available"])["available"]
          <= balance[l]["available"]
    BY ONLY <1>1, <2>1, PostingTakes, BucketNames
  <2> QED
    BY <1>2, <2>2 DEF AfterExpiry
<1>3. CASE l \notin Expiring(t)
  BY <1>1, <1>3 DEF AfterExpiry
<1> QED
  BY <1>2, <1>3

LEMMA DebitTakes ==
  ASSUME TypeOK, NEW l \in Lot, NEW q \in Nat, NEW to \in Bucket, to # "available"
  PROVE  Move(balance[l], "available", to, q)["available"] <= balance[l]["available"]
BY DEF TypeOK, Bucket, Move

LEMMA AllocateTakes ==
  ASSUME TypeOK, NEW p \in Tenant, NEW c \in Tenant, NEW q \in 1..MaxHold, Allocate(p, c, q),
         NEW l \in Lot, Exists(l)
  PROVE  balance'[l]["available"] <= balance[l]["available"]
<1>1. PICK take \in [Lot -> 0..q] :
       LET sources == {k \in Lot : take[k] > 0} IN
       \E copy \in Injection(sources, {k \in Lot : ~Exists(k)}) :
            LET source(k) == CHOOSE s \in sources : copy[s] = k IN
            balance' = [k \in Lot |->
                 IF k \in Range(copy)
                 THEN [Empty EXCEPT !["available"] = take[source(k)]]
                 ELSE IF k \in sources
                      THEN Debit(k, take[k])
                      ELSE balance[k]]
  BY DEF Allocate
<1>2. PICK copy \in Injection({k \in Lot : take[k] > 0}, {k \in Lot : ~Exists(k)}) :
         \A k \in Lot \ Range(copy) :
            balance'[k] = IF take[k] > 0 THEN Debit(k, take[k]) ELSE balance[k]
  BY <1>1
<1>3. l \notin Range(copy)
  BY <1>2 DEF Injection, Range
<1>4. take[l] \in Nat /\ balance[l]["available"] \in Int
  BY DEF TypeOK, Bucket
<1>5. Debit(l, take[l])["available"] <= balance[l]["available"]
  BY ONLY <1>4, TypeOK, DebitTakes, BucketNames DEF Debit
<1> QED
  BY <1>2, <1>3, <1>4, <1>5

LEMMA ExpiredStep ==
  ASSUME TypeOK, [Next]_vars, NEW l \in Lot, Exists(l), Expired(l)
  PROVE  balance'[l]["available"] <= balance[l]["available"]
<1>0. balance[l] \in Balance /\ balance[l]["available"] \in Int
  BY DEF TypeOK, Balance, Bucket
<1>1. CASE UNCHANGED balance
  BY <1>0, <1>1
<1>2. ASSUME NEW t \in Tenant, ExpireLots(t)
      PROVE  balance'[l]["available"] <= balance[l]["available"]
  BY <1>2, ExpiryTakes DEF ExpireLots
<1>3. ASSUME NEW r \in Reservation, NEW q \in 1..MaxHold, NEW x \in Time, Reserve(r, q, x)
      PROVE  balance'[l]["available"] <= balance[l]["available"]
  <2> DEFINE swept == AfterExpiry(TenantOf[r])
  <2>1. PICK take \in [Lot -> 0..q] :
          balance' = [k \in Lot |->
               IF take[k] > 0
               THEN Posting(swept[k], k, <<"reserve", r>>, "available", "reserved", take[k])
               ELSE swept[k]]
    BY <1>3 DEF Reserve
  <2>2. TenantOf[r] \in Tenant
    BY WalletConstants
  <2>3. swept[l] \in Balance /\ swept[l]["available"] <= balance[l]["available"]
    BY <2>2, ExpiryTakes, ExpiryBalance
  <2>4. take[l] \in Nat /\ swept[l]["available"] \in Int
    BY <2>3 DEF Balance, Bucket
  <2> HIDE DEF swept
  <2>5. Posting(swept[l], l, <<"reserve", r>>, "available", "reserved", take[l])["available"]
          <= swept[l]["available"]
    BY ONLY <2>3, <2>4, PostingTakes, BucketNames
  <2>6. Posting(swept[l], l, <<"reserve", r>>, "available", "reserved", take[l]) \in Balance
    BY ONLY <2>3, <2>4, PostingType, BucketNames
  <2>7. Posting(swept[l], l, <<"reserve", r>>, "available", "reserved", take[l])["available"] \in Int
    BY <2>6 DEF Balance, Bucket
  <2> QED
    BY <1>0, <2>1, <2>3, <2>4, <2>5, <2>7
<1>4. ASSUME NEW r \in Reservation, NEW at \in Time, Consume(r, at)
      PROVE  balance'[l]["available"] <= balance[l]["available"]
  <2>1. taken[r][l] \in Nat
    BY DEF TypeOK
  <2>2. Posting(balance[l], l, <<"consume", r>>, "reserved", "consumed", taken[r][l])["available"]
          <= balance[l]["available"]
    BY ONLY <1>0, <2>1, PostingTakes, BucketNames
  <2> QED
    BY <1>0, <1>4, <2>2 DEF Consume
<1>5. ASSUME NEW r \in Reservation, Release(r)
      PROVE  balance'[l]["available"] <= balance[l]["available"]
  <2>1. taken[r][l] \in Nat /\ ReturnsTo(l) = "expired"
    BY DEF TypeOK, ReturnsTo
  <2>2. Posting(balance[l], l, <<"release", r>>, "reserved", "expired", taken[r][l])["available"]
          <= balance[l]["available"]
    BY ONLY <1>0, <2>1, PostingTakes, BucketNames
  <2> QED
    BY <1>0, <1>5, <2>1, <2>2 DEF Release
<1>6. ASSUME NEW e \in Event, PaidEvent(e)
      PROVE  balance'[l]["available"] <= balance[l]["available"]
  BY <1>0, <1>6 DEF PaidEvent, Grant, TypeOK
<1>7. ASSUME NEW o \in Order, NEW amount \in Nat, NEW chargeback, Refund(o, amount, chargeback)
      PROVE  balance'[l]["available"] <= balance[l]["available"]
  <2>1. Move(balance[l], "available", "refunded", amount)["available"] <= balance[l]["available"]
    BY ONLY TypeOK, <1>7, DebitTakes, BucketNames
  <2>2. balance' = balance
          \/ balance' = [balance EXCEPT ![LotOf(o)] = Move(@, "available", "refunded", amount)]
    <3>1. CASE Reviewed(o, amount, chargeback)
      BY <1>7, <3>1 DEF Refund
    <3>2. CASE ~Reviewed(o, amount, chargeback)
      BY <1>7, <3>2 DEF Refund
    <3> QED
      BY <3>1, <3>2
  <2>3. balance \in [Lot -> [Bucket -> Int]]
    BY DEF TypeOK
  <2>4. balance'[l] = balance[l] \/ balance'[l] = Move(balance[l], "available", "refunded", amount)
    BY ONLY <2>2, <2>3, l \in Lot
  <2> QED
    BY <1>0, <2>1, <2>4
<1>8. \A e \in Event : e.order \in Order /\ e.amount \in Nat
  BY WalletConstants DEF EventType
<1>9. 1..MaxHold \subseteq Nat
  OBVIOUS
<1>10. Tick \/ (\E o \in Order : CreateOrder(o)) \/ (\E e \in Event : FailedEvent(e))
         \/ UNCHANGED vars => UNCHANGED balance
  BY DEF Tick, CreateOrder, FailedEvent, vars
<1> QED
  BY <1>1, <1>2, <1>3, <1>4, <1>5, <1>6, <1>7, <1>8, <1>9, <1>10, AllocateTakes
     DEF Next, RefundEvent, FinanceRefund

(* What expired stays expired and what was settled stays settled, for any  *)
(* number of lots and holds and in any order of sweeps and releases.       *)
THEOREM SettlesForGood == Spec => SettledForGood
<1>1. TypeOK /\ [Next]_vars =>
        [\A l \in Lot : Exists(l) /\ Expired(l) =>
           balance'[l]["available"] <= balance[l]["available"]]_vars
  BY ExpiredStep
<1> QED
  BY <1>1, TypeCorrect, SettlesOnce, PTL DEF Spec, ExpiredStaysExpired, SettledForGood

-----------------------------------------------------------------------------
(***************************************************************************)
(* Orders and their lots.  MoneyReconciles speaks of the lot of an order   *)
(* through a CHOOSE; the invariant below says the same lot by lot, and     *)
(* which statuses an order has before and after its payment, which is what *)
(* keeps a refund from an order that was not paid.                         *)
(***************************************************************************)
GrantsMatch ==
  /\ \A l \in Lot : Exists(l) /\ lot[l].order # None =>
       /\ Paid(lot[l].order)
       /\ balance[l]["refunded"] = order[lot[l].order].refunded
  /\ \A o \in Order : Paid(o) => \E l \in Lot : Exists(l) /\ lot[l].order = o
  /\ \A l, k \in Lot :
       Exists(l) /\ Exists(k) /\ lot[l].order = lot[k].order /\ lot[l].order # None => l = k

OrderStates ==
  \A o \in Order :
    /\ order[o].refunded <= PointsOf[o]
    /\ Paid(o) => order[o].status \in {"paid", "partially_refunded", "refunded"}
    /\ ~Paid(o) => /\ order[o].status \in {"none", "pending", "payment_failed"}
                   /\ order[o].refunded = 0
    /\ order[o].status = "refunded" <=> order[o].refunded = PointsOf[o]
    /\ order[o].status = "partially_refunded" <=> order[o].refunded \in 1..(PointsOf[o] - 1)

MoneyInv == GrantsMatch /\ OrderStates

LEMMA MoneyInvGives == TypeOK /\ MoneyInv => MoneyReconciles
<1> SUFFICES ASSUME TypeOK, MoneyInv PROVE MoneyReconciles
  OBVIOUS
<1> USE WalletConstants
<1>1. PaidOnce
  BY DEF PaidOnce, MoneyInv, GrantsMatch
<1>2. ASSUME NEW o \in Order, Paid(o) PROVE balance[LotOf(o)]["refunded"] = order[o].refunded
  <2>1. \E l \in Lot : Exists(l) /\ lot[l].order = o
    BY <1>2 DEF MoneyInv, GrantsMatch
  <2>2. LotOf(o) \in Lot /\ Exists(LotOf(o)) /\ lot[LotOf(o)].order = o
    BY <2>1 DEF LotOf
  <2> QED
    BY <2>2 DEF MoneyInv, GrantsMatch
<1> QED
  BY <1>1, <1>2 DEF MoneyReconciles, RefundsReconcile, MoneyInv, OrderStates

LEMMA InitMoney == Init => MoneyInv
<1> SUFFICES ASSUME Init PROVE MoneyInv
  OBVIOUS
<1> USE WalletConstants
<1>1. \A l \in Lot : lot[l].order = None
  BY DEF Init, NoLot
<1>2. \A o \in Order : order[o] = NoOrder
  BY DEF Init
<1>3. GrantsMatch
  BY <1>1, <1>2 DEF GrantsMatch, Paid, NoOrder
<1>4. OrderStates
  BY <1>2 DEF OrderStates, Paid, NoOrder
<1> QED
  BY <1>3, <1>4 DEF MoneyInv

LEMMA PostingKeepsRefunded ==
  ASSUME NEW b \in Balance, NEW l, NEW key, NEW from \in Bucket, NEW to \in Bucket, NEW q \in Int,
         from # "refunded", to # "refunded"
  PROVE  Posting(b, l, key, from, to, q)["refunded"] = b["refunded"]
BY DEF Balance, Bucket, Posting, Move

\* What every step that pays and refunds nothing does to the lots.
LotsKeep ==
  \A l \in Lot :
    \/ lot'[l] = lot[l] /\ balance'[l]["refunded"] = balance[l]["refunded"]
    \/ ~Exists(l) /\ lot'[l].order = None

LEMMA LotsKeepMoney ==
  ASSUME TypeOK, MoneyInv, LotsKeep, order' = order
  PROVE  MoneyInv'
<1> USE WalletConstants
<1>1. \A l \in Lot : Exists(l)' /\ lot'[l].order # None =>
        lot'[l] = lot[l] /\ Exists(l) /\ balance'[l]["refunded"] = balance[l]["refunded"]
  BY DEF LotsKeep, Exists
<1>2. \A l \in Lot : Exists(l) => Exists(l)' /\ lot'[l] = lot[l]
  BY DEF LotsKeep, Exists
<1>3. \A o \in Order : (Paid(o))' <=> Paid(o)
  BY DEF Paid
<1>4. GrantsMatch'
  <2>1. ASSUME NEW l \in Lot, Exists(l)', lot'[l].order # None
        PROVE  /\ Paid(lot[l].order)'
               /\ lot'[l].order = lot[l].order
               /\ balance'[l]["refunded"] = order'[lot[l].order].refunded
    BY <1>1, <2>1 DEF MoneyInv, GrantsMatch, Paid
  <2>2. ASSUME NEW o \in Order, Paid(o)' PROVE \E l \in Lot : Exists(l)' /\ lot'[l].order = o
    BY <1>2, <1>3, <2>2 DEF MoneyInv, GrantsMatch
  <2>3. ASSUME NEW l \in Lot, NEW k \in Lot, Exists(l)', Exists(k)', lot'[l].order = lot'[k].order,
               lot'[l].order # None
        PROVE  l = k
    BY <1>1, <2>3 DEF MoneyInv, GrantsMatch
  <2> QED
    BY <2>1, <2>2, <2>3 DEF GrantsMatch, Exists, Paid
<1>5. OrderStates'
  BY DEF MoneyInv, OrderStates, Paid
<1> QED
  BY <1>4, <1>5 DEF MoneyInv

LEMMA AllocateKeeps ==
  ASSUME TypeOK, NEW p \in Tenant, NEW c \in Tenant, NEW q \in 1..MaxHold, Allocate(p, c, q)
  PROVE  LotsKeep
<1> SUFFICES ASSUME NEW l \in Lot
             PROVE  \/ lot'[l] = lot[l] /\ balance'[l]["refunded"] = balance[l]["refunded"]
                    \/ ~Exists(l) /\ lot'[l].order = None
  BY DEF LotsKeep
<1>1. PICK take \in [Lot -> 0..q] :
       LET sources == {k \in Lot : take[k] > 0} IN
       \E copy \in Injection(sources, {k \in Lot : ~Exists(k)}) :
            LET source(k) == CHOOSE s \in sources : copy[s] = k IN
            /\ lot' = [k \in Lot |->
                 IF k \in Range(copy)
                 THEN [tenant |-> c, purpose |-> lot[source(k)].purpose, order |-> None,
                       quantity |-> take[source(k)], expires |-> lot[source(k)].expires]
                 ELSE lot[k]]
            /\ balance' = [k \in Lot |->
                 IF k \in Range(copy)
                 THEN [Empty EXCEPT !["available"] = take[source(k)]]
                 ELSE IF k \in sources
                      THEN Debit(k, take[k])
                      ELSE balance[k]]
  BY DEF Allocate
<1> DEFINE sources == {k \in Lot : take[k] > 0}
<1>2. PICK copy \in Injection(sources, {k \in Lot : ~Exists(k)}) :
            LET source(k) == CHOOSE s \in sources : copy[s] = k IN
            /\ lot' = [k \in Lot |->
                 IF k \in Range(copy)
                 THEN [tenant |-> c, purpose |-> lot[source(k)].purpose, order |-> None,
                       quantity |-> take[source(k)], expires |-> lot[source(k)].expires]
                 ELSE lot[k]]
            /\ balance' = [k \in Lot |->
                 IF k \in Range(copy)
                 THEN [Empty EXCEPT !["available"] = take[source(k)]]
                 ELSE IF k \in sources
                      THEN Debit(k, take[k])
                      ELSE balance[k]]
  BY <1>1
<1> DEFINE source(k) == CHOOSE s \in sources : copy[s] = k
<1>3. CASE l \in Range(copy)
  <2>1. ~Exists(l)
    BY <1>2, <1>3 DEF Injection, Range
  <2>2. lot'[l] = [tenant |-> c, purpose |-> lot[source(l)].purpose, order |-> None,
                   quantity |-> take[source(l)], expires |-> lot[source(l)].expires]
    BY <1>2, <1>3
  <2> HIDE DEF source
  <2> QED
    BY <2>1, <2>2
<1>4. CASE l \notin Range(copy)
  <2>1. Debit(l, take[l])["refunded"] = balance[l]["refunded"]
    BY DEF Debit, Move, TypeOK, Bucket
  <2>2. lot'[l] = lot[l] /\ (balance'[l] = balance[l] \/ balance'[l] = Debit(l, take[l]))
    BY <1>2, <1>4
  <2> QED
    BY <2>1, <2>2
<1> QED
  BY <1>3, <1>4

LEMMA PointsKeepMoney ==
  ASSUME TypeOK, [Next]_vars, UNCHANGED order,
         ~\E e \in Event : PaidEvent(e) \/ FailedEvent(e) \/ RefundEvent(e),
         ~\E o \in Order : CreateOrder(o) \/ \E q \in 1..MaxHold : FinanceRefund(o, q)
  PROVE  LotsKeep
<1> USE WalletConstants
<1>0. \A l \in Lot : balance[l] \in Balance /\ balance[l]["available"] \in Int
  BY DEF TypeOK, Balance, Bucket
<1>1. CASE UNCHANGED <<lot, balance>>
  BY <1>1 DEF LotsKeep
<1>2. ASSUME NEW t \in Tenant, NEW l \in Lot
      PROVE  AfterExpiry(t)[l]["refunded"] = balance[l]["refunded"]
  BY <1>0, PostingKeepsRefunded, BucketNames DEF AfterExpiry
<1>3. ASSUME NEW t \in Tenant, ExpireLots(t) PROVE LotsKeep
  BY <1>2, <1>3 DEF ExpireLots, LotsKeep
<1>4. ASSUME NEW r \in Reservation, NEW q \in 1..MaxHold, NEW x \in Time, Reserve(r, q, x)
      PROVE  LotsKeep
  <2> DEFINE swept == AfterExpiry(TenantOf[r])
  <2>1. PICK take \in [Lot -> 0..q] :
          balance' = [k \in Lot |->
               IF take[k] > 0
               THEN Posting(swept[k], k, <<"reserve", r>>, "available", "reserved", take[k])
               ELSE swept[k]]
    BY <1>4 DEF Reserve
  <2>2. ASSUME NEW l \in Lot PROVE balance'[l]["refunded"] = balance[l]["refunded"]
    <3>1. swept[l] \in Balance /\ take[l] \in Int /\ swept[l]["refunded"] = balance[l]["refunded"]
      BY <1>2, ExpiryBalance
    <3> HIDE DEF swept
    <3>2. Posting(swept[l], l, <<"reserve", r>>, "available", "reserved", take[l])["refunded"]
            = swept[l]["refunded"]
      BY ONLY <3>1, PostingKeepsRefunded, BucketNames
    <3> QED
      BY <2>1, <3>1, <3>2
  <2> QED
    BY <1>4, <2>2 DEF Reserve, LotsKeep
<1>5. ASSUME NEW r \in Reservation, NEW at \in Time, Consume(r, at) PROVE LotsKeep
  <2>1. ASSUME NEW l \in Lot PROVE balance'[l]["refunded"] = balance[l]["refunded"]
    <3>1. balance[l] \in Balance /\ taken[r][l] \in Int
      BY <1>0 DEF TypeOK
    <3>2. Posting(balance[l], l, <<"consume", r>>, "reserved", "consumed", taken[r][l])["refunded"]
            = balance[l]["refunded"]
      BY ONLY <3>1, PostingKeepsRefunded, BucketNames
    <3> QED
      BY <1>5, <3>2 DEF Consume
  <2> QED
    BY <1>5, <2>1 DEF Consume, LotsKeep
<1>6. ASSUME NEW r \in Reservation, Release(r) PROVE LotsKeep
  <2>1. ASSUME NEW l \in Lot PROVE balance'[l]["refunded"] = balance[l]["refunded"]
    <3>1. balance[l] \in Balance /\ taken[r][l] \in Int
      BY <1>0 DEF TypeOK
    <3>2. ReturnsTo(l) \in Bucket /\ ReturnsTo(l) # "refunded"
      BY BucketNames DEF ReturnsTo
    <3>3. Posting(balance[l], l, <<"release", r>>, "reserved", ReturnsTo(l), taken[r][l])["refunded"]
            = balance[l]["refunded"]
      BY ONLY <3>1, <3>2, PostingKeepsRefunded, BucketNames
    <3> QED
      BY <1>6, <3>3 DEF Release
  <2> QED
    BY <1>6, <2>1 DEF Release, LotsKeep
<1>7. Tick \/ UNCHANGED vars => UNCHANGED <<lot, balance>>
  BY DEF Tick, vars
<1> QED
  BY <1>1, <1>3, <1>4, <1>5, <1>6, <1>7, AllocateKeeps DEF Next

\* A step that only names another status, or the review, of an order.
LEMMA OrderKeepsMoney ==
  ASSUME TypeOK, MoneyInv, UNCHANGED <<lot, balance>>, TypeOK',
         \A o \in Order :
           /\ order'[o].payment = order[o].payment /\ order'[o].refunded = order[o].refunded
           /\ \/ order'[o].status = order[o].status
              \/ ~Paid(o) /\ order'[o].status \in {"pending", "payment_failed"}
  PROVE  MoneyInv'
<1> USE WalletConstants
<1>1. GrantsMatch'
  <2>1. ASSUME NEW o \in Order PROVE Paid(o)' <=> Paid(o)
    BY DEF Paid
  <2>2. \A l \in Lot : lot[l].order # None => lot[l].order \in Order
    BY DEF TypeOK
  <2> QED
    BY <2>1, <2>2 DEF MoneyInv, GrantsMatch, Exists
<1>2. OrderStates'
  BY DEF MoneyInv, OrderStates, Paid
<1> QED
  BY <1>1, <1>2 DEF MoneyInv

LEMMA GrantMoney ==
  ASSUME TypeOK, MoneyInv, NEW e \in Event, PaidEvent(e), ~Paid(e.order)
  PROVE  MoneyInv'
<1> USE WalletConstants
<1> DEFINE o == e.order
<1>1. o \in Order /\ e.ref \in Ref /\ e.ref # None
  BY DEF EventType
<1>2. PICK n \in Lot : Grant(n, o)
  BY DEF PaidEvent
<1>3. order' = [order EXCEPT ![o].status = "paid", ![o].payment = e.ref]
  BY DEF PaidEvent
<1> HIDE DEF o
<1>4. /\ order'[o].payment = e.ref /\ order'[o].status = "paid" /\ order'[o].refunded = 0
      /\ \A x \in Order \ {o} : order'[x] = order[x]
  BY <1>1, <1>3 DEF TypeOK, MoneyInv, OrderStates, o
<1>5. /\ lot'[n].order = o /\ lot'[n].quantity = PointsOf[o] /\ ~Exists(n)
      /\ \A l \in Lot \ {n} : lot'[l] = lot[l] /\ balance'[l] = balance[l]
  BY <1>1, <1>2 DEF Grant, TypeOK
<1>6. balance'[n]["refunded"] = 0
  BY <1>2, BucketNames DEF Grant, TypeOK, Empty
<1>7. \A l \in Lot : Exists(l) /\ lot[l].order # None => lot[l].order \in Order \ {o}
  BY DEF MoneyInv, GrantsMatch, TypeOK, o
<1>8. Exists(n)' /\ \A l \in Lot \ {n} : Exists(l)' <=> Exists(l)
  BY <1>1, <1>5 DEF Exists
<1>9. Paid(o)' /\ \A x \in Order \ {o} : Paid(x)' <=> Paid(x)
  BY <1>1, <1>4 DEF Paid
<1>10. GrantsMatch'
  <2>1. ASSUME NEW l \in Lot, Exists(l)', lot'[l].order # None
        PROVE  /\ order'[lot'[l].order].payment # None
               /\ balance'[l]["refunded"] = order'[lot'[l].order].refunded
    <3>1. CASE l = n
      BY <1>1, <1>4, <1>5, <1>6, <3>1
    <3>2. CASE l # n
      BY <1>4, <1>5, <1>7, <1>8, <2>1, <3>2 DEF MoneyInv, GrantsMatch, Paid
    <3> QED
      BY <3>1, <3>2
  <2>2. ASSUME NEW x \in Order, Paid(x)' PROVE \E l \in Lot : Exists(l)' /\ lot'[l].order = x
    BY <1>5, <1>8, <1>9, <2>2 DEF MoneyInv, GrantsMatch
  <2>3. ASSUME NEW l \in Lot, NEW k \in Lot, Exists(l)', Exists(k)', lot'[l].order = lot'[k].order,
               lot'[l].order # None
        PROVE  l = k
    BY <1>5, <1>7, <1>8, <2>3 DEF MoneyInv, GrantsMatch
  <2> QED
    BY <2>1, <2>2, <2>3 DEF GrantsMatch, Exists, Paid
<1>11. OrderStates'
  <2>1. ASSUME NEW x \in Order \ {o}
        PROVE  Paid(x)' <=> Paid(x)
    BY <1>9, <2>1
  <2> QED
    BY <1>1, <1>4, <1>9, <2>1 DEF MoneyInv, OrderStates, Paid
<1> QED
  BY <1>10, <1>11 DEF MoneyInv

LEMMA RefundMoney ==
  ASSUME TypeOK, TypeOK', MoneyInv, NEW o \in Order, NEW amount \in Nat, NEW chargeback,
         Refund(o, amount, chargeback)
  PROVE  MoneyInv'
<1> USE WalletConstants
<1>1. CASE Reviewed(o, amount, chargeback)
  <2>1. order' = [order EXCEPT ![o].review = TRUE] /\ UNCHANGED <<lot, balance>>
    BY <1>1 DEF Refund
  <2> QED
    BY <2>1, OrderKeepsMoney DEF TypeOK
<1>2. CASE ~Reviewed(o, amount, chargeback)
  <2> DEFINE n == LotOf(o)
  <2>1. /\ balance' = [balance EXCEPT ![n] = Move(@, "available", "refunded", amount)]
        /\ order' = [order EXCEPT ![o].status = StatusAfterRefund(o, amount),
                                  ![o].refunded = @ + amount]
        /\ lot' = lot
    BY <1>2 DEF Refund
  <2>2. Paid(o)
    BY DEF Refund, Refundable, MoneyInv, OrderStates
  <2>3. n \in Lot /\ Exists(n) /\ lot[n].order = o
    <3>1. \E l \in Lot : Exists(l) /\ lot[l].order = o
      BY <2>2 DEF MoneyInv, GrantsMatch
    <3> QED
      BY <3>1 DEF LotOf
  <2> HIDE DEF n
  <2>4. /\ order'[o].payment = order[o].payment
        /\ order'[o].refunded = order[o].refunded + amount
        /\ order'[o].status = StatusAfterRefund(o, amount)
        /\ \A x \in Order \ {o} : order'[x] = order[x]
    BY <2>1 DEF TypeOK
  <2>5. /\ balance'[n]["refunded"] = balance[n]["refunded"] + amount
        /\ \A l \in Lot \ {n} : balance'[l] = balance[l]
    BY <2>1, <2>3 DEF TypeOK, Move, Bucket
  <2>6. \A x \in Order : Paid(x)' <=> Paid(x)
    BY <2>4 DEF Paid
  <2>7. \A l \in Lot : Exists(l)' <=> Exists(l)
    BY <2>1 DEF Exists
  <2>8. GrantsMatch'
    <3>1. ASSUME NEW l \in Lot, Exists(l), lot[l].order # None
          PROVE  /\ order'[lot[l].order].payment # None
                 /\ balance'[l]["refunded"] = order'[lot[l].order].refunded
      <4>1. lot[l].order \in Order
        BY <3>1 DEF TypeOK
      <4>2. CASE l = n
        BY <2>1, <2>2, <2>3, <2>4, <2>5, <2>6, <3>1, <4>2 DEF MoneyInv, GrantsMatch, Paid
      <4>3. CASE l # n
        <5>1. lot[l].order # o
          BY <2>3, <3>1, <4>3 DEF MoneyInv, GrantsMatch
        <5> QED
          BY <2>1, <2>4, <2>5, <3>1, <4>1, <4>3, <5>1 DEF MoneyInv, GrantsMatch, Paid
      <4> QED
        BY <4>2, <4>3
    <3> QED
      BY <2>1, <2>6, <2>7, <3>1 DEF MoneyInv, GrantsMatch, Exists, Paid
  <2>9. OrderStates'
    <3>1. /\ order[o].refunded \in Nat /\ PointsOf[o] \in Nat /\ amount > 0
          /\ order[o].refunded + amount <= PointsOf[o]
      BY DEF Refund, TypeOK
    <3>2. /\ order'[o].refunded <= PointsOf[o]
          /\ order'[o].status \in {"partially_refunded", "refunded"}
          /\ order'[o].status = "refunded" <=> order'[o].refunded = PointsOf[o]
          /\ order'[o].status = "partially_refunded" <=> order'[o].refunded \in 1..(PointsOf[o] - 1)
      BY <2>4, <3>1 DEF StatusAfterRefund
    <3> QED
      BY <2>2, <2>4, <2>6, <3>2 DEF MoneyInv, OrderStates
  <2> QED
    BY <2>8, <2>9 DEF MoneyInv
<1> QED
  BY <1>1, <1>2

LEMMA MoneyStep == TypeOK /\ TypeOK' /\ MoneyInv /\ [Next]_vars => MoneyInv'
<1> SUFFICES ASSUME TypeOK, TypeOK', MoneyInv, [Next]_vars PROVE MoneyInv'
  OBVIOUS
<1> USE WalletConstants
<1>0. \A e \in Event : e.order \in Order /\ e.amount \in Nat
  BY DEF EventType
<1>1. ASSUME NEW o \in Order, CreateOrder(o) PROVE MoneyInv'
  <2>1. ~Paid(o) /\ order' = [order EXCEPT ![o].status = "pending"] /\ UNCHANGED <<lot, balance>>
    BY <1>1 DEF CreateOrder, MoneyInv, OrderStates
  <2> QED
    BY <2>1, OrderKeepsMoney DEF TypeOK
<1>2. ASSUME NEW e \in Event, FailedEvent(e) PROVE MoneyInv'
  <2>1. order' = Failed(e.order) /\ UNCHANGED <<lot, balance>>
    BY <1>2 DEF FailedEvent
  <2>2. order[e.order].status = "pending" => ~Paid(e.order)
    BY <1>0 DEF MoneyInv, OrderStates
  <2> QED
    BY <1>0, <2>1, <2>2, OrderKeepsMoney DEF TypeOK, Failed
<1>3. ASSUME NEW e \in Event, PaidEvent(e) PROVE MoneyInv'
  <2>1. CASE Paid(e.order)
    <3>1. UNCHANGED <<lot, balance, order>>
      BY <1>3, <2>1 DEF PaidEvent
    <3> QED
      BY <3>1, LotsKeepMoney DEF LotsKeep
  <2>2. CASE ~Paid(e.order)
    BY <1>3, <2>2, GrantMoney
  <2> QED
    BY <2>1, <2>2
<1>4. ASSUME NEW e \in Event, RefundEvent(e) PROVE MoneyInv'
  BY <1>0, <1>4, RefundMoney DEF RefundEvent
<1>5. ASSUME NEW o \in Order, NEW q \in 1..MaxHold, FinanceRefund(o, q) PROVE MoneyInv'
  <2>1. q \in Nat
    OBVIOUS
  <2> QED
    BY <1>5, <2>1, RefundMoney DEF FinanceRefund
<1>6. CASE /\ ~\E e \in Event : PaidEvent(e) \/ FailedEvent(e) \/ RefundEvent(e)
           /\ ~\E o \in Order : CreateOrder(o) \/ \E q \in 1..MaxHold : FinanceRefund(o, q)
  <2>1. UNCHANGED order
    BY <1>6 DEF Next, vars, Tick, ExpireLots, Reserve, Consume, Release, Allocate
  <2> QED
    BY <1>6, <2>1, PointsKeepMoney, LotsKeepMoney
<1> QED
  BY <1>1, <1>2, <1>3, <1>4, <1>5, <1>6

(* Orders, payments, refunds and lots agree, for any number of orders and  *)
(* whatever events the provider sends, in whatever order and how often.    *)
THEOREM MoneyAlwaysReconciles == Spec => []MoneyReconciles
<1>1. Init => MoneyInv
  BY InitMoney
<1>2. TypeOK /\ TypeOK' /\ MoneyInv /\ [Next]_vars => MoneyInv'
  BY MoneyStep
<1>3. TypeOK /\ MoneyInv => MoneyReconciles
  BY MoneyInvGives
<1> QED
  BY <1>1, <1>2, <1>3, TypeCorrect, PTL DEF Spec

-----------------------------------------------------------------------------
(***************************************************************************)
(* Holds and the buckets.  HoldsCovered is not inductive: that a row of    *)
(* the ledger is not ignored as a repetition rests on which keys have been *)
(* posted, and that a bucket is not overdrawn on the lots a hold took from *)
(* being those it may use.                                                 *)
(***************************************************************************)
Backed ==
  \A l \in Lot : /\ balance[l]["reserved"] = HeldBy("reserved", l)
                 /\ balance[l]["consumed"] = HeldBy("consumed", l)

Took ==
  \A r \in Reservation :
    IF hold[r].status = "none" THEN \A l \in Lot : taken[r][l] = 0
                               ELSE SumFunction(taken[r]) = hold[r].quantity

Keyed ==
  \A r \in Reservation, l \in Lot :
    /\ <<l, <<"reserve", r>>>> \in posted => hold[r].status # "none"
    /\ <<l, <<"consume", r>>>> \in posted \/ <<l, <<"release", r>>>> \in posted
         => hold[r].status \in {"consumed", "released"}

Solvent ==
  \A l \in Lot, b \in {"available", "expired", "refunded", "allocated"} : balance[l][b] >= 0

HoldsFit ==
  \A r \in Reservation, l \in Lot :
    taken[r][l] > 0 =>
      /\ Exists(l)
      /\ lot[l].tenant = TenantOf[r]
      /\ lot[l].purpose \in {"all", PurposeOf[r]}
      /\ hold[r].expires <= lot[l].expires

HoldInv == Backed /\ Took /\ Keyed /\ Solvent /\ HoldsFit

Held(status, l) == [r \in Reservation |-> IF hold[r].status = status THEN taken[r][l] ELSE 0]

LEMMA HeldType ==
  ASSUME TypeOK, NEW status, NEW l \in Lot
  PROVE  /\ Held(status, l) \in [Reservation -> Nat] /\ Held(status, l) \in [Reservation -> Int]
         /\ HeldBy(status, l) = SumFunction(Held(status, l))
BY DEF TypeOK, Held, HeldBy

LEMMA HeldIsCovered ==
  ASSUME TypeOK, NEW status, NEW l \in Lot
  PROVE  /\ HeldBy(status, l) \in Nat
         /\ \A r \in Reservation : hold[r].status = status => taken[r][l] <= HeldBy(status, l)
<1> DEFINE f == Held(status, l)
<1>1. f \in [Reservation -> Nat] /\ HeldBy(status, l) = SumFunction(f)
  BY HeldType
<1>2. \A r \in Reservation : hold[r].status = status => f[r] = taken[r][l]
  BY DEF Held
<1> HIDE DEF f
<1>3. SumFunction(f) \in Nat /\ \A r \in Reservation : f[r] <= SumFunction(f)
  BY <1>1, SumCovers, RowsAreFinite
<1> QED
  BY <1>1, <1>2, <1>3

LEMMA HoldInvGives == TypeOK /\ HoldInv => HoldsCovered
<1> SUFFICES ASSUME TypeOK, HoldInv PROVE HoldsCovered
  OBVIOUS
<1>1. ASSUME NEW l \in Lot, NEW b \in Bucket PROVE balance[l][b] >= 0
  <2>1. HeldBy("reserved", l) \in Nat /\ HeldBy("consumed", l) \in Nat
    BY HeldIsCovered
  <2> QED
    BY <2>1 DEF HoldInv, Backed, Solvent, Bucket
<1>2. HoldsBacked
  BY DEF HoldsBacked, HoldInv, Backed, Took
<1>3. HoldsFitTheirLots
  BY DEF HoldsFitTheirLots, HoldInv, HoldsFit
<1> QED
  BY <1>1, <1>2, <1>3 DEF HoldsCovered, NeverOverdrawn

LEMMA InitHolds == Init => HoldInv
<1> SUFFICES ASSUME Init PROVE HoldInv
  OBVIOUS
<1> USE WalletConstants
<1>0. TypeOK
  BY InitType
<1>1. \A r \in Reservation : hold[r].status = "none" /\ \A l \in Lot : taken[r][l] = 0
  BY DEF Init, NoHold
<1>2. ASSUME NEW l \in Lot
      PROVE  balance[l] = Empty \/ \E q \in Nat : balance[l] = [Empty EXCEPT !["available"] = q]
  <2>1. PICK row \in Injection(DOMAIN Seeded, Lot) :
          LET seed(k) == CHOOSE s \in DOMAIN Seeded : row[s] = k IN
          balance = [k \in Lot |->
                       IF k \in Range(row)
                       THEN [Empty EXCEPT !["available"] = Seeded[seed(k)].quantity]
                       ELSE Empty]
    BY DEF Init
  <2> DEFINE seed == CHOOSE s \in DOMAIN Seeded : row[s] = l
  <2>2. CASE l \in Range(row)
    <3>1. row \in [DOMAIN Seeded -> Lot]
      BY <2>1 DEF Injection
    <3>2. seed \in DOMAIN Seeded
      BY <2>2, <3>1 DEF Range
    <3>3. Seeded[seed].quantity \in Nat
      BY <3>2 DEF SeedType
    <3>4. balance[l] = [Empty EXCEPT !["available"] = Seeded[seed].quantity]
      BY <2>1, <2>2
    <3> HIDE DEF seed
    <3> QED
      BY <3>3, <3>4
  <2>3. CASE l \notin Range(row)
    BY <2>1, <2>3
  <2> QED
    BY <2>2, <2>3
<1>3. \A l \in Lot : balance[l]["reserved"] = 0 /\ balance[l]["consumed"] = 0
  BY <1>2, ZenonT(40) DEF Empty, Bucket
<1>4. ASSUME NEW l \in Lot, NEW status PROVE status \in {"reserved", "consumed"} => HeldBy(status, l) = 0
  <2> SUFFICES ASSUME status \in {"reserved", "consumed"} PROVE HeldBy(status, l) = 0
    OBVIOUS
  <2> DEFINE f == Held(status, l)
  <2>1. f \in [Reservation -> Int] /\ HeldBy(status, l) = SumFunction(f)
    BY <1>0, HeldType
  <2>2. \A r \in Reservation : f[r] = 0
    BY <1>1 DEF Held
  <2> HIDE DEF f
  <2> QED
    BY <2>1, <2>2, SumOfZeros, RowsAreFinite
<1>5. Backed
  BY <1>3, <1>4 DEF Backed
<1>6. Solvent
  <2> SUFFICES ASSUME NEW l \in Lot, NEW b \in Bucket PROVE balance[l][b] >= 0
    BY BucketNames DEF Solvent
  <2>1. CASE balance[l] = Empty
    BY <2>1 DEF Empty
  <2>2. ASSUME NEW q \in Nat, balance[l] = [Empty EXCEPT !["available"] = q]
        PROVE  balance[l][b] >= 0
    BY <2>2 DEF Empty
  <2> QED
    BY <1>2, <2>1, <2>2
<1>7. Keyed
  BY DEF Init, Keyed
<1> QED
  BY <1>1, <1>5, <1>6, <1>7 DEF HoldInv, Took, HoldsFit

\* One hold changes: so do the sums of the statuses it had and has.
LEMMA HeldByChanges ==
  ASSUME TypeOK, TypeOK', NEW r \in Reservation, NEW l \in Lot, NEW status,
         \A s \in Reservation \ {r} : hold'[s] = hold[s] /\ taken'[s] = taken[s]
  PROVE  HeldBy(status, l)' = HeldBy(status, l)
           - (IF hold[r].status = status THEN taken[r][l] ELSE 0)
           + (IF hold'[r].status = status THEN taken'[r][l] ELSE 0)
<1> DEFINE f == Held(status, l)
<1> DEFINE g == [s \in Reservation |-> IF hold'[s].status = status THEN taken'[s][l] ELSE 0]
<1>1. f \in [Reservation -> Int] /\ g \in [Reservation -> Int]
  BY DEF TypeOK, Held
<1>2. \A s \in Reservation \ {r} : f[s] = g[s]
  BY DEF Held
<1>3. HeldBy(status, l) = SumFunction(f) /\ HeldBy(status, l)' = SumFunction(g)
  BY DEF HeldBy, Held
<1>4. /\ f[r] = IF hold[r].status = status THEN taken[r][l] ELSE 0
      /\ g[r] = IF hold'[r].status = status THEN taken'[r][l] ELSE 0
  BY DEF Held
<1> HIDE DEF f, g
<1>5. SumFunction(g) = SumFunction(f) - f[r] + g[r]
  BY <1>1, <1>2, SumChanges, RowsAreFinite
<1> QED
  BY <1>3, <1>4, <1>5

LEMMA MoveBuckets ==
  ASSUME NEW b \in Balance, NEW from \in Bucket, NEW to \in Bucket, NEW q \in Int, from # to
  PROVE  /\ Move(b, from, to, q)[from] = b[from] - q
         /\ Move(b, from, to, q)[to] = b[to] + q
         /\ \A x \in Bucket \ {from, to} : Move(b, from, to, q)[x] = b[x]
BY DEF Balance, Move

LEMMA ExpiryBuckets ==
  ASSUME TypeOK, NEW t \in Tenant, NEW l \in Lot
  PROVE  /\ \A x \in Bucket \ {"available", "expired"} : AfterExpiry(t)[l][x] = balance[l][x]
         /\ AfterExpiry(t)[l]["available"] + AfterExpiry(t)[l]["expired"]
              = balance[l]["available"] + balance[l]["expired"]
         /\ AfterExpiry(t)[l]["available"] <= balance[l]["available"]
         /\ balance[l]["available"] >= 0 => AfterExpiry(t)[l]["available"] >= 0
<1>1. /\ balance[l] \in Balance /\ balance[l]["available"] \in Int /\ balance[l]["expired"] \in Int
      /\ \A x \in Bucket : balance[l][x] \in Int
  BY BucketNames DEF TypeOK, Balance
<1> DEFINE q == balance[l]["available"]
<1> DEFINE m == Move(balance[l], "available", "expired", q)
<1>2. /\ m["available"] = q - q /\ m["expired"] = balance[l]["expired"] + q
      /\ \A x \in Bucket \ {"available", "expired"} : m[x] = balance[l][x]
  <2>1. q \in Int /\ balance[l] \in Balance
    BY <1>1
  <2> HIDE DEF q
  <2>2. /\ m["available"] = balance[l]["available"] - q /\ m["expired"] = balance[l]["expired"] + q
        /\ \A x \in Bucket \ {"available", "expired"} : m[x] = balance[l][x]
    BY ONLY <2>1, MoveBuckets, BucketNames
  <2> QED
    BY <2>2 DEF q
<1>3. AfterExpiry(t)[l] = balance[l] \/ (AfterExpiry(t)[l] = m /\ q > 0)
  BY DEF AfterExpiry, Posting, Expiring
<1> HIDE DEF m
<1> QED
  BY <1>1, <1>2, <1>3

\* What the steps that touch no hold do.
HoldsKept ==
  /\ hold' = hold /\ taken' = taken
  /\ \A x \in posted' \ posted : x[2] \in {<<"grant">>, <<"expire">>}
  /\ \A l \in Lot : \A b \in {"reserved", "consumed"} :
       balance'[l][b] = balance[l][b] \/ (~Exists(l) /\ balance'[l][b] = 0)
  /\ \A l \in Lot : Exists(l) => lot'[l] = lot[l]

LEMMA KeptHolds ==
  ASSUME TypeOK, HoldInv, HoldsKept, Solvent'
  PROVE  HoldInv'
<1>1. \A status : \A l \in Lot : HeldBy(status, l)' = HeldBy(status, l)
  BY DEF HoldsKept, HeldBy
<1>2. ASSUME NEW l \in Lot, ~Exists(l) PROVE balance[l]["reserved"] = 0 /\ balance[l]["consumed"] = 0
  <2>1. \A r \in Reservation : taken[r][l] = 0
    BY <1>2 DEF HoldInv, HoldsFit, TypeOK
  <2>2. ASSUME NEW status PROVE HeldBy(status, l) = 0
    <3> DEFINE f == Held(status, l)
    <3>1. f \in [Reservation -> Int] /\ HeldBy(status, l) = SumFunction(f)
      BY HeldType
    <3>2. \A r \in Reservation : f[r] = 0
      BY <2>1 DEF Held
    <3> HIDE DEF f
    <3> QED
      BY <3>1, <3>2, SumOfZeros, RowsAreFinite
  <2> QED
    BY <2>2 DEF HoldInv, Backed
<1>3. Backed'
  <2> SUFFICES ASSUME NEW l \in Lot
               PROVE  /\ balance'[l]["reserved"] = HeldBy("reserved", l)'
                      /\ balance'[l]["consumed"] = HeldBy("consumed", l)'
    BY DEF Backed
  <2>1. balance'[l]["reserved"] = balance[l]["reserved"] /\ balance'[l]["consumed"] = balance[l]["consumed"]
    BY <1>2 DEF HoldsKept
  <2> QED
    BY <1>1, <2>1 DEF HoldInv, Backed
<1>4. Took'
  BY DEF HoldInv, Took, HoldsKept
<1>5. Keyed'
  <2>1. \A r \in Reservation, l \in Lot, k \in {"reserve", "consume", "release"} :
          <<l, <<k, r>>>> \in posted' => <<l, <<k, r>>>> \in posted
    BY DEF HoldsKept
  <2> QED
    BY <2>1 DEF HoldInv, Keyed, HoldsKept
<1>6. HoldsFit'
  BY DEF HoldInv, HoldsFit, HoldsKept, Exists
<1> QED
  BY <1>3, <1>4, <1>5, <1>6 DEF HoldInv

-----------------------------------------------------------------------------
\* What each operation does to the buckets of a lot.

\* Posting a row whose key is new moves the points.
LEMMA NewPosting ==
  ASSUME NEW b \in Balance, NEW l, NEW key, NEW from \in Bucket, NEW to \in Bucket, NEW q \in Int,
         from # to, <<l, key>> \notin posted
  PROVE  /\ Posting(b, l, key, from, to, q)[from] = b[from] - q
         /\ Posting(b, l, key, from, to, q)[to] = b[to] + q
         /\ \A x \in Bucket \ {from, to} : Posting(b, l, key, from, to, q)[x] = b[x]
<1>1. Posting(b, l, key, from, to, q) = Move(b, from, to, q)
  BY DEF Posting
<1> QED
  BY <1>1, MoveBuckets

LEMMA ReserveBuckets ==
  ASSUME TypeOK, HoldInv, NEW r \in Reservation, NEW q \in 1..MaxHold, NEW x \in Time,
         Reserve(r, q, x), NEW l \in Lot
  PROVE  /\ taken'[r][l] \in Nat
         /\ balance'[l]["available"] = AfterExpiry(TenantOf[r])[l]["available"] - taken'[r][l]
         /\ balance'[l]["reserved"] = balance[l]["reserved"] + taken'[r][l]
         /\ balance'[l]["expired"] = AfterExpiry(TenantOf[r])[l]["expired"]
         /\ \A b \in {"consumed", "refunded", "allocated"} : balance'[l][b] = balance[l][b]
         /\ taken'[r][l] <= AfterExpiry(TenantOf[r])[l]["available"] \/ taken'[r][l] = 0
         /\ taken'[r][l] > 0 => l \in Usable(r, x)
<1> DEFINE swept == AfterExpiry(TenantOf[r])
<1>1. PICK take \in [Lot -> 0..q] :
         /\ FirstExpiringFirst(take, Usable(r, x), Expires, Available(swept), q)
         /\ balance' = [k \in Lot |->
              IF take[k] > 0
              THEN Posting(swept[k], k, <<"reserve", r>>, "available", "reserved", take[k])
              ELSE swept[k]]
         /\ taken' = [taken EXCEPT ![r] = take]
  BY DEF Reserve
<1>2. taken'[r] = take /\ take[l] \in Nat /\ take[l] \in Int
  BY <1>1 DEF TypeOK
<1>3. TenantOf[r] \in Tenant
  BY WalletConstants
<1>4. /\ swept[l] \in Balance
      /\ \A b \in Bucket \ {"available", "expired"} : swept[l][b] = balance[l][b]
      /\ \A b \in Bucket : swept[l][b] \in Int
  BY <1>3, ExpiryBuckets, ExpiryBalance DEF Balance
<1>5. <<l, <<"reserve", r>>>> \notin posted
  BY DEF HoldInv, Keyed, Reserve
<1>6. take[l] <= IF l \in Usable(r, x) THEN swept[l]["available"] ELSE 0
  BY <1>1 DEF FirstExpiringFirst, Available
<1> HIDE DEF swept
<1>7. CASE take[l] = 0
  <2>1. balance'[l] = swept[l]
    BY <1>1, <1>7
  <2> QED
    BY <1>2, <1>4, <1>7, <2>1, BucketNames DEF swept
<1>8. CASE take[l] > 0
  <2> DEFINE b == Posting(swept[l], l, <<"reserve", r>>, "available", "reserved", take[l])
  <2>1. balance'[l] = b
    BY <1>1, <1>8
  <2>2. /\ b["available"] = swept[l]["available"] - take[l]
        /\ b["reserved"] = swept[l]["reserved"] + take[l]
        /\ \A y \in Bucket \ {"available", "reserved"} : b[y] = swept[l][y]
    <3> DEFINE a == swept[l]
    <3> DEFINE n == take[l]
    <3>1. a \in Balance /\ n \in Int
      BY <1>2, <1>4
    <3> HIDE DEF a, n
    <3>2. ASSUME NEW key, <<l, key>> \notin posted
          PROVE  /\ Posting(a, l, key, "available", "reserved", n)["available"] = a["available"] - n
                 /\ Posting(a, l, key, "available", "reserved", n)["reserved"] = a["reserved"] + n
                 /\ \A y \in Bucket \ {"available", "reserved"} : Posting(a, l, key, "available", "reserved", n)[y] = a[y]
      BY ONLY <3>1, <3>2, NewPosting, BucketNames
    <3> QED
      BY <3>2, <1>5 DEF a, n
  <2> HIDE DEF b
  <2>3. l \in Usable(r, x) /\ take[l] <= swept[l]["available"]
    BY <1>2, <1>4, <1>6, <1>8, BucketNames
  <2>4. /\ balance'[l]["available"] = swept[l]["available"] - take[l]
        /\ balance'[l]["reserved"] = balance[l]["reserved"] + take[l]
        /\ balance'[l]["expired"] = swept[l]["expired"]
        /\ \A y \in {"consumed", "refunded", "allocated"} : balance'[l][y] = balance[l][y]
    BY <1>4, <2>1, <2>2, BucketNames
  <2> QED
    BY <1>2, <2>3, <2>4 DEF swept
<1> QED
  BY <1>2, <1>7, <1>8

LEMMA ConsumeBuckets ==
  ASSUME TypeOK, HoldInv, NEW r \in Reservation, NEW at \in Time, Consume(r, at), NEW l \in Lot
  PROVE  /\ balance'[l]["reserved"] = balance[l]["reserved"] - taken[r][l]
         /\ balance'[l]["consumed"] = balance[l]["consumed"] + taken[r][l]
         /\ \A b \in Bucket \ {"reserved", "consumed"} : balance'[l][b] = balance[l][b]
<1>1. taken[r][l] \in Nat /\ balance[l] \in Balance /\ \A b \in Bucket : balance[l][b] \in Int
  BY DEF TypeOK, Balance
<1>2. <<l, <<"consume", r>>>> \notin posted
  BY DEF HoldInv, Keyed, Consume, Open
<1>3. CASE taken[r][l] = 0
  BY <1>1, <1>3, BucketNames DEF Consume
<1>4. CASE taken[r][l] > 0
  <2> DEFINE b == Posting(balance[l], l, <<"consume", r>>, "reserved", "consumed", taken[r][l])
  <2>1. balance'[l] = b
    BY <1>4 DEF Consume
  <2>2. /\ b["reserved"] = balance[l]["reserved"] - taken[r][l]
        /\ b["consumed"] = balance[l]["consumed"] + taken[r][l]
        /\ \A y \in Bucket \ {"reserved", "consumed"} : b[y] = balance[l][y]
    <3> DEFINE a == balance[l]
    <3> DEFINE n == taken[r][l]
    <3>1. a \in Balance /\ n \in Int
      BY <1>1
    <3> HIDE DEF a, n
    <3>2. ASSUME NEW key, <<l, key>> \notin posted
          PROVE  /\ Posting(a, l, key, "reserved", "consumed", n)["reserved"] = a["reserved"] - n
                 /\ Posting(a, l, key, "reserved", "consumed", n)["consumed"] = a["consumed"] + n
                 /\ \A y \in Bucket \ {"reserved", "consumed"} : Posting(a, l, key, "reserved", "consumed", n)[y] = a[y]
      BY ONLY <3>1, <3>2, NewPosting, BucketNames
    <3> QED
      BY <3>2, <1>2 DEF a, n
  <2> QED
    BY <2>1, <2>2
<1> QED
  BY <1>1, <1>3, <1>4

LEMMA ReleaseBuckets ==
  ASSUME TypeOK, HoldInv, NEW r \in Reservation, Release(r), NEW l \in Lot
  PROVE  /\ balance'[l]["reserved"] = balance[l]["reserved"] - taken[r][l]
         /\ balance'[l]["available"] + balance'[l]["expired"]
              = balance[l]["available"] + balance[l]["expired"] + taken[r][l]
         /\ balance'[l]["available"] >= balance[l]["available"]
         /\ balance'[l]["expired"] >= balance[l]["expired"]
         /\ \A b \in {"consumed", "refunded", "allocated"} : balance'[l][b] = balance[l][b]
<1>1. taken[r][l] \in Nat /\ balance[l] \in Balance /\ \A b \in Bucket : balance[l][b] \in Int
  BY DEF TypeOK, Balance
<1>2. <<l, <<"release", r>>>> \notin posted
  BY DEF HoldInv, Keyed, Release, Open
<1>3. CASE taken[r][l] = 0
  BY <1>1, <1>3, BucketNames DEF Release
<1>4. CASE taken[r][l] > 0
  <2> DEFINE to == ReturnsTo(l)
  <2> DEFINE b == Posting(balance[l], l, <<"release", r>>, "reserved", to, taken[r][l])
  <2>1. balance'[l] = b
    BY <1>4 DEF Release
  <2>2. to \in {"available", "expired"} /\ to \in Bucket /\ to # "reserved" /\ taken[r][l] \in Int
    BY <1>1, BucketNames DEF ReturnsTo
  <2> HIDE DEF to
  <2>3. /\ b["reserved"] = balance[l]["reserved"] - taken[r][l]
        /\ b[to] = balance[l][to] + taken[r][l]
        /\ \A y \in Bucket \ {"reserved", to} : b[y] = balance[l][y]
    <3> DEFINE a == balance[l]
    <3> DEFINE n == taken[r][l]
    <3>1. a \in Balance /\ n \in Int
      BY <1>1
    <3> HIDE DEF a, n
    <3>2. ASSUME NEW key, <<l, key>> \notin posted
          PROVE  /\ Posting(a, l, key, "reserved", to, n)["reserved"] = a["reserved"] - n
                 /\ Posting(a, l, key, "reserved", to, n)[to] = a[to] + n
                 /\ \A y \in Bucket \ {"reserved", to} : Posting(a, l, key, "reserved", to, n)[y] = a[y]
      BY ONLY <3>1, <3>2, <2>2, NewPosting, BucketNames
    <3> QED
      BY <3>2, <1>2 DEF a, n
  <2> HIDE DEF b
  <2>4. CASE to = "available"
    BY <1>1, <2>1, <2>3, <2>4, BucketNames
  <2>5. CASE to = "expired"
    BY <1>1, <2>1, <2>3, <2>5, BucketNames
  <2> QED
    BY <2>2, <2>4, <2>5
<1> QED
  BY <1>1, <1>3, <1>4

\* A transfer, seen from the sources: copy says which new lot each of them fills.
TransferEffect(p, c, q, take, copy) ==
  LET sources == {l \in Lot : take[l] > 0} IN
  /\ take \in [Lot -> Nat] /\ SumFunction(take) = q
  /\ copy \in [sources -> Lot]
  /\ \A s, z \in sources : copy[s] = copy[z] => s = z
  /\ \A s \in sources :
       /\ s \in Unexpired(p) /\ take[s] <= balance[s]["available"]
       /\ ~Exists(copy[s])
       /\ lot'[copy[s]] = [tenant |-> c, purpose |-> lot[s].purpose, order |-> None,
                           quantity |-> take[s], expires |-> lot[s].expires]
       /\ balance'[copy[s]] = [Empty EXCEPT !["available"] = take[s]]
  /\ \A l \in Lot : (\A s \in sources : copy[s] # l) =>
       /\ lot'[l] = lot[l]
       /\ balance'[l] = IF take[l] > 0 THEN Debit(l, take[l]) ELSE balance[l]
  /\ posted' \ posted \subseteq Lot \X {<<"grant">>}

LEMMA AllocateEffect ==
  ASSUME TypeOK, NEW p \in Tenant, NEW c \in Tenant, NEW q \in 1..MaxHold, Allocate(p, c, q)
  PROVE  \E take, copy : TransferEffect(p, c, q, take, copy)
<1>1. PICK take \in [Lot -> 0..q] :
       LET sources == {k \in Lot : take[k] > 0} IN
       /\ FirstExpiringFirst(take, Unexpired(p), Expires, Available(balance), q)
       /\ \E copy \in Injection(sources, {k \in Lot : ~Exists(k)}) :
            LET source(k) == CHOOSE s \in sources : copy[s] = k IN
            /\ lot' = [k \in Lot |->
                 IF k \in Range(copy)
                 THEN [tenant |-> c, purpose |-> lot[source(k)].purpose, order |-> None,
                       quantity |-> take[source(k)], expires |-> lot[source(k)].expires]
                 ELSE lot[k]]
            /\ balance' = [k \in Lot |->
                 IF k \in Range(copy)
                 THEN [Empty EXCEPT !["available"] = take[source(k)]]
                 ELSE IF k \in sources
                      THEN Debit(k, take[k])
                      ELSE balance[k]]
            /\ posted' = posted \cup (Range(copy) \X {<<"grant">>})
  BY DEF Allocate
<1> DEFINE sources == {k \in Lot : take[k] > 0}
<1>2. PICK copy \in Injection(sources, {k \in Lot : ~Exists(k)}) :
            LET source(k) == CHOOSE s \in sources : copy[s] = k IN
            /\ lot' = [k \in Lot |->
                 IF k \in Range(copy)
                 THEN [tenant |-> c, purpose |-> lot[source(k)].purpose, order |-> None,
                       quantity |-> take[source(k)], expires |-> lot[source(k)].expires]
                 ELSE lot[k]]
            /\ balance' = [k \in Lot |->
                 IF k \in Range(copy)
                 THEN [Empty EXCEPT !["available"] = take[source(k)]]
                 ELSE IF k \in sources
                      THEN Debit(k, take[k])
                      ELSE balance[k]]
            /\ posted' = posted \cup (Range(copy) \X {<<"grant">>})
  BY <1>1
<1> DEFINE source(k) == CHOOSE s \in sources : copy[s] = k
<1>3. /\ copy \in [sources -> {k \in Lot : ~Exists(k)}]
      /\ \A s, z \in sources : copy[s] = copy[z] => s = z
  BY <1>2 DEF Injection, IsInjective
<1>4. \A s \in sources : copy[s] \in Lot /\ ~Exists(copy[s]) /\ copy[s] \in Range(copy)
  BY <1>3 DEF Range
<1>5. ASSUME NEW s \in sources PROVE source(copy[s]) = s
  <2>1. source(copy[s]) \in sources /\ copy[source(copy[s])] = copy[s]
    OBVIOUS
  <2> HIDE DEF source
  <2> QED
    BY <1>3, <2>1
<1>6. \A l \in Lot : (\A s \in sources : copy[s] # l) => l \notin Range(copy)
  BY <1>3 DEF Range
<1>7. /\ take \in [Lot -> Nat] /\ SumFunction(take) = q
      /\ \A l \in Lot : take[l] <= IF l \in Unexpired(p) THEN balance[l]["available"] ELSE 0
  BY <1>1 DEF FirstExpiringFirst, Available
<1>8. ASSUME NEW s \in sources
      PROVE  /\ s \in Unexpired(p) /\ take[s] <= balance[s]["available"]
             /\ lot'[copy[s]] = [tenant |-> c, purpose |-> lot[s].purpose, order |-> None,
                                 quantity |-> take[s], expires |-> lot[s].expires]
             /\ balance'[copy[s]] = [Empty EXCEPT !["available"] = take[s]]
  <2>1. take[s] \in Nat /\ balance[s]["available"] \in Int
    BY <1>7, BucketNames DEF TypeOK
  <2>2. s \in Unexpired(p) /\ take[s] <= balance[s]["available"]
    BY <1>7, <2>1
  <2> DEFINE k == copy[s]
  <2>3. k \in Lot /\ k \in Range(copy) /\ source(k) = s
    BY <1>4, <1>5
  <2> HIDE DEF source, k
  <2>4. /\ lot'[k] = [tenant |-> c, purpose |-> lot[source(k)].purpose, order |-> None,
                      quantity |-> take[source(k)], expires |-> lot[source(k)].expires]
        /\ balance'[k] = [Empty EXCEPT !["available"] = take[source(k)]]
    BY <1>2, <2>3 DEF source
  <2>5. /\ lot'[k] = [tenant |-> c, purpose |-> lot[s].purpose, order |-> None,
                      quantity |-> take[s], expires |-> lot[s].expires]
        /\ balance'[k] = [Empty EXCEPT !["available"] = take[s]]
    BY <2>3, <2>4
  <2> QED
    BY <2>2, <2>5 DEF k
<1>9. ASSUME NEW l \in Lot, \A s \in sources : copy[s] # l
      PROVE  /\ lot'[l] = lot[l]
             /\ balance'[l] = IF take[l] > 0 THEN Debit(l, take[l]) ELSE balance[l]
  <2>1. l \notin Range(copy)
    BY <1>6, <1>9
  <2> HIDE DEF source
  <2> QED
    BY <1>2, <2>1
<1>10. posted' \ posted \subseteq Lot \X {<<"grant">>}
  BY <1>2, <1>3 DEF Range
<1>11. copy \in [sources -> Lot]
  BY <1>3
<1>12. TransferEffect(p, c, q, take, copy)
  <2> HIDE DEF source
  <2> QED
    BY <1>3, <1>4, <1>7, <1>8, <1>9, <1>10, <1>11 DEF TransferEffect
<1> QED
  BY <1>12

\* A lot that is neither paid into nor the copy of another: at most points leave it.
\* The ledger of a lot that was just granted n points.
FreshRow(row, n) == row = [Empty EXCEPT !["available"] = n]

LEMMA TransferBuckets ==
  ASSUME TypeOK, NEW p \in Tenant, NEW c \in Tenant, NEW q, NEW take, NEW copy,
         TransferEffect(p, c, q, take, copy), NEW l \in Lot
  PROVE  \/ /\ \E s \in Lot : take[s] > 0 /\ copy[s] = l
            /\ ~Exists(l) /\ take[l] = 0
            /\ \E n \in Nat : FreshRow(balance'[l], n)
         \/ /\ \A s \in Lot : take[s] > 0 => copy[s] # l
            /\ lot'[l] = lot[l]
            /\ take[l] <= balance[l]["available"] \/ take[l] = 0
            /\ balance'[l]["available"] = balance[l]["available"] - take[l]
            /\ balance'[l]["allocated"] = balance[l]["allocated"] + take[l]
            /\ \A b \in Bucket \ {"available", "allocated"} : balance'[l][b] = balance[l][b]
<1> DEFINE sources == {k \in Lot : take[k] > 0}
<1>1. take[l] \in Nat /\ \A b \in Bucket : balance[l][b] \in Int
  BY DEF TransferEffect, TypeOK
<1>2. CASE \E s \in sources : copy[s] = l
  <2>1. PICK s \in sources : copy[s] = l
    BY <1>2
  <2>2. ~Exists(l) /\ take[s] \in Nat /\ balance'[l] = [Empty EXCEPT !["available"] = take[s]]
    BY <2>1 DEF TransferEffect
  <2> FreshRow(balance'[l], take[s])
    BY <2>2 DEF FreshRow
  <2>3. take[l] > 0 => Exists(l)
    BY DEF TransferEffect, Unexpired, LotsOf
  <2> QED
    BY <1>1, <2>1, <2>2, <2>3
<1>3. CASE \A s \in sources : copy[s] # l
  <2>1. lot'[l] = lot[l] /\ balance'[l] = IF take[l] > 0 THEN Debit(l, take[l]) ELSE balance[l]
    BY <1>3 DEF TransferEffect
  <2>2. CASE take[l] = 0
    BY <1>1, <1>3, <2>1, <2>2, BucketNames
  <2>3. CASE take[l] > 0
    <3> DEFINE a == balance[l]
    <3> DEFINE n == take[l]
    <3> DEFINE m == Move(a, "available", "allocated", n)
    <3>1. a \in Balance /\ n \in Int
      BY <1>1 DEF TypeOK, Balance
    <3>2. balance'[l] = m
      BY <2>1, <2>3 DEF Debit
    <3>3. take[l] <= balance[l]["available"]
      BY <2>3 DEF TransferEffect
    <3> HIDE DEF a, n
    <3>4. /\ m["available"] = a["available"] - n /\ m["allocated"] = a["allocated"] + n
          /\ \A y \in Bucket \ {"available", "allocated"} : m[y] = a[y]
      BY ONLY <3>1, MoveBuckets, BucketNames
    <3> HIDE DEF m
    <3> QED
      BY <1>3, <2>1, <3>2, <3>3, <3>4 DEF a, n
  <2> QED
    BY <1>1, <2>2, <2>3
<1> QED
  BY <1>2, <1>3

LEMMA RefundBuckets ==
  ASSUME TypeOK, NEW o \in Order, NEW amount \in Nat, NEW chargeback, Refund(o, amount, chargeback),
         NEW l \in Lot
  PROVE  \/ balance'[l] = balance[l]
         \/ /\ ~Reviewed(o, amount, chargeback) /\ l = LotOf(o)
            /\ amount <= balance[l]["available"]
            /\ balance'[l]["available"] = balance[l]["available"] - amount
            /\ balance'[l]["refunded"] = balance[l]["refunded"] + amount
            /\ \A b \in Bucket \ {"available", "refunded"} : balance'[l][b] = balance[l][b]
<1>1. balance \in [Lot -> Balance] /\ \A b \in Bucket : balance[l][b] \in Int
  BY DEF TypeOK, Balance
<1>2. CASE Reviewed(o, amount, chargeback)
  BY <1>2 DEF Refund
<1>3. CASE ~Reviewed(o, amount, chargeback)
  <2>1. balance' = [balance EXCEPT ![LotOf(o)] = Move(@, "available", "refunded", amount)]
    BY <1>3 DEF Refund
  <2>2. CASE l # LotOf(o)
    BY <1>1, <2>1, <2>2
  <2>3. CASE l = LotOf(o)
    <3> DEFINE a == balance[l]
    <3> DEFINE m == Move(a, "available", "refunded", amount)
    <3>1. a \in Balance /\ amount \in Int
      BY <1>1
    <3>2. balance'[l] = m
      BY <1>1, <2>1, <2>3
    <3>3. amount <= balance[l]["available"]
      BY <1>1, <1>3, <2>3, BucketNames DEF Reviewed
    <3> HIDE DEF a
    <3>4. /\ m["available"] = a["available"] - amount /\ m["refunded"] = a["refunded"] + amount
          /\ \A y \in Bucket \ {"available", "refunded"} : m[y] = a[y]
      BY ONLY <3>1, MoveBuckets, BucketNames
    <3> HIDE DEF m
    <3> QED
      BY <1>3, <2>3, <3>2, <3>3, <3>4 DEF a
  <2> QED
    BY <2>2, <2>3
<1> QED
  BY <1>2, <1>3

\* A grant fills a lot that did not exist.
LEMMA PaidBuckets ==
  ASSUME TypeOK, NEW e \in Event, PaidEvent(e), NEW l \in Lot
  PROVE  \/ lot'[l] = lot[l] /\ balance'[l] = balance[l]
         \/ /\ ~Exists(l)
            /\ FreshRow(balance'[l], PointsOf[e.order])
<1>1. lot \in [Lot -> LotRow] /\ balance \in [Lot -> Balance]
  BY DEF TypeOK, LotRow, Balance
<1>2. CASE Paid(e.order)
  BY <1>2 DEF PaidEvent
<1>3. CASE ~Paid(e.order)
  <2>1. PICK k \in Lot : Grant(k, e.order)
    BY <1>3 DEF PaidEvent
  <2> QED
    BY <1>1, <2>1 DEF Grant, FreshRow
<1> QED
  BY <1>2, <1>3

LEMMA EmptyBuckets ==
  ASSUME NEW n \in Nat
  PROVE  \A row : FreshRow(row, n) =>
           /\ row["available"] = n /\ row["reserved"] = 0 /\ row["consumed"] = 0
           /\ row["expired"] = 0 /\ row["refunded"] = 0 /\ row["allocated"] = 0
BY DEF FreshRow, Empty, Bucket

SolventRow(b) == b["available"] >= 0 /\ b["expired"] >= 0 /\ b["refunded"] >= 0 /\ b["allocated"] >= 0

LEMMA SolventRows == Solvent <=> \A l \in Lot : SolventRow(balance[l])
BY DEF Solvent, SolventRow

LEMMA HoldsOnly ==
  ASSUME TypeOK, HoldInv, NEW r \in Reservation,
         \A s \in Reservation \ {r} : hold'[s] = hold[s] /\ taken'[s] = taken[s],
         lot' = lot, NEW key \in {"reserve", "consume", "release"},
         posted' \ posted \subseteq (Lot \X {<<"expire">>}) \cup (Lot \X {<<key, r>>}),
         hold'[r].status # "none",
         key # "reserve" => hold'[r].status \in {"consumed", "released"},
         hold[r].status \in {"none", "reserved"}
  PROVE  Keyed'
<1> SUFFICES ASSUME NEW s \in Reservation, NEW l \in Lot
             PROVE  /\ <<l, <<"reserve", s>>>> \in posted' => hold'[s].status # "none"
                    /\ <<l, <<"consume", s>>>> \in posted' \/ <<l, <<"release", s>>>> \in posted'
                         => hold'[s].status \in {"consumed", "released"}
  BY DEF Keyed
<1>1. /\ <<l, <<"reserve", s>>>> \in posted => hold[s].status # "none"
      /\ <<l, <<"consume", s>>>> \in posted \/ <<l, <<"release", s>>>> \in posted
           => hold[s].status \in {"consumed", "released"}
  BY DEF HoldInv, Keyed
<1>2. ASSUME NEW k \in {"reserve", "consume", "release"}, <<l, <<k, s>>>> \in posted',
             <<l, <<k, s>>>> \notin posted
      PROVE  k = key /\ s = r
  BY <1>2
<1>3. CASE s = r
  BY <1>1, <1>2, <1>3
<1>4. CASE s # r
  BY <1>1, <1>2, <1>4
<1> QED
  BY <1>3, <1>4

LEMMA HoldStep == TypeOK /\ TypeOK' /\ HoldInv /\ [Next]_vars => HoldInv'
<1> SUFFICES ASSUME TypeOK, TypeOK', HoldInv, [Next]_vars PROVE HoldInv'
  OBVIOUS
<1> USE WalletConstants
<1>0. \A l \in Lot, b \in Bucket : balance[l][b] \in Int /\ balance'[l][b] \in Int
  BY DEF TypeOK
<1>s. \A l \in Lot : SolventRow(balance[l])
  BY SolventRows DEF HoldInv
<1>k. ASSUME \A l \in Lot : SolventRow(balance'[l]), HoldsKept PROVE HoldInv'
  <2>1. Solvent'
    BY <1>k DEF Solvent, SolventRow
  <2> QED
    BY <1>k, <2>1, KeptHolds
<1>1. CASE UNCHANGED <<lot, balance, posted, hold, taken>>
  <2>1. HoldsKept
    BY <1>1 DEF HoldsKept
  <2> QED
    BY <1>1, <1>s, <1>k, <2>1
<1>2. ASSUME NEW t \in Tenant, ExpireLots(t) PROVE HoldInv'
  <2>1. balance' = AfterExpiry(t) /\ hold' = hold /\ taken' = taken /\ lot' = lot
    BY <1>2 DEF ExpireLots
  <2>2. ASSUME NEW l \in Lot PROVE SolventRow(balance'[l])
    BY <1>0, <1>s, <2>1, ExpiryBuckets, BucketNames DEF SolventRow
  <2>3. \A l \in Lot : \A b \in {"reserved", "consumed"} : balance'[l][b] = balance[l][b]
    BY <2>1, ExpiryBuckets, BucketNames
  <2>4. \A x \in posted' \ posted : x[2] = <<"expire">>
    BY <1>2 DEF ExpireLots
  <2>5. HoldsKept
    BY <2>1, <2>3, <2>4 DEF HoldsKept
  <2> QED
    BY <2>2, <2>5, <1>k
<1>3. ASSUME NEW r \in Reservation, NEW q \in 1..MaxHold, NEW x \in Time, Reserve(r, q, x)
      PROVE  HoldInv'
  <2>1. /\ hold[r].status = "none" /\ lot' = lot
        /\ hold'[r] = [status |-> "reserved", quantity |-> q, expires |-> x]
        /\ \A s \in Reservation \ {r} : hold'[s] = hold[s] /\ taken'[s] = taken[s]
    BY <1>3 DEF Reserve, TypeOK
  <2>2. ASSUME NEW l \in Lot
        PROVE  /\ taken'[r][l] \in Nat
               /\ balance'[l]["available"] = AfterExpiry(TenantOf[r])[l]["available"] - taken'[r][l]
               /\ balance'[l]["reserved"] = balance[l]["reserved"] + taken'[r][l]
               /\ balance'[l]["expired"] = AfterExpiry(TenantOf[r])[l]["expired"]
               /\ \A b \in {"consumed", "refunded", "allocated"} : balance'[l][b] = balance[l][b]
               /\ taken'[r][l] <= AfterExpiry(TenantOf[r])[l]["available"] \/ taken'[r][l] = 0
               /\ taken'[r][l] > 0 => l \in Usable(r, x)
    BY <1>3, ReserveBuckets
  <2>3. TenantOf[r] \in Tenant
    OBVIOUS
  <2>4. \A l \in Lot : taken[r][l] = 0
    BY <2>1 DEF HoldInv, Took
  <2>5. ASSUME NEW l \in Lot, NEW status
        PROVE  HeldBy(status, l)' = HeldBy(status, l) + (IF status = "reserved" THEN taken'[r][l] ELSE 0)
    <3>1. HeldBy(status, l) \in Nat
      BY HeldIsCovered
    <3>2. HeldBy(status, l)' = HeldBy(status, l)
           - (IF hold[r].status = status THEN taken[r][l] ELSE 0)
           + (IF hold'[r].status = status THEN taken'[r][l] ELSE 0)
      BY <2>1, HeldByChanges
    <3>3. hold'[r].status = "reserved" /\ taken'[r][l] \in Nat
      BY <2>1, <2>2
    <3> QED
      BY <2>4, <3>1, <3>2, <3>3
  <2>6. Backed'
    <3> SUFFICES ASSUME NEW l \in Lot
                 PROVE  /\ balance'[l]["reserved"] = HeldBy("reserved", l)'
                        /\ balance'[l]["consumed"] = HeldBy("consumed", l)'
      BY DEF Backed
    <3>1. HeldBy("consumed", l) \in Nat /\ HeldBy("reserved", l) \in Nat
      BY HeldIsCovered
    <3>2. HeldBy("consumed", l)' = HeldBy("consumed", l) + 0
      BY <2>5
    <3>3. HeldBy("reserved", l)' = HeldBy("reserved", l) + taken'[r][l]
      BY <2>5
    <3> QED
      BY <2>2, <3>1, <3>2, <3>3 DEF HoldInv, Backed
  <2>7. Took'
    <3>1. SumFunction(taken'[r]) = q
      BY <1>3 DEF Reserve, FirstExpiringFirst, TypeOK
    <3> QED
      BY <2>1, <3>1 DEF HoldInv, Took
  <2>8. Keyed'
    <3>1. posted' \ posted \subseteq (Lot \X {<<"expire">>}) \cup (Lot \X {<<"reserve", r>>})
      BY <1>3 DEF Reserve, Expiring, LotsOf
    <3> QED
      BY <2>1, <3>1, HoldsOnly
  <2>9. Solvent'
    <3> SUFFICES ASSUME NEW l \in Lot PROVE SolventRow(balance'[l])
      BY DEF Solvent, SolventRow
    <3> DEFINE a == AfterExpiry(TenantOf[r])[l]
    <3>1. a["available"] >= 0 /\ a["expired"] >= 0 /\ a["available"] \in Int /\ a["expired"] \in Int
      <4>1. a \in Balance
        BY <2>3, ExpiryBalance
      <4>2. /\ a["available"] + a["expired"] = balance[l]["available"] + balance[l]["expired"]
            /\ a["available"] <= balance[l]["available"]
            /\ balance[l]["available"] >= 0 => a["available"] >= 0
        BY <2>3, ExpiryBuckets
      <4>3. a["available"] \in Int /\ a["expired"] \in Int
        BY <4>1, BucketNames DEF Balance
      <4> HIDE DEF a
      <4> QED
        BY <1>0, <1>s, <4>2, <4>3, BucketNames DEF SolventRow
    <3> QED
      BY <1>s, <2>2, <3>1 DEF SolventRow
  <2>10. HoldsFit'
    <3> SUFFICES ASSUME NEW s \in Reservation, NEW l \in Lot, taken'[s][l] > 0
                 PROVE  /\ Exists(l) /\ lot[l].tenant = TenantOf[s]
                        /\ lot[l].purpose \in {"all", PurposeOf[s]}
                        /\ hold'[s].expires <= lot[l].expires
      BY <2>1 DEF HoldsFit, Exists
    <3>1. CASE s # r
      BY <2>1, <3>1 DEF HoldInv, HoldsFit
    <3>2. CASE s = r
      <4>1. l \in Usable(r, x)
        BY <2>2, <3>2
      <4>2. lot[l].expires \in Nat /\ x \in Int
        BY DEF TypeOK, Time
      <4> QED
        BY <2>1, <3>2, <4>1, <4>2 DEF Usable, LotsOf
    <3> QED
      BY <3>1, <3>2
  <2> QED
    BY <2>6, <2>7, <2>8, <2>9, <2>10 DEF HoldInv
<1>4. ASSUME NEW r \in Reservation, NEW next \in {"consumed", "released"},
             \/ next = "consumed" /\ \E at \in Time : Consume(r, at)
             \/ next = "released" /\ Release(r)
      PROVE  HoldInv'
  <2>1. /\ hold[r].status = "reserved" /\ lot' = lot /\ taken' = taken
        /\ hold'[r].status = next /\ hold'[r].quantity = hold[r].quantity
        /\ hold'[r].expires = hold[r].expires
        /\ \A s \in Reservation \ {r} : hold'[s] = hold[s]
    BY <1>4 DEF Consume, Release, Open, TypeOK
  <2>2. ASSUME NEW l \in Lot
        PROVE  /\ balance'[l]["reserved"] = balance[l]["reserved"] - taken[r][l]
               /\ balance'[l]["consumed"] = balance[l]["consumed"]
                                             + (IF next = "consumed" THEN taken[r][l] ELSE 0)
               /\ balance'[l]["available"] >= balance[l]["available"]
               /\ balance'[l]["expired"] >= balance[l]["expired"]
               /\ \A b \in {"refunded", "allocated"} : balance'[l][b] = balance[l][b]
    <3>1. taken[r][l] \in Nat /\ \A b \in Bucket : balance[l][b] \in Int
      BY DEF TypeOK
    <3>2. ASSUME NEW at \in Time, Consume(r, at), next = "consumed"
          PROVE  /\ balance'[l]["reserved"] = balance[l]["reserved"] - taken[r][l]
                 /\ balance'[l]["consumed"] = balance[l]["consumed"] + taken[r][l]
                 /\ balance'[l]["available"] >= balance[l]["available"]
                 /\ balance'[l]["expired"] >= balance[l]["expired"]
                 /\ \A b \in {"refunded", "allocated"} : balance'[l][b] = balance[l][b]
      BY <3>1, <3>2, ConsumeBuckets, BucketNames
    <3>3. CASE Release(r) /\ next = "released"
      <4>1. /\ balance'[l]["reserved"] = balance[l]["reserved"] - taken[r][l]
            /\ balance'[l]["available"] >= balance[l]["available"]
            /\ balance'[l]["expired"] >= balance[l]["expired"]
            /\ \A b \in {"consumed", "refunded", "allocated"} : balance'[l][b] = balance[l][b]
        BY <3>3, ReleaseBuckets
      <4> QED
        BY <3>1, <3>3, <4>1, BucketNames
    <3> QED
      BY <1>4, <3>2, <3>3
  <2>3. ASSUME NEW l \in Lot, NEW status
        PROVE  HeldBy(status, l)' = HeldBy(status, l)
                 - (IF status = "reserved" THEN taken[r][l] ELSE 0)
                 + (IF status = next THEN taken[r][l] ELSE 0)
    BY <2>1, HeldByChanges
  <2>4. Backed'
    <3> SUFFICES ASSUME NEW l \in Lot
                 PROVE  /\ balance'[l]["reserved"] = HeldBy("reserved", l)'
                        /\ balance'[l]["consumed"] = HeldBy("consumed", l)'
      BY DEF Backed
    <3>1. HeldBy("consumed", l) \in Nat /\ HeldBy("reserved", l) \in Nat /\ taken[r][l] \in Nat
      BY HeldIsCovered DEF TypeOK
    <3>2. HeldBy("consumed", l)' = HeldBy("consumed", l) - 0 + (IF next = "consumed" THEN taken[r][l] ELSE 0)
      BY <2>3
    <3>3. HeldBy("reserved", l)' = HeldBy("reserved", l) - taken[r][l] + 0
      BY <2>3
    <3> QED
      BY <2>2, <3>1, <3>2, <3>3 DEF HoldInv, Backed
  <2>5. Took'
    BY <2>1 DEF HoldInv, Took
  <2>6. Keyed'
    <3>1. \E key \in {"consume", "release"} :
            posted' \ posted \subseteq (Lot \X {<<"expire">>}) \cup (Lot \X {<<key, r>>})
      BY <1>4 DEF Consume, Release
    <3>2. ASSUME NEW key \in {"consume", "release"},
                 posted' \ posted \subseteq (Lot \X {<<"expire">>}) \cup (Lot \X {<<key, r>>})
          PROVE  Keyed'
      BY <2>1, <3>2, HoldsOnly
    <3> QED
      BY <3>1, <3>2
  <2>7. Solvent'
    <3> SUFFICES ASSUME NEW l \in Lot PROVE SolventRow(balance'[l])
      BY DEF Solvent, SolventRow
    <3> QED
      BY <1>0, <1>s, <2>2, BucketNames DEF SolventRow
  <2>8. HoldsFit'
    BY <2>1 DEF HoldInv, HoldsFit, Exists
  <2> QED
    BY <2>4, <2>5, <2>6, <2>7, <2>8 DEF HoldInv
<1>5. ASSUME NEW e \in Event, PaidEvent(e) PROVE HoldInv'
  <2>1. e.order \in Order /\ PointsOf[e.order] \in Nat
    BY DEF EventType
  <2>2. \A l \in Lot : \/ /\ lot'[l] = lot[l]
                           /\ balance'[l] = balance[l]
                        \/ /\ ~Exists(l)
                           /\ FreshRow(balance'[l], PointsOf[e.order])
    BY <1>5, PaidBuckets DEF FreshRow
  <2>r. ASSUME NEW l \in Lot, FreshRow(balance'[l], PointsOf[e.order])
        PROVE  /\ balance'[l]["reserved"] = 0 /\ balance'[l]["consumed"] = 0
               /\ SolventRow(balance'[l])
    <3>1. /\ balance'[l]["available"] = PointsOf[e.order]
          /\ balance'[l]["reserved"] = 0 /\ balance'[l]["consumed"] = 0 /\ balance'[l]["expired"] = 0
          /\ balance'[l]["refunded"] = 0 /\ balance'[l]["allocated"] = 0
      BY <2>1, <2>r, EmptyBuckets
    <3> QED
      BY <2>1, <3>1 DEF SolventRow
  <2>3. ASSUME NEW l \in Lot PROVE SolventRow(balance'[l])
    BY <1>s, <2>2, <2>r
  <2>4. ASSUME NEW l \in Lot, NEW b \in {"reserved", "consumed"}
        PROVE  balance'[l][b] = balance[l][b] \/ (~Exists(l) /\ balance'[l][b] = 0)
    BY <2>2, <2>r
  <2>5. \A x \in posted' \ posted : x[2] = <<"grant">>
    BY <1>5 DEF PaidEvent, Grant
  <2>6. \A l \in Lot : Exists(l) => lot'[l] = lot[l]
    BY <2>2
  <2>7. HoldsKept
    BY <1>5, <2>4, <2>5, <2>6 DEF HoldsKept, PaidEvent
  <2> QED
    BY <2>3, <2>7, <1>k
<1>6. ASSUME NEW o \in Order, NEW amount \in Nat, NEW chargeback, Refund(o, amount, chargeback)
      PROVE  HoldInv'
  <2>1. \A l \in Lot : \/ balance'[l] = balance[l]
          \/ /\ amount <= balance[l]["available"]
             /\ balance'[l]["available"] = balance[l]["available"] - amount
             /\ balance'[l]["refunded"] = balance[l]["refunded"] + amount
             /\ \A b \in Bucket \ {"available", "refunded"} : balance'[l][b] = balance[l][b]
    BY <1>6, RefundBuckets
  <2>2. ASSUME NEW l \in Lot PROVE SolventRow(balance'[l])
    BY <1>0, <1>s, <2>1, BucketNames DEF SolventRow
  <2>3. \A l \in Lot : \A b \in {"reserved", "consumed"} : balance'[l][b] = balance[l][b]
    BY <2>1, BucketNames
  <2>4. HoldsKept
    BY <1>6, <2>3 DEF HoldsKept, Refund
  <2> QED
    BY <2>2, <2>4, <1>k
<1>7. ASSUME NEW p \in Tenant, NEW c \in Tenant, NEW q \in 1..MaxHold, Allocate(p, c, q)
      PROVE  HoldInv'
  <2>1. PICK take, copy : TransferEffect(p, c, q, take, copy)
    BY <1>7, AllocateEffect
  <2>2. ASSUME NEW l \in Lot
        PROVE  \/ /\ ~Exists(l)
                  /\ \E n \in Nat : FreshRow(balance'[l], n)
               \/ /\ lot'[l] = lot[l]
                  /\ take[l] <= balance[l]["available"] \/ take[l] = 0
                  /\ balance'[l]["available"] = balance[l]["available"] - take[l]
                  /\ balance'[l]["allocated"] = balance[l]["allocated"] + take[l]
                  /\ \A b \in Bucket \ {"available", "allocated"} : balance'[l][b] = balance[l][b]
    BY <2>1, TransferBuckets
  <2>3. \A l \in Lot : take[l] \in Nat
    BY <2>1 DEF TransferEffect
  <2>r. ASSUME NEW l \in Lot, NEW n \in Nat, FreshRow(balance'[l], n)
        PROVE  /\ balance'[l]["reserved"] = 0 /\ balance'[l]["consumed"] = 0
               /\ SolventRow(balance'[l])
    <3>1. /\ balance'[l]["available"] = n
          /\ balance'[l]["reserved"] = 0 /\ balance'[l]["consumed"] = 0 /\ balance'[l]["expired"] = 0
          /\ balance'[l]["refunded"] = 0 /\ balance'[l]["allocated"] = 0
      BY <2>r, EmptyBuckets
    <3> QED
      BY <3>1 DEF SolventRow
  <2>4. ASSUME NEW l \in Lot PROVE SolventRow(balance'[l])
    BY <1>0, <1>s, <2>2, <2>3, <2>r, BucketNames DEF SolventRow
  <2>5. ASSUME NEW l \in Lot, NEW b \in {"reserved", "consumed"}
        PROVE  balance'[l][b] = balance[l][b] \/ (~Exists(l) /\ balance'[l][b] = 0)
    <3>1. ASSUME NEW n \in Nat, ~Exists(l), FreshRow(balance'[l], n)
          PROVE  ~Exists(l) /\ balance'[l][b] = 0
      BY <2>r, <3>1
    <3>2. b \in Bucket \ {"available", "allocated"}
      BY BucketNames
    <3> QED
      BY <2>2, <3>1, <3>2
  <2>6. \A x \in posted' \ posted : x[2] = <<"grant">>
    BY <2>1 DEF TransferEffect
  <2>7. \A l \in Lot : Exists(l) => lot'[l] = lot[l]
    BY <2>2
  <2>8. hold' = hold /\ taken' = taken
    BY <1>7 DEF Allocate
  <2>9. HoldsKept
    BY <2>5, <2>6, <2>7, <2>8 DEF HoldsKept
  <2> QED
    BY <2>4, <2>9, <1>k
<1>8. \A e \in Event : e.order \in Order /\ e.amount \in Nat
  BY DEF EventType
<1>9. 1..MaxHold \subseteq Nat
  OBVIOUS
<1>10. Tick \/ (\E o \in Order : CreateOrder(o)) \/ (\E e \in Event : FailedEvent(e))
         \/ UNCHANGED vars => UNCHANGED <<lot, balance, posted, hold, taken>>
  BY DEF Tick, CreateOrder, FailedEvent, vars
<1> QED
  BY <1>1, <1>2, <1>3, <1>4, <1>5, <1>6, <1>7, <1>8, <1>9, <1>10 DEF Next, RefundEvent, FinanceRefund

(* The ledger covers the holds and no bucket is overdrawn, for any number  *)
(* of lots, holds and tenants and any order of operations.                 *)
THEOREM HoldsAlwaysCovered == Spec => []HoldsCovered
<1>1. TypeOK /\ [Next]_vars => TypeOK'
  BY TypeStep
<1> QED
  BY <1>1, InitType, InitHolds, HoldStep, HoldInvGives, PTL DEF Spec

-----------------------------------------------------------------------------
(***************************************************************************)
(* All wallets together: the points that were issued, and custody.         *)
(***************************************************************************)
WalletInv == TypeOK /\ LedgerBalanced /\ HoldInv /\ MoneyInv

LEMMA WalletInvHolds == Spec => []WalletInv
<1>1. TypeOK /\ [Next]_vars => TypeOK'
  BY TypeStep
<1>2. WalletInv /\ [Next]_vars => WalletInv'
  BY <1>1, LedgerStep, HoldStep, MoneyStep DEF WalletInv
<1>3. Init => WalletInv
  BY InitType, InitLedger, InitHolds, InitMoney DEF WalletInv
<1> QED
  BY <1>2, <1>3, PTL DEF Spec

\* Nothing is recorded of a lot that does not exist.
LEMMA NothingOfNoLot ==
  ASSUME WalletInv, NEW l \in Lot, ~Exists(l)
  PROVE  lot[l].quantity = 0 /\ \A b \in Bucket : balance[l][b] = 0
<1>1. lot[l].quantity \in Nat /\ \A b \in Bucket : balance[l][b] \in Int
  BY DEF WalletInv, TypeOK
<1>2. lot[l].quantity = 0
  BY <1>1 DEF Exists
<1>3. \A b \in Bucket : balance[l][b] >= 0
  BY HoldInvGives DEF WalletInv, HoldsCovered, NeverOverdrawn
<1>4. balance[l]["available"] + balance[l]["reserved"] + balance[l]["consumed"]
        + balance[l]["expired"] + balance[l]["refunded"] + balance[l]["allocated"] = 0
  BY <1>2 DEF WalletInv, LedgerBalanced, Total
<1>5. /\ balance[l]["available"] = 0 /\ balance[l]["reserved"] = 0 /\ balance[l]["consumed"] = 0
      /\ balance[l]["expired"] = 0 /\ balance[l]["refunded"] = 0 /\ balance[l]["allocated"] = 0
  <2> DEFINE a == balance[l]["available"]
  <2> DEFINE r == balance[l]["reserved"]
  <2> DEFINE c == balance[l]["consumed"]
  <2> DEFINE e == balance[l]["expired"]
  <2> DEFINE f == balance[l]["refunded"]
  <2> DEFINE k == balance[l]["allocated"]
  <2>1. a \in Int /\ r \in Int /\ c \in Int /\ e \in Int /\ f \in Int /\ k \in Int
    BY <1>1, BucketNames
  <2>2. a >= 0 /\ r >= 0 /\ c >= 0 /\ e >= 0 /\ f >= 0 /\ k >= 0
    BY <1>3, BucketNames
  <2>3. a + r + c + e + f + k = 0
    BY <1>4
  <2> HIDE DEF a, r, c, e, f, k
  <2>4. a = 0 /\ r = 0 /\ c = 0 /\ e = 0 /\ f = 0 /\ k = 0
    BY <2>1, <2>2, <2>3
  <2> QED
    BY <2>4 DEF a, r, c, e, f, k
<1> QED
  BY <1>2, <1>5 DEF Bucket

\* What a transfer puts into new lots is what it takes out of the sources.
LEMMA TransferSum ==
  ASSUME NEW p, NEW c, NEW q, NEW take, NEW copy, TransferEffect(p, c, q, take, copy),
         NEW g \in [Lot -> Int],
         \A s \in Lot : take[s] > 0 => g[copy[s]] = take[s],
         \A l \in Lot : (\A s \in Lot : take[s] > 0 => copy[s] # l) => g[l] = 0
  PROVE  SumFunction(g) = q
<1> DEFINE sources == {l \in Lot : take[l] > 0}
<1> DEFINE Z == Lot \ sources
<1> DEFINE f == [s \in sources |-> take[s]]
<1>1. /\ take \in [Lot -> Int] /\ take \in [Lot -> Nat] /\ copy \in [sources -> Lot]
      /\ \A s, z \in sources : copy[s] = copy[z] => s = z
      /\ SumFunction(take) = q
  BY DEF TransferEffect
<1>2. /\ IsFiniteSet(Lot) /\ IsFiniteSet(sources) /\ Z \in SUBSET Lot /\ Lot \ Z = sources
      /\ \A l \in Lot : take[l] \in Int
      /\ \A l \in Z : take[l] = 0
  <2>1. IsFiniteSet(Lot) /\ sources \in SUBSET Lot
    BY RowsAreFinite
  <2>2. IsFiniteSet(sources)
    BY <2>1, FS_Subset
  <2> QED
    BY <1>1, <2>1, <2>2
<1>3. f \in [sources -> Int]
  BY <1>1
<1>4. \A s \in sources : g[copy[s]] = f[s]
  OBVIOUS
<1>5. \A l \in Lot : (\A s \in sources : copy[s] # l) => g[l] = 0
  OBVIOUS
<1>6. SumFunctionOnSet(take, Lot) = SumFunctionOnSet(take, sources)
  <2> HIDE DEF sources, Z
  <2>1. SumFunctionOnSet(take, Lot) = SumFunctionOnSet(take, Lot \ Z)
    BY <1>2, SumOfTheRest
  <2> QED
    BY <1>2, <2>1, Zenon
<1>7. SumFunctionOnSet(take, sources) = SumFunctionOnSet(f, sources)
  <2>1. \A s \in sources : take[s] = f[s]
    OBVIOUS
  <2> HIDE DEF sources, f
  <2> QED
    BY <1>2, <2>1, SumAgrees
<1>8. SumFunction(f) = SumFunctionOnSet(f, sources) /\ SumFunction(take) = SumFunctionOnSet(take, Lot)
  BY <1>1 DEF SumFunction
<1> HIDE DEF sources, f, Z
<1>9. SumFunction(g) = SumFunction(f)
  BY <1>1, <1>2, <1>3, <1>4, <1>5, SumMoves
<1> QED
  BY <1>1, <1>6, <1>7, <1>8, <1>9

-----------------------------------------------------------------------------
Issued == [l \in Lot |-> lot[l].quantity - balance[l]["allocated"]]
Bought == [o \in Order |-> IF Paid(o) THEN PointsOf[o] ELSE 0]

LEMMA IssuedType ==
  ASSUME TypeOK
  PROVE  /\ Issued \in [Lot -> Int] /\ Bought \in [Order -> Int]
         /\ PointsIssuedOnce <=> SumFunction(Issued)
              = SumFunction([s \in DOMAIN Seeded |-> Seeded[s].quantity]) + SumFunction(Bought)
<1>1. \A l \in Lot : lot[l].quantity \in Nat /\ balance[l]["allocated"] \in Int
  BY BucketNames DEF TypeOK
<1> QED
  BY <1>1, WalletConstants DEF Issued, Bought, PointsIssuedOnce

LEMMA InitIssued == Init => PointsIssuedOnce
<1> SUFFICES ASSUME Init PROVE PointsIssuedOnce
  OBVIOUS
<1> USE WalletConstants
<1>1. TypeOK
  BY InitType
<1>2. PICK row \in Injection(DOMAIN Seeded, Lot) :
       LET seed(l) == CHOOSE s \in DOMAIN Seeded : row[s] = l IN
       /\ lot = [l \in Lot |->
                   IF l \in Range(row)
                   THEN [tenant |-> Seeded[seed(l)].tenant, purpose |-> Seeded[seed(l)].purpose,
                         order |-> None, quantity |-> Seeded[seed(l)].quantity,
                         expires |-> Seeded[seed(l)].expires]
                   ELSE NoLot]
       /\ balance = [l \in Lot |->
                       IF l \in Range(row)
                       THEN [Empty EXCEPT !["available"] = Seeded[seed(l)].quantity]
                       ELSE Empty]
  BY DEF Init
<1> DEFINE S == DOMAIN Seeded
<1> DEFINE seed(l) == CHOOSE s \in S : row[s] = l
<1> DEFINE f == [s \in S |-> Seeded[s].quantity]
<1>3. row \in [S -> Lot] /\ \A s, z \in S : row[s] = row[z] => s = z
  BY <1>2 DEF Injection, IsInjective
<1>4. IsFiniteSet(S)
  BY RowsAreFinite
<1>5. f \in [S -> Int]
  BY DEF SeedType
<1>6. ASSUME NEW s \in S PROVE Issued[row[s]] = f[s]
  <2> DEFINE k == row[s]
  <2>1. k \in Lot /\ k \in Range(row)
    BY <1>3 DEF Range
  <2>2. seed(k) \in S /\ row[seed(k)] = k
    OBVIOUS
  <2> HIDE DEF seed
  <2>3. seed(k) = s
    BY <1>3, <2>2
  <2>4. lot[k].quantity = Seeded[seed(k)].quantity
    BY <1>2, <2>1 DEF seed
  <2>5. balance[k] = [Empty EXCEPT !["available"] = Seeded[seed(k)].quantity]
    BY <1>2, <2>1 DEF seed
  <2>6. balance[k]["allocated"] = 0
    BY <2>5 DEF Empty, Bucket
  <2>7. f[s] \in Int
    BY <1>5
  <2> QED
    BY <2>1, <2>3, <2>4, <2>6, <2>7 DEF Issued
<1>7. ASSUME NEW l \in Lot, \A s \in S : row[s] # l PROVE Issued[l] = 0
  <2>1. l \notin Range(row)
    BY <1>3, <1>7 DEF Range
  <2>2. lot[l] = NoLot /\ balance[l] = Empty
    BY <1>2, <2>1
  <2> QED
    BY <2>2 DEF Issued, NoLot, Empty, Bucket
<1>8. SumFunction(Issued) = SumFunction(f)
  <2>1. Issued \in [Lot -> Int] /\ IsFiniteSet(Lot)
    BY <1>1, IssuedType, RowsAreFinite
  <2> HIDE DEF S, f
  <2> QED
    BY <1>3, <1>4, <1>5, <1>6, <1>7, <2>1, SumMoves
<1>9. SumFunction(Bought) = 0
  <2>1. \A o \in Order : Bought[o] = 0
    BY DEF Init, Bought, NoOrder, Paid
  <2> QED
    BY <1>1, <2>1, IssuedType, SumOfZeros, RowsAreFinite
<1>10. SumFunction(f) \in Int
  <2> HIDE DEF S, f
  <2> QED
    BY <1>4, <1>5, SumType
<1> QED
  BY <1>1, <1>8, <1>9, <1>10, IssuedType

\* Points are bought with the payment of an order, and with nothing else.
LEMMA BoughtUnchanged ==
  ASSUME \A o \in Order : order'[o].payment = order[o].payment
  PROVE  Bought' = Bought
BY DEF Bought, Paid

LEMMA IssuedUnchanged ==
  ASSUME \A l \in Lot : /\ lot'[l].quantity = lot[l].quantity
                        /\ balance'[l]["allocated"] = balance[l]["allocated"]
  PROVE  Issued' = Issued
BY DEF Issued

LEMMA IssuedStep == WalletInv /\ WalletInv' /\ PointsIssuedOnce /\ [Next]_vars => PointsIssuedOnce'
<1> SUFFICES ASSUME WalletInv, WalletInv', PointsIssuedOnce, [Next]_vars PROVE PointsIssuedOnce'
  OBVIOUS
<1> USE WalletConstants
<1>0. TypeOK /\ HoldInv /\ \A l \in Lot, b \in Bucket : balance[l][b] \in Int
  BY DEF WalletInv, TypeOK
<1> DEFINE seeded == SumFunction([s \in DOMAIN Seeded |-> Seeded[s].quantity])
<1>t. /\ Issued \in [Lot -> Int] /\ Bought \in [Order -> Int]
      /\ Issued' \in [Lot -> Int] /\ Bought' \in [Order -> Int]
      /\ SumFunction(Issued) = seeded + SumFunction(Bought)
      /\ PointsIssuedOnce' <=> SumFunction(Issued') = seeded + SumFunction(Bought')
  <2>1. TypeOK'
    BY DEF WalletInv
  <2>2. Issued' \in [Lot -> Int] /\ Bought' \in [Order -> Int]
    <3>1. \A l \in Lot : lot'[l].quantity \in Nat /\ balance'[l]["allocated"] \in Int
      BY <2>1, BucketNames DEF TypeOK
    <3> QED
      BY <3>1 DEF Issued, Bought
  <2>3. PointsIssuedOnce' <=> SumFunction(Issued') = seeded + SumFunction(Bought')
    BY DEF PointsIssuedOnce, Issued, Bought
  <2> QED
    BY <1>0, <2>2, <2>3, IssuedType
<1> HIDE DEF seeded
<1>k. ASSUME \A l \in Lot : /\ lot'[l].quantity = lot[l].quantity
                            /\ balance'[l]["allocated"] = balance[l]["allocated"],
             \A o \in Order : order'[o].payment = order[o].payment
      PROVE  PointsIssuedOnce'
  <2>1. Issued' = Issued /\ Bought' = Bought
    BY <1>k, BoughtUnchanged, IssuedUnchanged
  <2> QED
    BY <1>t, <2>1
<1>1. CASE UNCHANGED <<lot, balance>> /\ \A o \in Order : order'[o].payment = order[o].payment
  BY <1>1, <1>k
<1>2. ASSUME NEW t \in Tenant, ExpireLots(t) PROVE PointsIssuedOnce'
  <2>1. \A l \in Lot : balance'[l]["allocated"] = balance[l]["allocated"]
    BY <1>0, <1>2, ExpiryBuckets, BucketNames DEF ExpireLots
  <2> QED
    BY <1>2, <1>k, <2>1 DEF ExpireLots
<1>3. ASSUME NEW r \in Reservation, NEW q \in 1..MaxHold, NEW x \in Time, Reserve(r, q, x)
      PROVE  PointsIssuedOnce'
  <2>1. \A l \in Lot : balance'[l]["allocated"] = balance[l]["allocated"]
    BY <1>0, <1>3, ReserveBuckets
  <2> QED
    BY <1>3, <1>k, <2>1 DEF Reserve
<1>4. ASSUME NEW r \in Reservation, NEW at \in Time, Consume(r, at) PROVE PointsIssuedOnce'
  <2>1. \A l \in Lot : balance'[l]["allocated"] = balance[l]["allocated"]
    BY <1>0, <1>4, ConsumeBuckets, BucketNames
  <2> QED
    BY <1>4, <1>k, <2>1 DEF Consume
<1>5. ASSUME NEW r \in Reservation, Release(r) PROVE PointsIssuedOnce'
  <2>1. \A l \in Lot : balance'[l]["allocated"] = balance[l]["allocated"]
    BY <1>0, <1>5, ReleaseBuckets
  <2> QED
    BY <1>5, <1>k, <2>1 DEF Release
<1>6. ASSUME NEW e \in Event, PaidEvent(e) PROVE PointsIssuedOnce'
  <2>0. e.order \in Order /\ e.ref \in Ref /\ PointsOf[e.order] \in Nat
    BY DEF EventType
  <2>1. CASE Paid(e.order)
    BY <1>6, <1>k, <2>1 DEF PaidEvent
  <2>2. CASE ~Paid(e.order)
    <3> DEFINE o == e.order
    <3>1. PICK l \in Lot : Grant(l, o)
      BY <1>6, <2>2 DEF PaidEvent
    <3>2. /\ order'[o].payment = e.ref
          /\ \A z \in Order \ {o} : order'[z].payment = order[z].payment
      BY <1>0, <1>6, <2>0, <2>2 DEF PaidEvent, TypeOK
    <3>3. /\ ~Exists(l) /\ lot'[l].quantity = PointsOf[o]
          /\ FreshRow(balance'[l], PointsOf[o])
          /\ \A k \in Lot \ {l} : lot'[k] = lot[k] /\ balance'[k] = balance[k]
      BY <1>0, <3>1 DEF Grant, TypeOK, FreshRow
    <3>4. Issued[l] = 0
      BY <3>3, NothingOfNoLot, BucketNames DEF Issued
    <3>5. Issued'[l] = PointsOf[o]
      BY <2>0, <3>3, EmptyBuckets DEF Issued
    <3>6. \A k \in Lot \ {l} : Issued[k] = Issued'[k]
      BY <3>3 DEF Issued
    <3>7. Bought[o] = 0 /\ Bought'[o] = PointsOf[o]
      BY <2>0, <2>2, <3>2 DEF Bought, Paid
    <3>8. \A z \in Order \ {o} : Bought[z] = Bought'[z]
      BY <3>2 DEF Bought, Paid
    <3> DEFINE f1 == Issued'
    <3> DEFINE b1 == Bought'
    <3>9. SumFunction(f1) = SumFunction(Issued) - 0 + PointsOf[o]
      <4>1. f1 \in [Lot -> Int] /\ f1[l] = PointsOf[o] /\ \A k \in Lot \ {l} : Issued[k] = f1[k]
        BY <1>t, <3>5, <3>6
      <4> HIDE DEF f1
      <4> QED
        BY <1>t, <3>4, <4>1, SumChanges, RowsAreFinite
    <3>10. SumFunction(b1) = SumFunction(Bought) - 0 + PointsOf[o]
      <4>1. b1 \in [Order -> Int] /\ b1[o] = PointsOf[o] /\ \A z \in Order \ {o} : Bought[z] = b1[z]
        BY <1>t, <3>7, <3>8
      <4>2. o \in Order
        BY <2>0
      <4> HIDE DEF b1, o
      <4> QED
        BY <1>t, <3>7, <4>1, <4>2, SumChanges, RowsAreFinite
    <3>11. SumFunction(Issued) \in Int /\ SumFunction(Bought) \in Int
      BY <1>t, SumType, RowsAreFinite
    <3>12. seeded \in Int
      <4>1. [s \in DOMAIN Seeded |-> Seeded[s].quantity] \in [DOMAIN Seeded -> Int]
        BY DEF SeedType
      <4> QED
        BY <4>1, SumType, RowsAreFinite DEF seeded
    <3> QED
      BY <1>t, <2>0, <3>9, <3>10, <3>11, <3>12
  <2> QED
    BY <2>1, <2>2
<1>7. ASSUME NEW o \in Order, NEW amount \in Nat, NEW chargeback, Refund(o, amount, chargeback)
      PROVE  PointsIssuedOnce'
  <2>1. ASSUME NEW l \in Lot PROVE balance'[l]["allocated"] = balance[l]["allocated"]
    BY <1>0, <1>7, RefundBuckets, BucketNames
  <2>2. \A z \in Order : order'[z].payment = order[z].payment
    <3>1. order \in [Order -> OrderRow]
      BY <1>0 DEF TypeOK, OrderRow
    <3>2. \/ order' = [order EXCEPT ![o].review = TRUE]
          \/ order' = [order EXCEPT ![o].status = StatusAfterRefund(o, amount), ![o].refunded = @ + amount]
      BY <1>7 DEF Refund
    <3> QED
      BY <3>1, <3>2 DEF OrderRow
  <2>3. lot' = lot
    BY <1>7 DEF Refund
  <2> QED
    BY <1>k, <2>1, <2>2, <2>3
<1>8. ASSUME NEW p \in Tenant, NEW c \in Tenant, NEW q \in 1..MaxHold, Allocate(p, c, q)
      PROVE  PointsIssuedOnce'
  <2>1. PICK take, copy : TransferEffect(p, c, q, take, copy)
    BY <1>0, <1>8, AllocateEffect
  <2> DEFINE f0 == Issued
  <2> DEFINE f1 == Issued'
  <2> DEFINE out == [l \in Lot |-> 0 - take[l]]
  <2> DEFINE in == [l \in Lot |-> f1[l] - f0[l] + take[l]]
  <2> DEFINE mid == [l \in Lot |-> f0[l] + out[l]]
  <2>2. take \in [Lot -> Nat] /\ take \in [Lot -> Int] /\ SumFunction(take) = q
    BY <2>1 DEF TransferEffect
  <2>3. f0 \in [Lot -> Int] /\ f1 \in [Lot -> Int]
    BY <1>t
  <2>4. /\ out \in [Lot -> Int] /\ mid \in [Lot -> Int] /\ in \in [Lot -> Int]
        /\ \A l \in Lot : f1[l] = mid[l] + in[l]
        /\ \A l \in Lot : mid[l] = f0[l] + out[l]
        /\ \A l \in Lot : 0 = take[l] + out[l]
    <3> HIDE DEF f0, f1
    <3> QED
      BY <2>2, <2>3
  <2>5. ASSUME NEW s \in Lot, take[s] > 0 PROVE in[copy[s]] = take[s]
    <3> DEFINE k == copy[s]
    <3>1. k \in Lot /\ ~Exists(k) /\ lot'[k].quantity = take[s] /\ FreshRow(balance'[k], take[s])
      <4>1. copy[s] \in Lot /\ ~Exists(copy[s])
        BY <2>1, <2>5 DEF TransferEffect
      <4>2. lot'[copy[s]] = [tenant |-> c, purpose |-> lot[s].purpose, order |-> None,
                             quantity |-> take[s], expires |-> lot[s].expires]
        BY <2>1, <2>5 DEF TransferEffect
      <4>3. FreshRow(balance'[copy[s]], take[s])
        <5>1. balance'[copy[s]] = [Empty EXCEPT !["available"] = take[s]]
          BY <2>1, <2>5 DEF TransferEffect
        <5> QED
          BY <5>1 DEF FreshRow
      <4> QED
        BY <4>1, <4>2, <4>3
    <3>2. take[s] \in Nat /\ take[k] = 0
      <4>1. take[k] > 0 => Exists(k)
        BY <2>1, <3>1 DEF TransferEffect, Unexpired, LotsOf
      <4> QED
        BY <2>2, <3>1, <4>1
    <3>3. f0[k] = 0
      BY <3>1, NothingOfNoLot, BucketNames DEF Issued
    <3>4. f1[k] = take[s]
      BY <3>1, <3>2, EmptyBuckets DEF Issued
    <3> HIDE DEF f0, f1, k
    <3>5. in[k] = take[s]
      BY <3>1, <3>2, <3>3, <3>4
    <3> QED
      BY <3>5 DEF k
  <2>6. ASSUME NEW l \in Lot, \A s \in Lot : take[s] > 0 => copy[s] # l PROVE in[l] = 0
    <3>1. lot'[l] = lot[l] /\ balance'[l]["allocated"] = balance[l]["allocated"] + take[l]
      BY <1>0, <2>1, <2>6, TransferBuckets
    <3>2. lot[l].quantity \in Nat /\ balance[l]["allocated"] \in Int /\ take[l] \in Nat
      BY <1>0, <2>2, BucketNames DEF TypeOK
    <3>3. f1[l] = f0[l] - take[l] /\ f0[l] \in Int
      BY <3>1, <3>2 DEF Issued
    <3> HIDE DEF f0, f1
    <3> QED
      BY <3>2, <3>3
  <2> HIDE DEF in, out, mid, f0, f1
  <2>7. SumFunction(in) = q
    BY <2>1, <2>4, <2>5, <2>6, TransferSum
  <2>8. SumFunction(f1) = SumFunction(mid) + SumFunction(in)
    BY <2>3, <2>4, SumAdds, RowsAreFinite
  <2>9. SumFunction(mid) = SumFunction(f0) + SumFunction(out)
    BY <2>3, <2>4, SumAdds, RowsAreFinite
  <2>10. 0 = SumFunction(take) + SumFunction(out)
    <3> DEFINE zero == [l \in Lot |-> 0]
    <3>1. zero \in [Lot -> Int] /\ \A l \in Lot : zero[l] = 0
      OBVIOUS
    <3>2. \A l \in Lot : zero[l] = take[l] + out[l]
      BY <2>4
    <3> HIDE DEF zero
    <3>3. SumFunction(zero) = SumFunction(take) + SumFunction(out)
      <4>1. /\ zero \in [Lot -> Int] /\ take \in [Lot -> Int] /\ out \in [Lot -> Int]
            /\ \A l \in Lot : zero[l] = take[l] + out[l]
        BY <2>2, <2>4, <3>1, <3>2
      <4> QED
        BY ONLY <4>1, SumAdds, RowsAreFinite
    <3> QED
      BY <3>1, <3>3, SumOfZeros, RowsAreFinite
  <2>11. SumFunction(f0) \in Int /\ SumFunction(out) \in Int /\ q \in Int
    BY <2>3, <2>4, SumType, RowsAreFinite
  <2>12. SumFunction(f1) = SumFunction(f0)
    BY <2>2, <2>7, <2>8, <2>9, <2>10, <2>11
  <2>13. Bought' = Bought
    BY <1>8, BoughtUnchanged DEF Allocate
  <2> QED
    BY <1>t, <2>12, <2>13 DEF f0, f1
<1>9. \A e \in Event : e.order \in Order /\ e.amount \in Nat
  BY DEF EventType
<1>10. 1..MaxHold \subseteq Nat
  OBVIOUS
<1>11. ASSUME Tick \/ (\E o \in Order : CreateOrder(o)) \/ (\E e \in Event : FailedEvent(e))
               \/ UNCHANGED vars
       PROVE  UNCHANGED <<lot, balance>> /\ \A o \in Order : order'[o].payment = order[o].payment
  <2>1. order \in [Order -> OrderRow]
    BY <1>0 DEF TypeOK, OrderRow
  <2>2. CASE Tick \/ UNCHANGED vars
    BY <2>2 DEF Tick, vars
  <2>3. ASSUME NEW o \in Order, CreateOrder(o)
        PROVE  UNCHANGED <<lot, balance>> /\ \A z \in Order : order'[z].payment = order[z].payment
    BY <2>1, <2>3 DEF CreateOrder, OrderRow
  <2>4. ASSUME NEW e \in Event, FailedEvent(e)
        PROVE  UNCHANGED <<lot, balance>> /\ \A z \in Order : order'[z].payment = order[z].payment
    BY <1>9, <2>1, <2>4 DEF FailedEvent, Failed, OrderRow
  <2> QED
    BY <1>11, <2>2, <2>3, <2>4
<1> QED
  BY <1>1, <1>2, <1>3, <1>4, <1>5, <1>6, <1>7, <1>8, <1>9, <1>10, <1>11
     DEF Next, RefundEvent, FinanceRefund

-----------------------------------------------------------------------------
(***************************************************************************)
(* Frozen wallets.  That a new lot reaches no frozen wallet needs that a   *)
(* row that does not exist belongs to nobody.                              *)
(***************************************************************************)
OwnedIfReal == \A l \in Lot : ~Exists(l) => lot[l].tenant = None

LEMMA InitOwned == Init => OwnedIfReal
<1> SUFFICES ASSUME Init, NEW l \in Lot, ~Exists(l) PROVE lot[l].tenant = None
  BY DEF OwnedIfReal
<1> USE WalletConstants
<1>1. PICK row \in Injection(DOMAIN Seeded, Lot) :
        LET seed(k) == CHOOSE s \in DOMAIN Seeded : row[s] = k IN
        lot = [k \in Lot |->
                 IF k \in Range(row)
                 THEN [tenant |-> Seeded[seed(k)].tenant, purpose |-> Seeded[seed(k)].purpose,
                       order |-> None, quantity |-> Seeded[seed(k)].quantity,
                       expires |-> Seeded[seed(k)].expires]
                 ELSE NoLot]
  BY DEF Init
<1> DEFINE seed == CHOOSE s \in DOMAIN Seeded : row[s] = l
<1>2. row \in [DOMAIN Seeded -> Lot]
  BY <1>1 DEF Injection
<1>3. CASE l \in Range(row)
  <2>1. seed \in DOMAIN Seeded
    BY <1>2, <1>3 DEF Range
  <2>2. Seeded[seed].quantity \in Nat /\ Seeded[seed].quantity > 0
    BY <2>1 DEF SeedType
  <2>3. lot[l].quantity = Seeded[seed].quantity
    BY <1>1, <1>3
  <2> HIDE DEF seed
  <2> QED
    BY <2>2, <2>3 DEF Exists
<1>4. CASE l \notin Range(row)
  BY <1>1, <1>4 DEF NoLot
<1> QED
  BY <1>3, <1>4

\* Rows of lots are written when points are granted or transferred.
LEMMA LotsChange ==
  ASSUME WalletInv, [Next]_vars, NEW l \in Lot
  PROVE  \/ lot'[l] = lot[l]
         \/ ~Exists(l) /\ Exists(l)' /\ lot'[l].order # None
         \/ \E p, c \in Tenant : /\ ~frozen[p] /\ ~frozen[c]
                                /\ ~Exists(l) /\ Exists(l)' /\ lot'[l].tenant = c
<1> USE WalletConstants
<1>0. TypeOK /\ HoldInv
  BY DEF WalletInv
<1>1. CASE UNCHANGED lot
  BY <1>1
<1>2. ASSUME NEW e \in Event, PaidEvent(e)
      PROVE  lot'[l] = lot[l] \/ (~Exists(l) /\ Exists(l)' /\ lot'[l].order # None)
  <2>1. CASE Paid(e.order)
    BY <1>2, <2>1 DEF PaidEvent
  <2>2. CASE ~Paid(e.order)
    <3>1. PICK k \in Lot : Grant(k, e.order)
      BY <1>2, <2>2 DEF PaidEvent
    <3>2. e.order \in Order /\ PointsOf[e.order] \in Nat \ {0}
      BY DEF EventType
    <3>3. CASE l # k
      BY <1>0, <3>1, <3>3 DEF Grant, TypeOK
    <3>4. CASE l = k
      <4>1. ~Exists(l) /\ lot'[l].quantity = PointsOf[e.order] /\ lot'[l].order = e.order
        BY <1>0, <3>1, <3>4 DEF Grant, TypeOK
      <4> QED
        BY <3>2, <4>1 DEF Exists
    <3> QED
      BY <3>3, <3>4
  <2> QED
    BY <2>1, <2>2
<1>3. ASSUME NEW p \in Tenant, NEW c \in Tenant, NEW q \in 1..MaxHold, Allocate(p, c, q)
      PROVE  \/ lot'[l] = lot[l]
             \/ ~frozen[p] /\ ~frozen[c] /\ ~Exists(l) /\ Exists(l)' /\ lot'[l].tenant = c
  <2>1. PICK take, copy : TransferEffect(p, c, q, take, copy)
    BY <1>0, <1>3, AllocateEffect
  <2>2. CASE \E s \in Lot : take[s] > 0 /\ copy[s] = l
    <3>1. PICK s \in Lot : take[s] > 0 /\ copy[s] = l
      BY <2>2
    <3>2. take[s] \in Nat
      BY <2>1 DEF TransferEffect
    <3>3. ~Exists(l) /\ lot'[l] = [tenant |-> c, purpose |-> lot[s].purpose, order |-> None,
                                  quantity |-> take[s], expires |-> lot[s].expires]
      BY <2>1, <3>1 DEF TransferEffect
    <3> QED
      BY <1>3, <3>1, <3>2, <3>3 DEF Exists, Allocate, MayTransfer
  <2>3. CASE \A s \in Lot : take[s] > 0 => copy[s] # l
    BY <2>1, <2>3 DEF TransferEffect
  <2> QED
    BY <2>2, <2>3
<1> QED
  BY <1>1, <1>2, <1>3
     DEF Next, vars, Tick, ExpireLots, Reserve, Consume, Release, CreateOrder, FailedEvent, RefundEvent,
         FinanceRefund, Refund

LEMMA OwnedStep == WalletInv /\ OwnedIfReal /\ [Next]_vars => OwnedIfReal'
<1> SUFFICES ASSUME WalletInv, OwnedIfReal, [Next]_vars, NEW l \in Lot, ~Exists(l)'
             PROVE  lot'[l].tenant = None
  BY DEF OwnedIfReal
<1>1. lot'[l] = lot[l]
  BY LotsChange
<1> QED
  BY <1>1 DEF OwnedIfReal, Exists

\* What a step may do to the buckets that spending fills.
LEMMA SpendingStep ==
  ASSUME WalletInv, [Next]_vars, NEW l \in Lot, Exists(l), lot[l].tenant \in Tenant,
         frozen[lot[l].tenant]
  PROVE  /\ balance'[l]["reserved"] <= balance[l]["reserved"]
         /\ balance'[l]["allocated"] = balance[l]["allocated"]
<1> USE WalletConstants
<1> DEFINE Kept == /\ balance'[l]["reserved"] <= balance[l]["reserved"]
                   /\ balance'[l]["allocated"] = balance[l]["allocated"]
<1>0. TypeOK /\ HoldInv /\ balance[l]["reserved"] \in Int /\ balance[l]["allocated"] \in Int
  BY BucketNames DEF WalletInv, TypeOK
<1>1. ASSUME UNCHANGED balance PROVE Kept
  BY <1>0, <1>1
<1>2. ASSUME NEW t \in Tenant, ExpireLots(t)
      PROVE  Kept
  <2>1. balance'[l]["reserved"] = balance[l]["reserved"] /\ balance'[l]["allocated"] = balance[l]["allocated"]
    BY <1>0, <1>2, ExpiryBuckets, BucketNames DEF ExpireLots
  <2> QED
    BY <1>0, <2>1
<1>3. ASSUME NEW r \in Reservation, NEW q \in 1..MaxHold, NEW x \in Time, Reserve(r, q, x)
      PROVE  Kept
  <2>1. ~frozen[TenantOf[r]]
    BY <1>3 DEF Reserve, MayHold
  <2>2. l \notin Usable(r, x)
    BY <2>1 DEF Usable, LotsOf
  <2>3. taken'[r][l] \in Nat /\ ~(taken'[r][l] > 0)
    BY <1>0, <1>3, <2>2, ReserveBuckets
  <2>4. /\ balance'[l]["reserved"] = balance[l]["reserved"] + taken'[r][l]
        /\ balance'[l]["allocated"] = balance[l]["allocated"]
    BY <1>0, <1>3, ReserveBuckets
  <2> QED
    BY <1>0, <2>3, <2>4
<1>4. ASSUME NEW r \in Reservation, NEW at \in Time, Consume(r, at)
      PROVE  Kept
  <2>1. taken[r][l] \in Nat
    BY <1>0 DEF TypeOK
  <2>2. balance'[l]["reserved"] = balance[l]["reserved"] - taken[r][l]
    BY <1>0, <1>4, ConsumeBuckets
  <2>3. balance'[l]["allocated"] = balance[l]["allocated"]
    BY <1>0, <1>4, ConsumeBuckets, BucketNames
  <2> QED
    BY <1>0, <2>1, <2>2, <2>3
<1>5. ASSUME NEW r \in Reservation, Release(r)
      PROVE  Kept
  <2>1. taken[r][l] \in Nat
    BY <1>0 DEF TypeOK
  <2>2. balance'[l]["reserved"] = balance[l]["reserved"] - taken[r][l]
    BY <1>0, <1>5, ReleaseBuckets
  <2>3. balance'[l]["allocated"] = balance[l]["allocated"]
    BY <1>0, <1>5, ReleaseBuckets
  <2> QED
    BY <1>0, <2>1, <2>2, <2>3
<1>6. ASSUME NEW e \in Event, PaidEvent(e) PROVE Kept
  <2>1. balance'[l] = balance[l]
    BY <1>0, <1>6, PaidBuckets
  <2> QED
    BY <1>0, <2>1
<1>7. ASSUME NEW o \in Order, NEW amount \in Nat, NEW chargeback, Refund(o, amount, chargeback)
      PROVE  Kept
  <2>1. balance'[l]["reserved"] = balance[l]["reserved"] /\ balance'[l]["allocated"] = balance[l]["allocated"]
    BY <1>0, <1>7, RefundBuckets, BucketNames
  <2> QED
    BY <1>0, <2>1
<1>8. ASSUME NEW p \in Tenant, NEW c \in Tenant, NEW q \in 1..MaxHold, Allocate(p, c, q)
      PROVE  Kept
  <2>1. PICK take, copy : TransferEffect(p, c, q, take, copy)
    BY <1>0, <1>8, AllocateEffect
  <2>2. ~frozen[p]
    BY <1>8 DEF Allocate, MayTransfer
  <2>3. take[l] \in Nat /\ ~(take[l] > 0)
    <3>1. take \in [Lot -> Nat] /\ (take[l] > 0 => l \in Unexpired(p))
      BY <2>1 DEF TransferEffect
    <3>2. l \notin Unexpired(p)
      BY <2>2 DEF Unexpired, LotsOf
    <3> QED
      BY <3>1, <3>2
  <2>4. /\ balance'[l]["allocated"] = balance[l]["allocated"] + take[l]
        /\ \A b \in Bucket \ {"available", "allocated"} : balance'[l][b] = balance[l][b]
    BY <1>0, <2>1, TransferBuckets
  <2> QED
    BY <1>0, <2>3, <2>4, BucketNames
<1>9. \A e \in Event : e.order \in Order /\ e.amount \in Nat
  BY DEF EventType
<1>10. 1..MaxHold \subseteq Nat
  OBVIOUS
<1> HIDE DEF Kept
<1>11. Tick \/ (\E o \in Order : CreateOrder(o)) \/ (\E e \in Event : FailedEvent(e)) \/ UNCHANGED vars
         => UNCHANGED balance
  BY DEF vars, Tick, CreateOrder, FailedEvent
<1>12. ASSUME NEW e \in Event, RefundEvent(e) PROVE Kept
  BY <1>7, <1>9, <1>12 DEF RefundEvent
<1>13. ASSUME NEW o \in Order, NEW q \in 1..MaxHold, FinanceRefund(o, q) PROVE Kept
  BY <1>7, <1>10, <1>13 DEF FinanceRefund
<1>14. Kept
  BY <1>1, <1>2, <1>3, <1>4, <1>5, <1>6, <1>8, <1>11, <1>12, <1>13 DEF Next
<1> QED
  BY <1>14 DEF Kept

LEMMA FrozenForever == TypeOK /\ [Next]_vars => \A t \in Tenant : frozen[t] => frozen'[t]
<1> SUFFICES ASSUME TypeOK, [Next]_vars, NEW t \in Tenant, frozen[t] PROVE frozen'[t]
  OBVIOUS
<1>1. CASE UNCHANGED frozen
  BY <1>1
<1>2. ASSUME NEW o, NEW amount, NEW chargeback, Refund(o, amount, chargeback) PROVE frozen'[t]
  <2>1. frozen' = [frozen EXCEPT ![TenantOf[o]] = TRUE] \/ frozen' = frozen
    BY <1>2 DEF Refund
  <2>2. frozen \in [Tenant -> BOOLEAN]
    BY DEF TypeOK
  <2> QED
    BY <2>1, <2>2
<1> QED
  BY <1>1, <1>2
     DEF Next, vars, Tick, ExpireLots, Reserve, Consume, Release, CreateOrder, PaidEvent, FailedEvent,
         RefundEvent, FinanceRefund, Allocate

(* No step of the wallets loses, copies or duplicates a point, and a frozen *)
(* wallet neither sends nor receives: TransfersMovePoints, for every set    *)
(* of lots, orders and tenants.                                             *)
THEOREM PointsAreMoved == Spec => TransfersMovePoints
<1> DEFINE Inv == WalletInv /\ PointsIssuedOnce /\ OwnedIfReal
<1>1. Init => PointsIssuedOnce /\ OwnedIfReal
  BY InitIssued, InitOwned
<1>2. /\ WalletInv /\ WalletInv' /\ PointsIssuedOnce /\ OwnedIfReal /\ [Next]_vars
      => PointsIssuedOnce' /\ OwnedIfReal'
  BY IssuedStep, OwnedStep
<1>3. WalletInv /\ OwnedIfReal /\ [Next]_vars
      => [\A t \in Tenant : frozen[t] =>
            /\ frozen'[t]
            /\ \A l \in LotsOf(t) :
                 /\ balance'[l]["reserved"] <= balance[l]["reserved"]
                 /\ balance'[l]["allocated"] = balance[l]["allocated"]
            /\ \A l \in Lot : ~Exists(l) /\ lot'[l].tenant = t => lot'[l].order # None]_vars
  <2> SUFFICES ASSUME WalletInv, OwnedIfReal, [Next]_vars, NEW t \in Tenant, frozen[t]
               PROVE  /\ frozen'[t]
                      /\ \A l \in LotsOf(t) :
                           /\ balance'[l]["reserved"] <= balance[l]["reserved"]
                           /\ balance'[l]["allocated"] = balance[l]["allocated"]
                      /\ \A l \in Lot : ~Exists(l) /\ lot'[l].tenant = t => lot'[l].order # None
    OBVIOUS
  <2>1. frozen'[t]
    BY FrozenForever DEF WalletInv
  <2>2. \A l \in LotsOf(t) :
          /\ balance'[l]["reserved"] <= balance[l]["reserved"]
          /\ balance'[l]["allocated"] = balance[l]["allocated"]
    BY SpendingStep DEF LotsOf
  <2>3. ASSUME NEW l \in Lot, ~Exists(l), lot'[l].tenant = t PROVE lot'[l].order # None
    <3>1. lot[l].tenant = None /\ None \notin Tenant
      BY <2>3, WalletConstants DEF OwnedIfReal
    <3> QED
      BY <2>3, <3>1, LotsChange
  <2> QED
    BY <2>1, <2>2, <2>3
<1> QED
  BY <1>1, <1>2, <1>3, WalletInvHolds, PTL DEF Spec, TransfersMovePoints, FrozenStopsSpending

-----------------------------------------------------------------------------
(***************************************************************************)
(* The wallets implement PointCustody.                                     *)
(***************************************************************************)
Column(b) == [l \in Lot |-> balance[l][b]]

LEMMA ColumnType ==
  ASSUME TypeOK, NEW b \in Bucket
  PROVE  Column(b) \in [Lot -> Int] /\ InBucket(b) = SumFunction(Column(b)) /\ InBucket(b) \in Int
<1>1. Column(b) \in [Lot -> Int]
  BY DEF TypeOK, Column
<1>2. InBucket(b) = SumFunction(Column(b))
  BY DEF InBucket, Column
<1> QED
  BY <1>1, <1>2, SumType, RowsAreFinite

LEMMA ColumnTypeNext ==
  ASSUME TypeOK', NEW b \in Bucket
  PROVE  /\ Column(b)' \in [Lot -> Int] /\ InBucket(b)' = SumFunction(Column(b)')
         /\ InBucket(b)' \in Int
<1> DEFINE f == Column(b)'
<1>1. f \in [Lot -> Int]
  BY DEF TypeOK, Column
<1>2. InBucket(b)' = SumFunction(f)
  BY DEF InBucket, Column
<1> HIDE DEF f
<1>3. InBucket(b)' \in Int
  BY <1>1, <1>2, SumType, RowsAreFinite
<1> QED
  BY <1>1, <1>2, <1>3 DEF f

\* What flows into a bucket of each lot flows into the bucket of all lots.
LEMMA ColumnFlow ==
  ASSUME TypeOK, TypeOK', NEW b \in Bucket, NEW d \in [Lot -> Int],
         \A l \in Lot : balance'[l][b] = balance[l][b] + d[l]
  PROVE  InBucket(b)' = InBucket(b) + SumFunction(d)
<1> DEFINE f == Column(b)
<1> DEFINE g == Column(b)'
<1>1. /\ f \in [Lot -> Int] /\ InBucket(b) = SumFunction(f)
      /\ g \in [Lot -> Int] /\ InBucket(b)' = SumFunction(g)
  BY ColumnType, ColumnTypeNext
<1>2. \A l \in Lot : g[l] = f[l] + d[l]
  BY DEF Column
<1> HIDE DEF f, g
<1>3. SumFunction(g) = SumFunction(f) + SumFunction(d)
  BY <1>1, <1>2, SumAdds, RowsAreFinite
<1> QED
  BY <1>1, <1>3

LEMMA ColumnKept ==
  ASSUME TypeOK, TypeOK', NEW b \in Bucket, \A l \in Lot : balance'[l][b] = balance[l][b]
  PROVE  InBucket(b)' = InBucket(b)
BY DEF InBucket

LEMMA ColumnGrows ==
  ASSUME TypeOK, TypeOK', NEW b \in Bucket, \A l \in Lot : balance'[l][b] >= balance[l][b]
  PROVE  /\ InBucket(b)' >= InBucket(b)
         /\ (\E l \in Lot : balance'[l][b] > balance[l][b]) => InBucket(b)' > InBucket(b)
<1> DEFINE d == [l \in Lot |-> balance'[l][b] - balance[l][b]]
<1>1. \A l \in Lot : balance'[l][b] \in Int /\ balance[l][b] \in Int
  BY DEF TypeOK
<1>2. /\ d \in [Lot -> Nat] /\ d \in [Lot -> Int]
      /\ \A l \in Lot : balance'[l][b] = balance[l][b] + d[l]
      /\ \A l \in Lot : balance'[l][b] > balance[l][b] => d[l] > 0
  BY <1>1
<1> HIDE DEF d
<1>3. InBucket(b)' = InBucket(b) + SumFunction(d)
  BY <1>2, ColumnFlow
<1>4. SumFunction(d) \in Nat /\ \A l \in Lot : d[l] <= SumFunction(d)
  BY <1>2, SumCovers, RowsAreFinite
<1>5. InBucket(b) \in Int
  BY ColumnType
<1>6. (\E l \in Lot : balance'[l][b] > balance[l][b]) => SumFunction(d) > 0
  BY <1>2, <1>4
<1> QED
  BY <1>3, <1>4, <1>5, <1>6

\* Points that leave or reach two buckets together.
LEMMA PairFlow ==
  ASSUME TypeOK, TypeOK', NEW b \in Bucket, NEW c \in Bucket, NEW in \in [Lot -> Int],
         \A l \in Lot : balance'[l][b] + balance'[l][c] = balance[l][b] + balance[l][c] + in[l]
  PROVE  InBucket(b)' + InBucket(c)' = InBucket(b) + InBucket(c) + SumFunction(in)
<1> DEFINE d == [l \in Lot |-> balance'[l][b] - balance[l][b]]
<1> DEFINE e == [l \in Lot |-> balance'[l][c] - balance[l][c]]
<1>1. \A l \in Lot : /\ balance'[l][b] \in Int /\ balance[l][b] \in Int
                     /\ balance'[l][c] \in Int /\ balance[l][c] \in Int /\ in[l] \in Int
  BY DEF TypeOK
<1>2. /\ d \in [Lot -> Int] /\ e \in [Lot -> Int]
      /\ \A l \in Lot : balance'[l][b] = balance[l][b] + d[l]
      /\ \A l \in Lot : balance'[l][c] = balance[l][c] + e[l]
  BY <1>1
<1> HIDE DEF d, e
<1>3. ASSUME NEW l \in Lot PROVE in[l] = d[l] + e[l]
  <2>1. /\ balance'[l][b] = balance[l][b] + d[l] /\ balance'[l][c] = balance[l][c] + e[l]
        /\ balance'[l][b] + balance'[l][c] = balance[l][b] + balance[l][c] + in[l]
        /\ d[l] \in Int /\ e[l] \in Int /\ in[l] \in Int
        /\ balance[l][b] \in Int /\ balance[l][c] \in Int
    BY <1>1, <1>2
  <2> DEFINE b0 == balance[l][b]
  <2> DEFINE c0 == balance[l][c]
  <2> DEFINE b1 == balance'[l][b]
  <2> DEFINE c1 == balance'[l][c]
  <2> DEFINE x == in[l]
  <2> DEFINE y == d[l]
  <2> DEFINE z == e[l]
  <2>2. /\ b1 = b0 + y /\ c1 = c0 + z /\ b1 + c1 = b0 + c0 + x
        /\ b0 \in Int /\ c0 \in Int /\ x \in Int /\ y \in Int /\ z \in Int
    BY <2>1
  <2> HIDE DEF b0, c0, b1, c1, x, y, z
  <2>3. x = y + z
    BY <2>2
  <2> QED
    BY <2>3 DEF x, y, z
<1>4. InBucket(b)' = InBucket(b) + SumFunction(d)
  BY <1>2, ColumnFlow
<1>5. InBucket(c)' = InBucket(c) + SumFunction(e)
  BY <1>2, ColumnFlow
<1>6. SumFunction(in) = SumFunction(d) + SumFunction(e)
  BY <1>2, <1>3, SumAdds, RowsAreFinite
<1>7. InBucket(b) \in Int /\ InBucket(c) \in Int /\ SumFunction(d) \in Int /\ SumFunction(e) \in Int
  BY <1>2, ColumnType, SumType, RowsAreFinite
<1> QED
  BY <1>4, <1>5, <1>6, <1>7

LEMMA InitCustody == Init => Custody!Init
<1> SUFFICES ASSUME Init PROVE Custody!Init
  OBVIOUS
<1>1. TypeOK /\ WalletInv
  BY InitType, InitLedger, InitHolds, InitMoney DEF WalletInv
<1>2. ASSUME NEW l \in Lot, NEW b \in Bucket \ {"available"} PROVE balance[l][b] = 0
  <2>1. PICK row \in Injection(DOMAIN Seeded, Lot) :
          LET seed(k) == CHOOSE s \in DOMAIN Seeded : row[s] = k IN
          balance = [k \in Lot |->
                       IF k \in Range(row)
                       THEN [Empty EXCEPT !["available"] = Seeded[seed(k)].quantity]
                       ELSE Empty]
    BY DEF Init
  <2> DEFINE seed == CHOOSE s \in DOMAIN Seeded : row[s] = l
  <2>2. balance[l] = Empty \/ balance[l] = [Empty EXCEPT !["available"] = Seeded[seed].quantity]
    BY <2>1
  <2> HIDE DEF seed
  <2> QED
    BY <2>2 DEF Empty
<1>3. ASSUME NEW b \in Bucket \ {"available"} PROVE InBucket(b) = 0
  <2> DEFINE f == Column(b)
  <2>1. f \in [Lot -> Int] /\ InBucket(b) = SumFunction(f)
    BY <1>1, ColumnType
  <2>2. \A l \in Lot : f[l] = 0
    BY <1>2 DEF Column
  <2> HIDE DEF f
  <2> QED
    BY <2>1, <2>2, SumOfZeros, RowsAreFinite
<1>4. InBucket("available") \in Nat
  <2> DEFINE f == Column("available")
  <2>1. f \in [Lot -> Int] /\ InBucket("available") = SumFunction(f)
    BY <1>1, ColumnType, BucketNames
  <2>2. \A l \in Lot : f[l] >= 0
    BY <1>1, HoldInvGives, BucketNames DEF Column, WalletInv, HoldsCovered, NeverOverdrawn
  <2>3. f \in [Lot -> Nat]
    BY <2>1, <2>2
  <2> HIDE DEF f
  <2> QED
    BY <2>1, <2>3, SumCovers, RowsAreFinite
<1>5. InBucket("consumed") = 0 /\ InBucket("expired") = 0 /\ InBucket("refunded") = 0
  BY <1>3, BucketNames
<1>6. \A r \in Reservation : hold[r].status = "none"
  BY DEF Init, NoHold
<1> QED
  BY <1>4, <1>5, <1>6 DEF Custody!Init, HolderState

Refines == [Custody!Next]_(Custody!custody)

Quantities == [r \in Reservation |-> IF hold[r].status = "reserved" THEN hold[r].quantity ELSE 0]
States == [r \in Reservation |-> HolderState[hold[r].status]]

\* A step that changes one hold changes one holder.
LEMMA HolderChanges ==
  ASSUME TypeOK, TypeOK', NEW r \in Reservation, \A z \in Reservation \ {r} : hold'[z] = hold[z]
  PROVE  /\ Quantities' = [Quantities EXCEPT ![r] =
                             IF hold'[r].status = "reserved" THEN hold'[r].quantity ELSE 0]
         /\ States' = [States EXCEPT ![r] = HolderState[hold'[r].status]]
<1>1. Quantities' = [Quantities EXCEPT ![r] =
                       IF hold'[r].status = "reserved" THEN hold'[r].quantity ELSE 0]
  BY DEF Quantities
<1>2. States' = [States EXCEPT ![r] = HolderState[hold'[r].status]]
  BY DEF States
<1> QED
  BY <1>1, <1>2

LEMMA CustodyStutters ==
  ASSUME hold' = hold,
         \A b \in {"available", "consumed", "expired", "refunded"} : InBucket(b)' = InBucket(b)
  PROVE  Refines
BY DEF Refines, Custody!custody

\* Retiring points: what available loses, expired or refunded gains.
LEMMA CustodyRetires ==
  ASSUME TypeOK, TypeOK', hold' = hold, NEW b \in {"expired", "refunded"},
         \A x \in {"consumed", "expired", "refunded"} \ {b} : InBucket(x)' = InBucket(x),
         \A l \in Lot : /\ balance'[l]["available"] + balance'[l][b]
                            = balance[l]["available"] + balance[l][b]
                        /\ balance'[l][b] >= balance[l][b],
         \E l \in Lot : balance'[l][b] > balance[l][b]
  PROVE  Refines
<1> DEFINE zero == [l \in Lot |-> 0]
<1>1. zero \in [Lot -> Int] /\ \A l \in Lot : zero[l] = 0
  OBVIOUS
<1>2. \A l \in Lot : balance'[l]["available"] + balance'[l][b]
                     = balance[l]["available"] + balance[l][b] + zero[l]
  BY BucketNames DEF TypeOK
<1> HIDE DEF zero
<1>3. SumFunction(zero) = 0
  BY <1>1, SumOfZeros, RowsAreFinite
<1>4. b \in Bucket /\ "available" \in Bucket
  BY BucketNames
<1>5. InBucket("available")' + InBucket(b)' = InBucket("available") + InBucket(b) + SumFunction(zero)
  BY <1>1, <1>2, <1>4, PairFlow
<1>6. InBucket(b)' > InBucket(b)
  BY <1>4, ColumnGrows
<1>7. \A x \in Bucket : InBucket(x) \in Int /\ InBucket(x)' \in Int
  BY ColumnType, ColumnTypeNext
<1>8. Custody!Retire
  <2>1. /\ InBucket("expired") + InBucket("refunded") < InBucket("expired")' + InBucket("refunded")'
        /\ InBucket("available")' + (InBucket("expired")' + InBucket("refunded")')
              = InBucket("available") + (InBucket("expired") + InBucket("refunded"))
    <3>1. \A x \in {"available", "expired", "refunded"} : InBucket(x) \in Int /\ InBucket(x)' \in Int
      BY <1>7, BucketNames
    <3>2. CASE b = "expired"
      <4>1. /\ InBucket("available")' + InBucket("expired")' = InBucket("available") + InBucket("expired") + 0
            /\ InBucket("expired")' > InBucket("expired") /\ InBucket("refunded")' = InBucket("refunded")
        BY <1>3, <1>5, <1>6, <3>2
      <4> QED
        BY <3>1, <4>1
    <3>3. CASE b = "refunded"
      <4>1. /\ InBucket("available")' + InBucket("refunded")' = InBucket("available") + InBucket("refunded") + 0
            /\ InBucket("refunded")' > InBucket("refunded") /\ InBucket("expired")' = InBucket("expired")
        BY <1>3, <1>5, <1>6, <3>3
      <4> QED
        BY <3>1, <4>1
    <3> QED
      BY <3>2, <3>3
  <2>2. InBucket("consumed")' = InBucket("consumed")
    OBVIOUS
  <2>3. InBucket("expired")' + InBucket("refunded")' > InBucket("expired") + InBucket("refunded")
    <3>1. \A x \in {"expired", "refunded"} : InBucket(x) \in Int /\ InBucket(x)' \in Int
      BY <1>7, BucketNames
    <3> QED
      BY <2>1, <3>1
  <2> QED
    BY <2>1, <2>2, <2>3 DEF Custody!Retire
<1> QED
  BY <1>8 DEF Refines, Custody!Next

LEMMA HoldRefines ==
  ASSUME WalletInv, WalletInv', NEW r \in Reservation, NEW q \in 1..MaxHold, NEW x \in Time,
         Reserve(r, q, x)
  PROVE  Refines
<1> USE WalletConstants
<1>0. /\ TypeOK /\ TypeOK' /\ HoldInv /\ q \in Nat /\ q > 0
      /\ \A l \in Lot, b \in Bucket : balance[l][b] \in Int /\ balance'[l][b] \in Int
  BY DEF WalletInv, TypeOK
<1>1. /\ hold' = [hold EXCEPT ![r] = [status |-> "reserved", quantity |-> q, expires |-> x]]
      /\ hold[r].status = "none"
  BY DEF Reserve
<1> DEFINE take == taken'[r]
<1> DEFINE out == [l \in Lot |-> 0 - take[l]]
<1>2. take \in [Lot -> Nat] /\ take \in [Lot -> Int]
  BY <1>0 DEF TypeOK
<1>3. SumFunction(take) = q
  <2>1. hold'[r].status # "none" /\ hold'[r].quantity = q
    BY <1>0, <1>1 DEF TypeOK
  <2> QED
    BY <2>1 DEF WalletInv, HoldInv, Took
<1> DEFINE swept == AfterExpiry(TenantOf[r])
<1>4. \A l \in Lot :
        /\ swept[l]["available"] + swept[l]["expired"] = balance[l]["available"] + balance[l]["expired"]
        /\ swept[l]["available"] <= balance[l]["available"]
        /\ swept[l]["available"] \in Int /\ swept[l]["expired"] \in Int
  <2>1. TenantOf[r] \in Tenant
    OBVIOUS
  <2> QED
    BY <1>0, <2>1, ExpiryBuckets, ExpiryBalance, BucketNames DEF Balance
<1>5. \A l \in Lot :
        /\ balance'[l]["available"] = swept[l]["available"] - take[l]
        /\ balance'[l]["expired"] = swept[l]["expired"]
        /\ \A b \in {"consumed", "refunded"} : balance'[l][b] = balance[l][b]
        /\ take[l] <= swept[l]["available"] \/ take[l] = 0
  BY <1>0, ReserveBuckets
<1> HIDE DEF take, swept
<1>6. /\ out \in [Lot -> Int]
      /\ \A l \in Lot : 0 = take[l] + out[l]
      /\ \A l \in Lot : out[l] = 0 - take[l]
  BY <1>2
<1> HIDE DEF out
<1>7. ASSUME NEW l \in Lot
      PROVE  /\ balance'[l]["available"] + balance'[l]["expired"]
                  = balance[l]["available"] + balance[l]["expired"] + out[l]
             /\ balance'[l]["expired"] >= balance[l]["expired"]
             /\ take[l] <= balance[l]["available"]
  <2>1. balance[l]["available"] >= 0
    BY HoldInvGives, BucketNames DEF WalletInv, HoldsCovered, NeverOverdrawn
  <2>2. /\ balance[l]["available"] \in Int /\ balance[l]["expired"] \in Int
        /\ take[l] \in Nat /\ out[l] = 0 - take[l]
    BY <1>0, <1>2, <1>6, BucketNames
  <2> QED
    BY <1>4, <1>5, <2>1, <2>2
<1>8. InBucket("available")' + InBucket("expired")'
        = InBucket("available") + InBucket("expired") + SumFunction(out)
  BY <1>0, <1>6, <1>7, PairFlow, BucketNames
<1>9. InBucket("expired")' >= InBucket("expired")
  BY <1>0, <1>7, ColumnGrows, BucketNames
<1>10. InBucket("consumed")' = InBucket("consumed") /\ InBucket("refunded")' = InBucket("refunded")
  BY <1>0, <1>5, ColumnKept, BucketNames
<1>11. SumFunction(out) = 0 - q
  <2> DEFINE zero == [l \in Lot |-> 0]
  <2>1. zero \in [Lot -> Int] /\ \A l \in Lot : zero[l] = 0
    OBVIOUS
  <2> HIDE DEF zero
  <2>2. /\ zero \in [Lot -> Int] /\ take \in [Lot -> Int] /\ out \in [Lot -> Int]
        /\ \A l \in Lot : zero[l] = take[l] + out[l]
    BY <1>2, <1>6, <2>1
  <2>3. SumFunction(zero) = SumFunction(take) + SumFunction(out)
    BY ONLY <2>2, SumAdds, RowsAreFinite
  <2>4. SumFunction(zero) = 0 /\ SumFunction(out) \in Int
    BY <1>6, <2>1, SumOfZeros, SumType, RowsAreFinite
  <2> QED
    BY <1>0, <1>3, <2>3, <2>4
<1>12. q <= InBucket("available")
  <2> DEFINE f == Column("available")
  <2>1. f \in [Lot -> Int] /\ InBucket("available") = SumFunction(f) /\ \A l \in Lot : f[l] = balance[l]["available"]
    BY <1>0, ColumnType, BucketNames DEF Column
  <2>2. \A l \in Lot : take[l] <= f[l]
    BY <1>7, <2>1
  <2> HIDE DEF f
  <2>3. SumFunction(take) <= SumFunction(f)
    BY <1>2, <2>1, <2>2, SumGrows, RowsAreFinite
  <2> QED
    BY <1>3, <2>1, <2>3
<1>13. \A b \in Bucket : InBucket(b) \in Int /\ InBucket(b)' \in Int
  BY <1>0, ColumnType, ColumnTypeNext
<1>14. Custody!Hold(r)
  <2>1. Quantities' = [Quantities EXCEPT ![r] = q] /\ States' = [States EXCEPT ![r] = "held"]
    <3>1. /\ \A z \in Reservation \ {r} : hold'[z] = hold[z]
          /\ hold'[r].status = "reserved" /\ hold'[r].quantity = q
      BY <1>0, <1>1 DEF TypeOK
    <3> QED
      BY <1>0, <3>1, HolderChanges DEF HolderState
  <2>0. States[r] = "idle"
    BY <1>1 DEF States, HolderState
  <2>2. q \in 1..InBucket("available")
    BY <1>0, <1>12, <1>13, BucketNames
  <2>3. /\ InBucket("available")' + (InBucket("expired")' + InBucket("refunded")') + q
              = InBucket("available") + (InBucket("expired") + InBucket("refunded"))
        /\ InBucket("expired")' + InBucket("refunded")' >= InBucket("expired") + InBucket("refunded")
    <3>1. \A b \in {"available", "expired", "refunded"} : InBucket(b) \in Int /\ InBucket(b)' \in Int
      BY <1>13, BucketNames
    <3> QED
      BY <1>0, <1>8, <1>9, <1>10, <1>11, <3>1
  <2> QED
    BY <1>10, <2>0, <2>1, <2>2, <2>3 DEF Custody!Hold, Quantities, States
<1> QED
  BY <1>14 DEF Refines, Custody!Next

LEMMA SpendRefines ==
  ASSUME WalletInv, WalletInv', NEW r \in Reservation, NEW at \in Time, Consume(r, at)
  PROVE  Refines
<1>0. TypeOK /\ TypeOK' /\ HoldInv
  BY DEF WalletInv
<1>1. /\ hold' = [hold EXCEPT ![r].status = "consumed"]
      /\ hold[r].status = "reserved"
  BY DEF Consume, Open
<1> DEFINE take == taken[r]
<1>2. take \in [Lot -> Int] /\ SumFunction(take) = hold[r].quantity
  BY <1>0, <1>1 DEF TypeOK, HoldInv, Took
<1>3. \A l \in Lot :
        /\ balance'[l]["consumed"] = balance[l]["consumed"] + take[l]
        /\ \A b \in Bucket \ {"reserved", "consumed"} : balance'[l][b] = balance[l][b]
  BY <1>0, ConsumeBuckets
<1> HIDE DEF take
<1>4. InBucket("consumed")' = InBucket("consumed") + SumFunction(take)
  BY <1>0, <1>2, <1>3, ColumnFlow, BucketNames
<1>5. ASSUME NEW b \in {"available", "expired", "refunded"} PROVE InBucket(b)' = InBucket(b)
  <2>1. b \in Bucket /\ \A l \in Lot : balance'[l][b] = balance[l][b]
    BY <1>3, BucketNames
  <2> QED
    BY <1>0, <2>1, ColumnKept
<1>6. Quantities' = [Quantities EXCEPT ![r] = 0] /\ States' = [States EXCEPT ![r] = "spent"]
  <2>1. (\A z \in Reservation \ {r} : hold'[z] = hold[z]) /\ hold'[r].status = "consumed"
    BY <1>0, <1>1 DEF TypeOK
  <2> QED
    BY <1>0, <2>1, HolderChanges DEF HolderState
<1>7. States[r] = "held" /\ Quantities[r] = hold[r].quantity
  BY <1>1 DEF States, Quantities, HolderState
<1>8. Custody!Spend(r)
  BY <1>2, <1>4, <1>5, <1>6, <1>7 DEF Custody!Spend, Quantities, States
<1> QED
  BY <1>8 DEF Refines, Custody!Next

LEMMA ReturnRefines ==
  ASSUME WalletInv, WalletInv', NEW r \in Reservation, Release(r)
  PROVE  Refines
<1>0. TypeOK /\ TypeOK' /\ HoldInv
  BY DEF WalletInv
<1>1. /\ hold' = [hold EXCEPT ![r].status = "released"]
      /\ hold[r].status = "reserved"
  BY DEF Release, Open
<1> DEFINE take == taken[r]
<1>2. take \in [Lot -> Int] /\ SumFunction(take) = hold[r].quantity
  BY <1>0, <1>1 DEF TypeOK, HoldInv, Took
<1>3. \A l \in Lot :
        /\ balance'[l]["available"] + balance'[l]["expired"]
              = balance[l]["available"] + balance[l]["expired"] + take[l]
        /\ balance'[l]["available"] >= balance[l]["available"]
        /\ balance'[l]["expired"] >= balance[l]["expired"]
        /\ \A b \in {"consumed", "refunded", "allocated"} : balance'[l][b] = balance[l][b]
  BY <1>0, ReleaseBuckets
<1> HIDE DEF take
<1>4. InBucket("available")' + InBucket("expired")'
        = InBucket("available") + InBucket("expired") + SumFunction(take)
  BY <1>0, <1>2, <1>3, PairFlow, BucketNames
<1>5. InBucket("available")' >= InBucket("available") /\ InBucket("expired")' >= InBucket("expired")
  <2>1. \A b \in {"available", "expired"} : b \in Bucket /\ \A l \in Lot : balance'[l][b] >= balance[l][b]
    BY <1>3, BucketNames
  <2> QED
    BY <1>0, <2>1, ColumnGrows
<1>6. ASSUME NEW b \in {"consumed", "refunded"} PROVE InBucket(b)' = InBucket(b)
  <2>1. b \in Bucket /\ \A l \in Lot : balance'[l][b] = balance[l][b]
    BY <1>3, BucketNames
  <2> QED
    BY <1>0, <2>1, ColumnKept
<1>7. Quantities' = [Quantities EXCEPT ![r] = 0] /\ States' = [States EXCEPT ![r] = "returned"]
  <2>1. (\A z \in Reservation \ {r} : hold'[z] = hold[z]) /\ hold'[r].status = "released"
    BY <1>0, <1>1 DEF TypeOK
  <2> QED
    BY <1>0, <2>1, HolderChanges DEF HolderState
<1>8. States[r] = "held" /\ Quantities[r] = hold[r].quantity
  BY <1>1 DEF States, Quantities, HolderState
<1>9. /\ InBucket("available")' + (InBucket("expired")' + InBucket("refunded")')
            = InBucket("available") + (InBucket("expired") + InBucket("refunded")) + Quantities[r]
      /\ InBucket("expired")' + InBucket("refunded")' >= InBucket("expired") + InBucket("refunded")
  <2>1. \A b \in {"available", "expired", "refunded"} : InBucket(b) \in Int /\ InBucket(b)' \in Int
    BY <1>0, ColumnType, ColumnTypeNext, BucketNames
  <2>2. SumFunction(take) \in Int
    BY <1>2, SumType, RowsAreFinite
  <2> QED
    BY <1>2, <1>4, <1>5, <1>6, <1>8, <2>1, <2>2
<1>10. Custody!Return(r)
  BY <1>5, <1>6, <1>7, <1>8, <1>9 DEF Custody!Return, Quantities, States
<1> QED
  BY <1>10 DEF Refines, Custody!Next

LEMMA IssueRefines ==
  ASSUME WalletInv, WalletInv', NEW e \in Event, PaidEvent(e)
  PROVE  Refines
<1> USE WalletConstants
<1>0. TypeOK /\ TypeOK' /\ hold' = hold
  BY DEF WalletInv, PaidEvent
<1>1. CASE Paid(e.order)
  <2>1. \A b \in {"available", "consumed", "expired", "refunded"} : InBucket(b)' = InBucket(b)
    BY <1>1 DEF PaidEvent, InBucket
  <2> QED
    BY <1>0, <2>1, CustodyStutters
<1>2. CASE ~Paid(e.order)
  <2>1. PICK k \in Lot : Grant(k, e.order)
    BY <1>2 DEF PaidEvent
  <2>2. PointsOf[e.order] \in Nat /\ PointsOf[e.order] > 0
    BY DEF EventType
  <2>3. /\ ~Exists(k) /\ FreshRow(balance'[k], PointsOf[e.order])
        /\ \A l \in Lot \ {k} : balance'[l] = balance[l]
    BY <1>0, <2>1 DEF Grant, TypeOK, FreshRow
  <2>4. \A b \in Bucket : balance[k][b] = 0
    BY <2>3, NothingOfNoLot
  <2>5. /\ balance'[k]["available"] = PointsOf[e.order] /\ balance'[k]["consumed"] = 0
        /\ balance'[k]["expired"] = 0 /\ balance'[k]["refunded"] = 0
    BY <2>2, <2>3, EmptyBuckets
  <2>6. \A b \in {"consumed", "expired", "refunded"}, l \in Lot : balance'[l][b] = balance[l][b]
    BY <2>3, <2>4, <2>5, BucketNames
  <2>7. ASSUME NEW b \in {"consumed", "expired", "refunded"} PROVE InBucket(b)' = InBucket(b)
    <3>1. b \in Bucket /\ \A l \in Lot : balance'[l][b] = balance[l][b]
      BY <2>6, BucketNames
    <3> QED
      BY <1>0, <3>1, ColumnKept
  <2>8. InBucket("available")' > InBucket("available")
    <3>1. ASSUME NEW l \in Lot PROVE balance'[l]["available"] >= balance[l]["available"]
      <4>1. CASE l = k
        BY <2>2, <2>4, <2>5, <4>1, BucketNames
      <4>2. CASE l # k
        BY <1>0, <2>3, <4>2, BucketNames DEF TypeOK
      <4> QED
        BY <4>1, <4>2
    <3>2. balance'[k]["available"] > balance[k]["available"]
      BY <2>2, <2>4, <2>5, BucketNames
    <3> QED
      BY <1>0, <3>1, <3>2, ColumnGrows, BucketNames
  <2>9. Custody!Issue
    BY <1>0, <2>7, <2>8 DEF Custody!Issue
  <2> QED
    BY <2>9 DEF Refines, Custody!Next
<1> QED
  BY <1>1, <1>2

LEMMA SweepRefines ==
  ASSUME WalletInv, WalletInv', NEW t \in Tenant, ExpireLots(t)
  PROVE  Refines
<1>0. /\ TypeOK /\ TypeOK' /\ hold' = hold
      /\ \A l \in Lot : \A b \in Bucket : balance[l][b] \in Int /\ balance'[l][b] \in Int
  BY DEF WalletInv, ExpireLots, TypeOK
<1>1. \A l \in Lot :
        /\ \A x \in Bucket \ {"available", "expired"} : balance'[l][x] = balance[l][x]
        /\ balance'[l]["available"] + balance'[l]["expired"]
              = balance[l]["available"] + balance[l]["expired"]
        /\ balance'[l]["available"] <= balance[l]["available"]
  BY <1>0, ExpiryBuckets DEF ExpireLots
<1>2. \A l \in Lot :
        /\ balance[l]["available"] \in Int /\ balance[l]["expired"] \in Int
        /\ balance'[l]["available"] \in Int /\ balance'[l]["expired"] \in Int
  BY <1>0, BucketNames
<1>3. \A l \in Lot :
        /\ balance'[l]["expired"] >= balance[l]["expired"]
        /\ balance'[l]["available"] = balance[l]["available"]
             <=> ~(balance'[l]["expired"] > balance[l]["expired"])
        /\ balance'[l]["available"] = balance[l]["available"]
              => balance'[l]["expired"] = balance[l]["expired"]
  BY <1>1, <1>2
<1>4. ASSUME NEW b \in {"consumed", "refunded"} PROVE InBucket(b)' = InBucket(b)
  <2>1. b \in Bucket /\ \A l \in Lot : balance'[l][b] = balance[l][b]
    BY <1>1, BucketNames
  <2> QED
    BY <1>0, <2>1, ColumnKept
<1>5. CASE \A l \in Lot : balance'[l]["available"] = balance[l]["available"]
  <2>1. ASSUME NEW b \in {"available", "expired"} PROVE InBucket(b)' = InBucket(b)
    <3>1. b \in Bucket /\ \A l \in Lot : balance'[l][b] = balance[l][b]
      BY <1>3, <1>5, BucketNames
    <3> QED
      BY <1>0, <3>1, ColumnKept
  <2> QED
    BY <1>0, <1>4, <2>1, CustodyStutters
<1>6. CASE \E l \in Lot : balance'[l]["available"] # balance[l]["available"]
  <2>1. \E l \in Lot : balance'[l]["expired"] > balance[l]["expired"]
    BY <1>3, <1>6
  <2> QED
    BY <1>0, <1>1, <1>3, <1>4, <2>1, CustodyRetires
<1> QED
  BY <1>5, <1>6

LEMMA RefundRefines ==
  ASSUME WalletInv, WalletInv', NEW o \in Order, NEW amount \in Nat, NEW chargeback,
         Refund(o, amount, chargeback)
  PROVE  Refines
<1>0. /\ TypeOK /\ TypeOK' /\ hold' = hold /\ amount > 0
      /\ \A l \in Lot : \A b \in Bucket : balance[l][b] \in Int /\ balance'[l][b] \in Int
  BY DEF WalletInv, Refund, TypeOK
<1>1. CASE balance' = balance
  <2>1. \A b \in {"available", "consumed", "expired", "refunded"} : InBucket(b)' = InBucket(b)
    BY <1>1 DEF InBucket
  <2> QED
    BY <1>0, <2>1, CustodyStutters
<1>2. CASE balance' # balance
  <2>1. \A l \in Lot : balance'[l] = balance[l] \/
          (/\ balance'[l]["available"] = balance[l]["available"] - amount
           /\ balance'[l]["refunded"] = balance[l]["refunded"] + amount
           /\ \A b \in Bucket \ {"available", "refunded"} : balance'[l][b] = balance[l][b])
    BY <1>0, RefundBuckets
  <2>2. PICK k \in Lot : balance'[k] # balance[k]
    BY <1>0, <1>2 DEF TypeOK
  <2>3. ASSUME NEW b \in {"consumed", "expired"} PROVE InBucket(b)' = InBucket(b)
    <3>1. b \in Bucket /\ \A l \in Lot : balance'[l][b] = balance[l][b]
      BY <2>1, BucketNames
    <3> QED
      BY <1>0, <3>1, ColumnKept
  <2>4. \A l \in Lot :
          /\ balance[l]["available"] \in Int /\ balance[l]["refunded"] \in Int
          /\ balance'[l]["available"] \in Int /\ balance'[l]["refunded"] \in Int
    BY <1>0, BucketNames
  <2>5. \A l \in Lot : /\ balance'[l]["available"] + balance'[l]["refunded"]
                            = balance[l]["available"] + balance[l]["refunded"]
                       /\ balance'[l]["refunded"] >= balance[l]["refunded"]
    BY <1>0, <2>1, <2>4
  <2>6. balance'[k]["refunded"] > balance[k]["refunded"]
    BY <1>0, <2>1, <2>2, <2>4
  <2> QED
    BY <1>0, <2>3, <2>5, <2>6, CustodyRetires
<1> QED
  BY <1>1, <1>2

\* Custody does not see whose points they are.
LEMMA TransferRefines ==
  ASSUME WalletInv, WalletInv', NEW p \in Tenant, NEW c \in Tenant, NEW q \in 1..MaxHold,
         Allocate(p, c, q)
  PROVE  Refines
<1>0. /\ TypeOK /\ TypeOK' /\ HoldInv /\ hold' = hold
      /\ \A l \in Lot : balance[l]["available"] \in Int /\ balance'[l]["available"] \in Int
  BY BucketNames DEF WalletInv, Allocate, TypeOK
<1>1. PICK take, copy : TransferEffect(p, c, q, take, copy)
  BY <1>0, AllocateEffect
<1>2. take \in [Lot -> Nat] /\ take \in [Lot -> Int] /\ SumFunction(take) = q
  BY <1>1 DEF TransferEffect
<1>3. ASSUME NEW s \in Lot, take[s] > 0
      PROVE  /\ copy[s] \in Lot /\ ~Exists(copy[s]) /\ FreshRow(balance'[copy[s]], take[s])
             /\ \A b \in Bucket : balance[copy[s]][b] = 0
  <2>1. copy[s] \in Lot /\ ~Exists(copy[s]) /\ balance'[copy[s]] = [Empty EXCEPT !["available"] = take[s]]
    BY <1>1, <1>3 DEF TransferEffect
  <2>2. FreshRow(balance'[copy[s]], take[s])
    BY <2>1 DEF FreshRow
  <2> DEFINE k == copy[s]
  <2>3. k \in Lot /\ ~Exists(k)
    BY <2>1
  <2> HIDE DEF k
  <2>4. \A b \in Bucket : balance[k][b] = 0
    BY <2>3, NothingOfNoLot
  <2> QED
    BY <2>1, <2>2, <2>4 DEF k
<1>4. ASSUME NEW b \in {"consumed", "expired", "refunded"} PROVE InBucket(b)' = InBucket(b)
  <2>1. ASSUME NEW l \in Lot PROVE balance'[l][b] = balance[l][b]
    <3>1. CASE \E s \in Lot : take[s] > 0 /\ copy[s] = l
      <4>1. PICK s \in Lot : take[s] > 0 /\ copy[s] = l
        BY <3>1
      <4>2. FreshRow(balance'[l], take[s]) /\ balance[l][b] = 0 /\ take[s] \in Nat
        BY <1>2, <1>3, <4>1, BucketNames
      <4>3. balance'[l][b] = 0
        BY <4>2, EmptyBuckets
      <4> QED
        BY <4>2, <4>3
    <3>2. CASE \A s \in Lot : take[s] > 0 => copy[s] # l
      BY <1>0, <1>1, <3>2, TransferBuckets, BucketNames
    <3> QED
      BY <3>1, <3>2
  <2> QED
    BY <1>0, <2>1, ColumnKept, BucketNames
<1> DEFINE in == [l \in Lot |-> balance'[l]["available"] - balance[l]["available"] + take[l]]
<1> DEFINE d == [l \in Lot |-> balance'[l]["available"] - balance[l]["available"]]
<1>5. /\ in \in [Lot -> Int] /\ d \in [Lot -> Int]
      /\ \A l \in Lot : balance'[l]["available"] = balance[l]["available"] + d[l]
      /\ \A l \in Lot : in[l] = d[l] + take[l]
  BY <1>0, <1>2
<1> HIDE DEF in, d
<1>6. ASSUME NEW s \in Lot, take[s] > 0 PROVE in[copy[s]] = take[s]
  <2> DEFINE k == copy[s]
  <2>1. /\ k \in Lot /\ ~Exists(k) /\ FreshRow(balance'[k], take[s]) /\ balance[k]["available"] = 0
        /\ take[s] \in Nat /\ take[k] \in Nat
    BY <1>2, <1>3, <1>6, BucketNames
  <2>2. take[k] > 0 => Exists(k)
    BY <1>1, <2>1 DEF TransferEffect, Unexpired, LotsOf
  <2> HIDE DEF k
  <2>3. balance'[k]["available"] = take[s]
    BY <2>1, EmptyBuckets
  <2>4. take[k] = 0
    BY <2>1, <2>2
  <2>5. in[k] = take[s]
    BY <2>1, <2>3, <2>4 DEF in
  <2> QED
    BY <2>5 DEF k
<1>7. ASSUME NEW l \in Lot, \A s \in Lot : take[s] > 0 => copy[s] # l PROVE in[l] = 0
  <2>1. balance'[l]["available"] = balance[l]["available"] - take[l]
    BY <1>0, <1>1, <1>7, TransferBuckets
  <2> QED
    BY <1>0, <1>2, <2>1 DEF in
<1>8. SumFunction(in) = q
  BY <1>1, <1>5, <1>6, <1>7, TransferSum
<1>9. SumFunction(in) = SumFunction(d) + SumFunction(take)
  BY <1>2, <1>5, SumAdds, RowsAreFinite
<1>10. InBucket("available")' = InBucket("available") + SumFunction(d)
  BY <1>0, <1>5, ColumnFlow, BucketNames
<1>11. SumFunction(d) \in Int /\ q \in Int /\ InBucket("available") \in Int
  BY <1>0, <1>5, SumType, ColumnType, RowsAreFinite, BucketNames
<1>12. InBucket("available")' = InBucket("available")
  BY <1>2, <1>8, <1>9, <1>10, <1>11
<1> QED
  BY <1>0, <1>4, <1>12, CustodyStutters

LEMMA CustodyStep == WalletInv /\ WalletInv' /\ [Next]_vars => Refines
<1> SUFFICES ASSUME WalletInv, WalletInv', [Next]_vars PROVE Refines
  OBVIOUS
<1>1. ASSUME UNCHANGED <<balance, hold>> PROVE Refines
  <2>1. \A b \in {"available", "consumed", "expired", "refunded"} : InBucket(b)' = InBucket(b)
    BY <1>1 DEF InBucket
  <2> QED
    BY <1>1, <2>1, CustodyStutters
<1>2. Tick \/ (\E o \in Order : CreateOrder(o)) \/ (\E e \in Event : FailedEvent(e)) \/ UNCHANGED vars
        => UNCHANGED <<balance, hold>>
  BY DEF vars, Tick, CreateOrder, FailedEvent
<1>3. ASSUME NEW e \in Event, RefundEvent(e) PROVE Refines
  <2>1. e.order \in Order /\ e.amount \in Nat
    BY WalletConstants DEF EventType
  <2> QED
    BY <1>3, <2>1, RefundRefines DEF RefundEvent
<1>4. ASSUME NEW o \in Order, NEW q \in 1..MaxHold, FinanceRefund(o, q) PROVE Refines
  <2>1. q \in Nat
    OBVIOUS
  <2> QED
    BY <1>4, <2>1, RefundRefines DEF FinanceRefund
<1>5. ASSUME NEW r \in Reservation, NEW q \in 1..MaxHold, NEW x \in Time, Reserve(r, q, x) PROVE Refines
  BY <1>5, HoldRefines
<1>6. ASSUME NEW r \in Reservation, NEW at \in Time, Consume(r, at) PROVE Refines
  BY <1>6, SpendRefines
<1>7. ASSUME NEW r \in Reservation, Release(r) PROVE Refines
  BY <1>7, ReturnRefines
<1>8. ASSUME NEW e \in Event, PaidEvent(e) PROVE Refines
  BY <1>8, IssueRefines
<1>9. ASSUME NEW t \in Tenant, ExpireLots(t) PROVE Refines
  BY <1>9, SweepRefines
<1>10. ASSUME NEW p \in Tenant, NEW c \in Tenant, NEW q \in 1..MaxHold, Allocate(p, c, q) PROVE Refines
  BY <1>10, TransferRefines
<1> QED
  BY <1>1, <1>2, <1>3, <1>4, <1>5, <1>6, <1>7, <1>8, <1>9, <1>10 DEF Next

(* The wallets implement the custody of points: ImplementsCustody, for     *)
(* every set of lots, reservations and orders.                             *)
THEOREM WalletImplementsCustody == Spec => ImplementsCustody
<1>1. Init => Custody!Init
  BY InitCustody
<1>2. WalletInv /\ WalletInv' /\ [Next]_vars => [Custody!Next]_(Custody!custody)
  BY CustodyStep DEF Refines
<1> QED
  BY <1>1, <1>2, WalletInvHolds, PTL DEF Spec, ImplementsCustody, Custody!Spec

-----------------------------------------------------------------------------
(***************************************************************************)
(* The loop over the lots of a wallet (GreedyTake) and the takes the        *)
(* actions choose from (FirstExpiringFirst).                               *)
(***************************************************************************)
\* The lots an order lists first.
FirstLots(o, i) == {o[j] : j \in 1..i}

\* o lists each of n lots once.
Lists(o, n, S) ==
  /\ o \in [1..n -> S]
  /\ \A i, j \in 1..n : o[i] = o[j] => i = j
  /\ \A x \in S : \E i \in 1..n : o[i] = x

\* What SortedOrders says of an order.
LEMMA OrderLists ==
  ASSUME NEW S, IsFiniteSet(S), NEW e, NEW o \in SortedOrders(S, e), NEW n, n = Cardinality(S)
  PROVE  /\ n \in Nat
         /\ Lists(o, n, S)
         /\ \A i \in 1..n - 1 : e[o[i]] <= e[o[i + 1]]
<1>1. n \in Nat
  BY FS_CardinalityType
<1>2. o \in Injection(1..n, S) /\ o \in Surjection(1..n, S)
  BY DEF SortedOrders, Bijection
<1>3. o \in [1..n -> S] /\ \A i, j \in 1..n : o[i] = o[j] => i = j
  BY <1>2 DEF Injection, IsInjective
<1>4. \A x \in S : \E i \in 1..n : o[i] = x
  BY <1>2 DEF Surjection
<1>5. \A i \in 1..n - 1 : e[o[i]] <= e[o[i + 1]]
  BY DEF SortedOrders
<1> QED
  BY <1>1, <1>3, <1>4, <1>5 DEF Lists

LEMMA FirstLotsGrow ==
  ASSUME NEW S, IsFiniteSet(S), NEW n \in Nat, NEW o, Lists(o, n, S)
  PROVE  /\ FirstLots(o, 0) = {} /\ FirstLots(o, n) = S
         /\ \A i \in 0..n : FirstLots(o, i) \in SUBSET S /\ IsFiniteSet(FirstLots(o, i))
         /\ \A i \in 1..n : /\ o[i] \in FirstLots(o, i)
                            /\ FirstLots(o, i - 1) = FirstLots(o, i) \ {o[i]}
<1> USE DEF Lists
<1>1. FirstLots(o, 0) = {} /\ FirstLots(o, n) = S
  BY DEF FirstLots
<1>2. ASSUME NEW i \in 0..n PROVE FirstLots(o, i) \in SUBSET S /\ IsFiniteSet(FirstLots(o, i))
  <2>1. FirstLots(o, i) \in SUBSET S
    BY DEF FirstLots
  <2> QED
    BY <2>1, FS_Subset
<1>3. ASSUME NEW i \in 1..n
      PROVE  o[i] \in FirstLots(o, i) /\ FirstLots(o, i - 1) = FirstLots(o, i) \ {o[i]}
  <2>1. \A j \in 1..i - 1 : o[j] # o[i]
    OBVIOUS
  <2>2. 1..i = (1..i - 1) \cup {i}
    OBVIOUS
  <2> QED
    BY <2>1, <2>2 DEF FirstLots
<1> QED
  BY <1>1, <1>2, <1>3

\* The sum of what the first lots of an order hold.
LEMMA SumOfFirst ==
  ASSUME NEW S, IsFiniteSet(S), NEW n \in Nat, NEW o, Lists(o, n, S),
         NEW f \in [S -> Nat]
  PROVE  /\ SumFunctionOnSet(f, FirstLots(o, 0)) = 0
         /\ SumFunctionOnSet(f, FirstLots(o, n)) = SumFunction(f)
         /\ \A i \in 0..n : SumFunctionOnSet(f, FirstLots(o, i)) \in Nat
         /\ \A i \in 1..n : SumFunctionOnSet(f, FirstLots(o, i))
                              = f[o[i]] + SumFunctionOnSet(f, FirstLots(o, i - 1))
<1>1. /\ FirstLots(o, 0) = {} /\ FirstLots(o, n) = S
      /\ \A i \in 0..n : FirstLots(o, i) \in SUBSET S /\ IsFiniteSet(FirstLots(o, i))
      /\ \A i \in 1..n : /\ o[i] \in FirstLots(o, i)
                         /\ FirstLots(o, i - 1) = FirstLots(o, i) \ {o[i]}
  BY FirstLotsGrow
<1>2. SumFunctionOnSet(f, FirstLots(o, 0)) = 0
  BY <1>1, SumOfNothing
<1>3. SumFunctionOnSet(f, FirstLots(o, n)) = SumFunction(f)
  BY <1>1 DEF SumFunction
<1>4. ASSUME NEW i \in 1..n
      PROVE  SumFunctionOnSet(f, FirstLots(o, i)) = f[o[i]] + SumFunctionOnSet(f, FirstLots(o, i - 1))
  <2> DEFINE T == FirstLots(o, i)
  <2>1. IsFiniteSet(T) /\ (\A x \in T : f[x] \in Int) /\ o[i] \in T /\ T \ {o[i]} = FirstLots(o, i - 1)
    BY <1>1
  <2> HIDE DEF T
  <2>2. SumFunctionOnSet(f, T) = f[o[i]] + SumFunctionOnSet(f, T \ {o[i]})
    BY <2>1, SumSplits
  <2> QED
    BY <2>1, <2>2 DEF T
<1>5. ASSUME NEW i \in 0..n PROVE SumFunctionOnSet(f, FirstLots(o, i)) \in Nat
  <2> DEFINE T == FirstLots(o, i)
  <2> DEFINE h == [x \in T |-> f[x]]
  <2>1. IsFiniteSet(T) /\ h \in [T -> Nat] /\ \A x \in T : h[x] = f[x]
    BY <1>1
  <2> HIDE DEF T, h
  <2>2. SumFunction(h) \in Nat
    BY <2>1, SumCovers
  <2>3. SumFunction(h) = SumFunctionOnSet(h, T)
    BY <2>1 DEF SumFunction
  <2>4. SumFunctionOnSet(h, T) = SumFunctionOnSet(f, T)
    BY <2>1, SumAgrees
  <2> QED
    BY <2>2, <2>3, <2>4 DEF T
<1> QED
  BY <1>2, <1>3, <1>4, <1>5

\* Later lots of an order do not expire earlier.
LEMMA OrderIsSorted ==
  ASSUME NEW n \in Nat, NEW key \in [1..n -> Nat], \A i \in 1..n - 1 : key[i] <= key[i + 1]
  PROVE  \A i, j \in 1..n : i <= j => key[i] <= key[j]
<1> SUFFICES ASSUME NEW i \in 1..n PROVE \A j \in 1..n : i <= j => key[i] <= key[j]
  OBVIOUS
<1> DEFINE Good == {j \in 0..n : i <= j => key[i] <= key[j]}
<1>1. 0 \in Good
  OBVIOUS
<1>2. ASSUME NEW j \in 1..n, j - 1 \in Good PROVE j \in Good
  <2>1. CASE j = i
    BY <2>1
  <2>2. CASE j < i
    BY <2>2
  <2>3. CASE i < j
    <3>1. i <= j - 1 /\ j - 1 \in 1..n - 1 /\ (j - 1) + 1 = j
      BY <2>3
    <3>2. key[i] <= key[j - 1] /\ key[j - 1] <= key[j]
      BY <1>2, <3>1
    <3> QED
      BY <3>1, <3>2
  <2> QED
    BY <2>1, <2>2, <2>3
<1> HIDE DEF Good
<1>3. \A j \in 0..n : j \in Good
  BY <1>1, <1>2, NumberInduction
<1> QED
  BY <1>3 DEF Good

\* The loop of GreedyTake, and what is left to be taken after i lots.
Lesser(a, b) == IF a <= b THEN a ELSE b
Missing(q, given) == IF q > given THEN q - given ELSE 0
LoopStep(o, p, q, g) ==
  [i \in 0..Len(o) |-> IF i = 0 THEN q ELSE g[i - 1] - Lesser(g[i - 1], p[o[i]])]
Looped(o, p, q) == CHOOSE g : g = LoopStep(o, p, q, g)

LEMMA TakeIsLooped ==
  ASSUME NEW o, NEW p, NEW q
  PROVE  GreedyTake(o, p, q)
           = [l \in DOMAIN p |->
                IF \E i \in 1..Len(o) : o[i] = l
                THEN Looped(o, p, q)[(CHOOSE i \in 1..Len(o) : o[i] = l) - 1]
                       - Looped(o, p, q)[CHOOSE i \in 1..Len(o) : o[i] = l]
                ELSE 0]
BY DEF GreedyTake, Looped, LoopStep, Lesser

LEMMA LoopLeaves ==
  ASSUME NEW S, IsFiniteSet(S), NEW n \in Nat, NEW o, Lists(o, n, S),
         NEW p \in [S -> Nat], NEW q \in Nat
  PROVE  /\ Len(o) = n
         /\ \A i \in 0..n :
              Looped(o, p, q)[i] = Missing(q, SumFunctionOnSet(p, FirstLots(o, i)))
<1>0. Len(o) = n /\ \A i \in 1..n : p[o[i]] \in Nat
  BY DEF Lists
<1> DEFINE s == [i \in 0..n |-> SumFunctionOnSet(p, FirstLots(o, i))]
<1>1. s[0] = 0 /\ (\A i \in 0..n : s[i] \in Nat) /\ \A i \in 1..n : s[i] = p[o[i]] + s[i - 1]
  <2>1. /\ SumFunctionOnSet(p, FirstLots(o, 0)) = 0
        /\ \A i \in 0..n : SumFunctionOnSet(p, FirstLots(o, i)) \in Nat
        /\ \A i \in 1..n : SumFunctionOnSet(p, FirstLots(o, i))
                             = p[o[i]] + SumFunctionOnSet(p, FirstLots(o, i - 1))
    BY SumOfFirst
  <2>2. 0 \in 0..n /\ \A i \in 1..n : i \in 0..n /\ i - 1 \in 0..n
    OBVIOUS
  <2> QED
    BY <2>1, <2>2
<1> DEFINE h == [i \in 0..n |-> Missing(q, s[i])]
<1> HIDE DEF s
<1>2. ASSUME NEW i \in 1..n PROVE h[i] = h[i - 1] - Lesser(h[i - 1], p[o[i]])
  <2>1. i \in 0..n /\ i - 1 \in 0..n
    OBVIOUS
  <2>2. h[i] = Missing(q, s[i]) /\ h[i - 1] = Missing(q, s[i - 1])
    BY <2>1
  <2>3. s[i] = p[o[i]] + s[i - 1] /\ s[i - 1] \in Nat /\ p[o[i]] \in Nat
    BY <1>0, <1>1, <2>1
  <2> HIDE DEF h
  <2> QED
    BY ONLY <2>2, <2>3, q \in Nat DEF Missing, Lesser
<1>3. h[0] = q
  BY <1>1 DEF Missing
<1>4. h = LoopStep(o, p, q, h)
  <2>1. h = [i \in 0..n |-> h[i]]
    OBVIOUS
  <2>2. \A i \in 0..n : h[i] = IF i = 0 THEN q ELSE h[i - 1] - Lesser(h[i - 1], p[o[i]])
    <3>1. \A i \in 0..n : i # 0 => i \in 1..n
      OBVIOUS
    <3> HIDE DEF h
    <3> QED
      BY <3>1, <1>2, <1>3
  <2> HIDE DEF h
  <2>3. h = [i \in 0..n |-> IF i = 0 THEN q ELSE h[i - 1] - Lesser(h[i - 1], p[o[i]])]
    BY ONLY <2>1, <2>2, Zenon
  <2> QED
    BY ONLY <1>0, <2>3 DEF LoopStep
<1> DEFINE r == Looped(o, p, q)
<1> HIDE DEF h
<1>5. r = LoopStep(o, p, q, r)
  BY <1>4 DEF Looped
<1> HIDE DEF r
<1>6. r[0] = q /\ \A i \in 1..n : r[i] = r[i - 1] - Lesser(r[i - 1], p[o[i]])
  BY <1>0, <1>5 DEF LoopStep
<1> DEFINE Good == {i \in 0..n : r[i] = h[i]}
<1>7. 0 \in Good
  BY <1>3, <1>6
<1>8. ASSUME NEW i \in 1..n, i - 1 \in Good PROVE i \in Good
  BY <1>2, <1>6, <1>8
<1> HIDE DEF Good
<1>9. \A i \in 0..n : i \in Good
  BY <1>7, <1>8, NumberInduction
<1>10. \A i \in 0..n : r[i] = Missing(q, SumFunctionOnSet(p, FirstLots(o, i)))
  BY <1>9 DEF Good, h, s
<1> QED
  BY <1>0, <1>10 DEF r

\* What a lot gives: what it has, but no more than the lots before it left to be taken.
LEMMA LoopTakes ==
  ASSUME NEW S, IsFiniteSet(S), NEW n \in Nat, NEW o, Lists(o, n, S),
         NEW p \in [S -> Nat], NEW q \in Nat
  PROVE  /\ GreedyTake(o, p, q) \in [S -> 0..q]
         /\ \A i \in 1..n :
              GreedyTake(o, p, q)[o[i]]
                = Lesser(p[o[i]], Missing(q, SumFunctionOnSet(p, FirstLots(o, i - 1))))
<1> DEFINE r == Looped(o, p, q)
<1> DEFINE s == [i \in 0..n |-> SumFunctionOnSet(p, FirstLots(o, i))]
<1> DEFINE take == GreedyTake(o, p, q)
<1>1. Len(o) = n /\ \A i \in 0..n : r[i] = Missing(q, s[i])
  BY LoopLeaves
<1>2. (\A i \in 0..n : s[i] \in Nat) /\ \A i \in 1..n : s[i] = p[o[i]] + s[i - 1]
  <2>1. /\ \A i \in 0..n : SumFunctionOnSet(p, FirstLots(o, i)) \in Nat
        /\ \A i \in 1..n : SumFunctionOnSet(p, FirstLots(o, i))
                             = p[o[i]] + SumFunctionOnSet(p, FirstLots(o, i - 1))
    BY SumOfFirst
  <2>2. \A i \in 1..n : i \in 0..n /\ i - 1 \in 0..n
    OBVIOUS
  <2> QED
    BY <2>1, <2>2
<1>3. take = [l \in S |-> IF \E i \in 1..n : o[i] = l
                          THEN r[(CHOOSE i \in 1..n : o[i] = l) - 1] - r[CHOOSE i \in 1..n : o[i] = l]
                          ELSE 0]
  <2>1. DOMAIN p = S
    OBVIOUS
  <2> QED
    BY <1>1, <2>1, TakeIsLooped
<1>4. /\ \A i \in 1..n : o[i] \in S /\ p[o[i]] \in Nat
      /\ \A i, j \in 1..n : o[i] = o[j] => i = j
      /\ \A l \in S : \E i \in 1..n : o[i] = l
  BY DEF Lists
<1>5. \A i \in 1..n : s[i - 1] = SumFunctionOnSet(p, FirstLots(o, i - 1))
  <2>1. \A i \in 1..n : i - 1 \in 0..n
    OBVIOUS
  <2> QED
    BY <2>1
<1> HIDE DEF r, s, take
<1>6. ASSUME NEW i \in 1..n PROVE take[o[i]] = r[i - 1] - r[i]
  <2>1. (CHOOSE j \in 1..n : o[j] = o[i]) = i
    BY <1>4
  <2> QED
    BY <1>3, <1>4, <2>1
<1>7. ASSUME NEW i \in 1..n
      PROVE  take[o[i]] = Lesser(p[o[i]], Missing(q, s[i - 1])) /\ take[o[i]] \in 0..q
  <2>1. i \in 0..n /\ i - 1 \in 0..n
    OBVIOUS
  <2>2. take[o[i]] = Missing(q, s[i - 1]) - Missing(q, s[i])
    BY <1>1, <1>6, <2>1
  <2>3. s[i] = p[o[i]] + s[i - 1] /\ s[i - 1] \in Nat /\ p[o[i]] \in Nat
    BY <1>2, <1>4, <2>1
  <2> QED
    BY <2>2, <2>3 DEF Missing, Lesser
<1>8. take \in [S -> 0..q]
  <2>1. \A l \in S : take[l] \in 0..q
    BY <1>4, <1>7
  <2>2. take = [l \in S |-> take[l]]
    BY <1>3
  <2> QED
    BY <2>1, <2>2
<1> QED
  BY <1>5, <1>7, <1>8 DEF take

\* The lots give together what is asked, as far as they have it.
LEMMA LoopSums ==
  ASSUME NEW S, IsFiniteSet(S), NEW n \in Nat, NEW o, Lists(o, n, S),
         NEW p \in [S -> Nat], NEW q \in Nat
  PROVE  SumFunction(GreedyTake(o, p, q)) = q - Missing(q, SumFunction(p))
<1> DEFINE take == GreedyTake(o, p, q)
<1> DEFINE s == [i \in 0..n |-> SumFunctionOnSet(p, FirstLots(o, i))]
<1> DEFINE t == [i \in 0..n |-> SumFunctionOnSet(take, FirstLots(o, i))]
<1>0. (\A i \in 1..n : i \in 0..n /\ i - 1 \in 0..n) /\ 0 \in 0..n /\ n \in 0..n
  OBVIOUS
<1>1. take \in [S -> Nat] /\ \A i \in 1..n : o[i] \in S
                                   /\ take[o[i]] = Lesser(p[o[i]], Missing(q, s[i - 1]))
  <2>1. take \in [S -> 0..q]
    BY LoopTakes
  <2>2. \A i \in 1..n : take[o[i]] = Lesser(p[o[i]], Missing(q, SumFunctionOnSet(p, FirstLots(o, i - 1))))
    BY LoopTakes
  <2> HIDE DEF take
  <2>3. take \in [S -> Nat]
    BY <2>1
  <2>4. \A i \in 1..n : o[i] \in S
    BY DEF Lists
  <2> QED
    BY <1>0, <2>2, <2>3, <2>4
<1>2. /\ s[0] = 0 /\ s[n] = SumFunction(p) /\ \A i \in 0..n : s[i] \in Nat
      /\ \A i \in 1..n : s[i] = p[o[i]] + s[i - 1]
  <2>1. /\ SumFunctionOnSet(p, FirstLots(o, 0)) = 0
        /\ SumFunctionOnSet(p, FirstLots(o, n)) = SumFunction(p)
        /\ \A i \in 0..n : SumFunctionOnSet(p, FirstLots(o, i)) \in Nat
        /\ \A i \in 1..n : SumFunctionOnSet(p, FirstLots(o, i))
                             = p[o[i]] + SumFunctionOnSet(p, FirstLots(o, i - 1))
    BY SumOfFirst
  <2> QED
    BY <1>0, <2>1
<1> HIDE DEF take
<1>3. /\ t[0] = 0 /\ t[n] = SumFunction(take)
      /\ \A i \in 1..n : t[i] = take[o[i]] + t[i - 1]
  <2>1. /\ SumFunctionOnSet(take, FirstLots(o, 0)) = 0
        /\ SumFunctionOnSet(take, FirstLots(o, n)) = SumFunction(take)
        /\ \A i \in 1..n : SumFunctionOnSet(take, FirstLots(o, i))
                             = take[o[i]] + SumFunctionOnSet(take, FirstLots(o, i - 1))
    BY <1>1, SumOfFirst
  <2> QED
    BY <1>0, <2>1
<1> HIDE DEF s, t
<1> DEFINE Good == {i \in 0..n : t[i] = q - Missing(q, s[i])}
<1>4. 0 \in Good
  BY <1>2, <1>3 DEF Missing
<1>5. ASSUME NEW i \in 1..n, i - 1 \in Good PROVE i \in Good
  <2>1. t[i - 1] = q - Missing(q, s[i - 1]) /\ s[i - 1] \in Nat
    BY <1>0, <1>2, <1>5
  <2>2. t[i] = Lesser(p[o[i]], Missing(q, s[i - 1])) + t[i - 1] /\ s[i] = p[o[i]] + s[i - 1]
    BY <1>1, <1>2, <1>3
  <2>3. p[o[i]] \in Nat
    BY <1>1
  <2>4. t[i] = q - Missing(q, s[i])
    BY <2>1, <2>2, <2>3 DEF Missing, Lesser
  <2> QED
    BY <1>0, <2>4
<1> HIDE DEF Good
<1>6. n \in Good
  BY <1>0, <1>4, <1>5, NumberInduction
<1> QED
  BY <1>2, <1>3, <1>6 DEF Good, take

\* When a lot gives points, the lots listed before it are empty.
LEMMA EarlierIsEmpty ==
  ASSUME NEW S, IsFiniteSet(S), NEW n \in Nat, NEW o, Lists(o, n, S),
         NEW p \in [S -> Nat], NEW q \in Nat, NEW i \in 1..n, NEW j \in 1..n, j < i,
         GreedyTake(o, p, q)[o[i]] > 0
  PROVE  GreedyTake(o, p, q)[o[j]] = p[o[j]]
<1> DEFINE s == [k \in 0..n |-> SumFunctionOnSet(p, FirstLots(o, k))]
<1>0. (\A k \in 1..n : k \in 0..n /\ k - 1 \in 0..n) /\ i - 1 \in 1..n
  OBVIOUS
<1>1. (\A k \in 0..n : s[k] \in Nat) /\ \A k \in 1..n : s[k] = p[o[k]] + s[k - 1] /\ p[o[k]] \in Nat
  <2>1. /\ \A k \in 0..n : SumFunctionOnSet(p, FirstLots(o, k)) \in Nat
        /\ \A k \in 1..n : SumFunctionOnSet(p, FirstLots(o, k))
                             = p[o[k]] + SumFunctionOnSet(p, FirstLots(o, k - 1))
    BY SumOfFirst
  <2>2. \A k \in 1..n : p[o[k]] \in Nat
    BY DEF Lists
  <2> QED
    BY <1>0, <2>1, <2>2
<1>2. \A k \in 1..n : GreedyTake(o, p, q)[o[k]] = Lesser(p[o[k]], Missing(q, s[k - 1]))
  <2>1. \A k \in 1..n : GreedyTake(o, p, q)[o[k]]
                          = Lesser(p[o[k]], Missing(q, SumFunctionOnSet(p, FirstLots(o, k - 1))))
    BY LoopTakes
  <2> QED
    BY <1>0, <2>1
<1> HIDE DEF s
<1>3. s[j] <= s[i - 1]
  <2> DEFINE key == [k \in 1..n |-> s[k]]
  <2>1. key \in [1..n -> Nat]
    BY <1>0, <1>1
  <2>2. \A k \in 1..n - 1 : k \in 1..n /\ k + 1 \in 1..n /\ (k + 1) - 1 = k
    OBVIOUS
  <2>3. \A k \in 1..n - 1 : s[k + 1] = p[o[k + 1]] + s[k] /\ p[o[k + 1]] \in Nat /\ s[k] \in Nat
    BY <1>0, <1>1, <2>2
  <2>4. ASSUME NEW k \in 1..n - 1 PROVE key[k] <= key[k + 1]
    <3>1. key[k] = s[k] /\ key[k + 1] = s[k + 1]
      BY <2>2
    <3>2. s[k + 1] = p[o[k + 1]] + s[k] /\ p[o[k + 1]] \in Nat /\ s[k] \in Nat
      BY <2>3
    <3> HIDE DEF key
    <3> QED
      BY <3>1, <3>2
  <2>5. key[j] = s[j] /\ key[i - 1] = s[i - 1]
    BY <1>0
  <2>6. j <= i - 1
    OBVIOUS
  <2> HIDE DEF key
  <2>7. key[j] <= key[i - 1]
    BY <1>0, <2>1, <2>4, <2>6, OrderIsSorted
  <2> QED
    BY <2>5, <2>7
<1>4. Missing(q, s[i - 1]) > 0
  BY <1>0, <1>1, <1>2 DEF Lesser, Missing
<1>5. q > s[i - 1]
  BY <1>4 DEF Missing
<1>6. /\ s[j] = p[o[j]] + s[j - 1] /\ p[o[j]] \in Nat /\ s[j - 1] \in Nat
      /\ s[i - 1] \in Nat /\ s[j] \in Nat
  BY <1>0, <1>1
<1>7. Lesser(p[o[j]], Missing(q, s[j - 1])) = p[o[j]]
  BY <1>3, <1>5, <1>6 DEF Lesser, Missing
<1> QED
  BY <1>2, <1>7

\* What the loop takes is taken first expiring lot first.
LEMMA LoopIsFirst ==
  ASSUME NEW S, IsFiniteSet(S), NEW e, \A x \in S : e[x] \in Nat, NEW o \in SortedOrders(S, e),
         NEW p \in [S -> Nat], NEW q \in Nat, q <= SumFunction(p)
  PROVE  FirstExpiringFirst(GreedyTake(o, p, q), S, e, p, q)
<1> DEFINE take == GreedyTake(o, p, q)
<1> DEFINE n == Cardinality(S)
<1>1. n \in Nat /\ Lists(o, n, S) /\ \A i \in 1..n - 1 : e[o[i]] <= e[o[i + 1]]
  BY OrderLists
<1> HIDE DEF n
<1>2. /\ take \in [S -> 0..q]
      /\ \A i \in 1..n : take[o[i]] = Lesser(p[o[i]], Missing(q, SumFunctionOnSet(p, FirstLots(o, i - 1))))
  BY <1>1, LoopTakes
<1>3. SumFunction(take) = q
  <2>1. SumFunction(take) = q - Missing(q, SumFunction(p))
    BY <1>1, LoopSums
  <2>2. SumFunction(p) \in Nat
    BY SumCovers
  <2> HIDE DEF take
  <2> QED
    BY <2>1, <2>2 DEF Missing
<1>4. \A i, j \in 1..n : j < i /\ take[o[i]] > 0 => take[o[j]] = p[o[j]]
  BY <1>1, EarlierIsEmpty
<1> HIDE DEF take
<1>5. \A l \in S : \E i \in 1..n : o[i] = l
  BY <1>1 DEF Lists
<1>6. \A i \in 1..n : o[i] \in S
  BY <1>1 DEF Lists
<1>7. \A l \in S : take[l] <= p[l]
  <2> SUFFICES ASSUME NEW i \in 1..n PROVE take[o[i]] <= p[o[i]]
    BY <1>5
  <2>1. take[o[i]] \in Nat /\ p[o[i]] \in Nat
    BY <1>2, <1>6
  <2> QED
    BY <1>2, <2>1 DEF Lesser
<1>8. \A i, j \in 1..n : i <= j => e[o[i]] <= e[o[j]]
  <2> DEFINE key == [i \in 1..n |-> e[o[i]]]
  <2>1. key \in [1..n -> Nat]
    BY <1>6
  <2>2. \A i \in 1..n - 1 : i \in 1..n /\ i + 1 \in 1..n
    BY <1>1
  <2>3. \A i \in 1..n - 1 : key[i] <= key[i + 1]
    BY <1>1, <2>2
  <2>4. \A i \in 1..n : key[i] = e[o[i]]
    OBVIOUS
  <2> HIDE DEF key
  <2>5. \A i, j \in 1..n : i <= j => key[i] <= key[j]
    BY <1>1, <2>1, <2>3, OrderIsSorted
  <2> QED
    BY <2>4, <2>5
<1>9. \A l, k \in S : take[l] > 0 /\ e[k] < e[l] => take[k] = p[k]
  <2> SUFFICES ASSUME NEW i \in 1..n, NEW j \in 1..n, take[o[i]] > 0, e[o[j]] < e[o[i]]
               PROVE  take[o[j]] = p[o[j]]
    BY <1>5
  <2>1. e[o[i]] \in Nat /\ e[o[j]] \in Nat
    BY <1>6
  <2>2. ~ (i <= j)
    BY <1>8, <2>1
  <2>3. j < i
    BY <1>1, <2>2
  <2> QED
    BY <1>4, <2>3
<1>10. \A l, k \in S : l # k /\ e[k] = e[l] /\ take[l] > 0 /\ take[k] > 0
                         => take[l] = p[l] \/ take[k] = p[k]
  <2> SUFFICES ASSUME NEW i \in 1..n, NEW j \in 1..n, i # j, take[o[i]] > 0, take[o[j]] > 0
               PROVE  take[o[i]] = p[o[i]] \/ take[o[j]] = p[o[j]]
    BY <1>5
  <2>1. j < i \/ i < j
    BY <1>1
  <2> QED
    BY <1>4, <2>1
<1>11. DOMAIN take = S
  BY <1>2
<1> QED
  BY <1>3, <1>7, <1>9, <1>10, <1>11 DEF FirstExpiringFirst, take

\* A finite set can be listed in the order of any numbers.
LEMMA OrderExists ==
  ASSUME NEW S, IsFiniteSet(S), NEW k, \A x \in S : k[x] \in Nat
  PROVE  \E o : o \in SortedOrders(S, k)
<1> DEFINE Good == {T \in SUBSET S : \E o : o \in SortedOrders(T, k)}
<1>1. ASSUME NEW T \in SUBSET S, \A x \in T : T \ {x} \in Good PROVE T \in Good
  <2>0. IsFiniteSet(T) /\ Cardinality(T) \in Nat
    BY FS_Subset, FS_CardinalityType
  <2>1. CASE T = {}
    <3> DEFINE o == [i \in 1..0 |-> 0]
    <3>1. Cardinality(T) = 0
      BY <2>1, FS_EmptySet
    <3>2. o \in Bijection(1..0, T)
      BY <2>1 DEF Bijection, Injection, Surjection, IsInjective
    <3>3. \A i \in 1..0 - 1 : k[o[i]] <= k[o[i + 1]]
      OBVIOUS
    <3> HIDE DEF o
    <3>4. o \in SortedOrders(T, k)
      BY <3>1, <3>2, <3>3 DEF SortedOrders
    <3> QED
      BY <3>4
  <2>2. CASE T # {}
    <3>1. PICK z \in T : \A x \in T : k[x] <= k[z]
      BY <2>0, <2>2, GreatestExists
    <3>2. PICK b : b \in SortedOrders(T \ {z}, k)
      BY <1>1
    <3> DEFINE n == Cardinality(T)
    <3>3. IsFiniteSet(T \ {z}) /\ Cardinality(T \ {z}) = n - 1
      BY <2>0, FS_RemoveElement
    <3>4. n - 1 \in Nat
      BY <3>3, FS_CardinalityType
    <3> DEFINE R == T \ {z}
    <3> HIDE DEF n, R
    <3>5. Lists(b, n - 1, R) /\ \A i \in 1..(n - 1) - 1 : k[b[i]] <= k[b[i + 1]]
      BY <3>2, <3>3, OrderLists DEF R
    <3> DEFINE o == [i \in 1..n |-> IF i = n THEN z ELSE b[i]]
    <3>6. n \in Nat \ {0} /\ n = Cardinality(T)
      BY <2>0, <3>4 DEF n
    <3>7. \A i \in 1..n : i # n => i \in 1..n - 1 /\ o[i] = b[i] /\ o[i] \in R
      BY <3>5, <3>6 DEF Lists
    <3>8. o[n] = z /\ z \notin R /\ R \subseteq T
      BY <3>6 DEF R
    <3>9. o \in [1..n -> T]
      BY <3>1, <3>7, <3>8
    <3>10. \A i, j \in 1..n : o[i] = o[j] => i = j
      BY <3>5, <3>7, <3>8 DEF Lists
    <3>11. \A x \in T : \E i \in 1..n : o[i] = x
      <4> SUFFICES ASSUME NEW x \in T PROVE \E i \in 1..n : o[i] = x
        OBVIOUS
      <4>1. CASE x = z
        BY <3>6, <3>8, <4>1
      <4>2. CASE x # z
        <5>1. PICK i \in 1..n - 1 : b[i] = x
          BY <3>5, <4>2 DEF R, Lists
        <5>2. i \in 1..n /\ i # n
          BY <3>6
        <5> QED
          BY <3>7, <5>1, <5>2
      <4> QED
        BY <4>1, <4>2
    <3>12. \A i \in 1..n - 1 : k[o[i]] <= k[o[i + 1]]
      <4> SUFFICES ASSUME NEW i \in 1..n - 1 PROVE k[o[i]] <= k[o[i + 1]]
        OBVIOUS
      <4>1. i \in 1..n /\ i # n /\ i + 1 \in 1..n
        BY <3>6
      <4>2. CASE i + 1 = n
        BY <3>1, <3>8, <3>9, <4>1, <4>2
      <4>3. CASE i + 1 # n
        <5>1. i \in 1..(n - 1) - 1
          BY <3>6, <4>3
        <5>2. o[i] = b[i] /\ o[i + 1] = b[i + 1]
          BY <3>7, <4>1, <4>3
        <5> QED
          BY <3>5, <5>1, <5>2
      <4> QED
        BY <4>2, <4>3
    <3> HIDE DEF o
    <3>13. o \in Bijection(1..n, T)
      BY <3>9, <3>10, <3>11 DEF Bijection, Injection, Surjection, IsInjective
    <3>14. o \in SortedOrders(T, k)
      BY <3>6, <3>12, <3>13 DEF SortedOrders
    <3> QED
      BY <3>14
  <2> QED
    BY <2>1, <2>2
<1> HIDE DEF Good
<1>2. S \in Good
  BY <1>1, SubsetInduction
<1> QED
  BY <1>2 DEF Good

\* Of the lots that expire together: the ones that are emptied, then the one that is left
\* half used, then the others.
Emptied(take, p, l) == take[l] > 0 /\ take[l] = p[l]
OrderKey(S, e, take, p) ==
  [l \in S |-> 3 * e[l] + (IF Emptied(take, p, l) THEN 0 ELSE IF take[l] > 0 THEN 1 ELSE 2)]

LEMMA OrderKeyFacts ==
  ASSUME NEW S, NEW e, \A x \in S : e[x] \in Nat, NEW q \in Nat,
         NEW p \in [S -> Nat], NEW take \in [S -> 0..q],
         NEW l \in S, NEW k \in S, OrderKey(S, e, take, p)[k] <= OrderKey(S, e, take, p)[l]
  PROVE  /\ e[k] <= e[l]
         /\ e[k] = e[l] /\ take[l] > 0 => Emptied(take, p, k) \/ (take[k] > 0 /\ ~Emptied(take, p, l))
<1> DEFINE c(x) == IF Emptied(take, p, x) THEN 0 ELSE IF take[x] > 0 THEN 1 ELSE 2
<1>1. /\ OrderKey(S, e, take, p)[k] = 3 * e[k] + c(k)
      /\ OrderKey(S, e, take, p)[l] = 3 * e[l] + c(l)
  BY DEF OrderKey
<1>2. c(k) \in 0..2 /\ c(l) \in 0..2
  OBVIOUS
<1>3. /\ c(k) = 0 <=> Emptied(take, p, k)
      /\ c(k) = 1 => take[k] > 0
      /\ c(l) = 0 <=> Emptied(take, p, l)
      /\ take[l] > 0 => c(l) <= 1
  OBVIOUS
<1>4. e[k] \in Nat /\ e[l] \in Nat
  OBVIOUS
<1> DEFINE ck == c(k)
<1> DEFINE cl == c(l)
<1>5. 3 * e[k] + ck <= 3 * e[l] + cl
  BY <1>1
<1>6. /\ ck \in 0..2 /\ cl \in 0..2
      /\ ck = 0 <=> Emptied(take, p, k)
      /\ ck = 1 => take[k] > 0
      /\ cl = 0 <=> Emptied(take, p, l)
      /\ take[l] > 0 => cl <= 1
  BY <1>2, <1>3
<1> HIDE DEF ck, cl
<1>7. e[k] <= e[l]
  BY ONLY <1>4, <1>5, <1>6
<1>8. e[k] = e[l] => ck <= cl
  BY ONLY <1>4, <1>5, <1>6
<1>9. ASSUME e[k] = e[l], take[l] > 0
      PROVE  Emptied(take, p, k) \/ (take[k] > 0 /\ ~Emptied(take, p, l))
  <2>1. cl <= 1 /\ ck <= cl
    BY <1>6, <1>8, <1>9
  <2>2. ck = 0 \/ (ck = 1 /\ cl = 1)
    BY <1>6, <2>1
  <2> QED
    BY <1>6, <2>2
<1> QED
  BY <1>7, <1>9

\* In that order, the lots before one that gives points are empty.
LEMMA EarlierAreEmptied ==
  ASSUME NEW S, NEW e, \A x \in S : e[x] \in Nat, NEW q \in Nat,
         NEW p \in [S -> Nat], NEW take \in [S -> 0..q], FirstExpiringFirst(take, S, e, p, q),
         NEW l \in S, NEW k \in S, k # l, OrderKey(S, e, take, p)[k] <= OrderKey(S, e, take, p)[l],
         take[l] > 0
  PROVE  take[k] = p[k]
<1>1. e[k] <= e[l] /\ e[k] \in Nat /\ e[l] \in Nat
  BY OrderKeyFacts
<1>2. e[k] = e[l] => Emptied(take, p, k) \/ (take[k] > 0 /\ ~Emptied(take, p, l))
  BY OrderKeyFacts
<1>3. CASE e[k] < e[l]
  BY <1>3 DEF FirstExpiringFirst
<1>4. CASE e[k] = e[l]
  <2>1. CASE Emptied(take, p, k)
    BY <2>1 DEF Emptied
  <2>2. CASE take[k] > 0 /\ ~Emptied(take, p, l)
    BY <1>4, <2>2 DEF FirstExpiringFirst, Emptied
  <2> QED
    BY <1>2, <1>4, <2>1, <2>2
<1> QED
  BY <1>1, <1>3, <1>4

\* A take first expiring lot first is what the loop takes in some order.
LEMMA FirstIsLoop ==
  ASSUME NEW S, IsFiniteSet(S), NEW e, \A x \in S : e[x] \in Nat,
         NEW p \in [S -> Nat], NEW q \in Nat, NEW take \in [S -> 0..q],
         FirstExpiringFirst(take, S, e, p, q)
  PROVE  \E o \in SortedOrders(S, e) : take = GreedyTake(o, p, q)
<1> DEFINE key == OrderKey(S, e, take, p)
<1>1. \A x \in S : key[x] \in Nat
  BY DEF OrderKey
<1>2. \A l, k \in S : key[k] <= key[l] => e[k] <= e[l]
  BY OrderKeyFacts
<1>3. ASSUME NEW l \in S, NEW k \in S, k # l, key[k] <= key[l], take[l] > 0
      PROVE  take[k] = p[k]
  <2>1. OrderKey(S, e, take, p)[k] <= OrderKey(S, e, take, p)[l]
    BY <1>3
  <2> HIDE DEF key
  <2> QED
    BY <1>3, <2>1, EarlierAreEmptied, ZenonT(40)
<1> HIDE DEF key
<1>4. PICK o : o \in SortedOrders(S, key)
  BY <1>1, OrderExists
<1> DEFINE n == Cardinality(S)
<1>5. n \in Nat /\ Lists(o, n, S) /\ \A i \in 1..n - 1 : key[o[i]] <= key[o[i + 1]]
  BY <1>4, OrderLists
<1>6. o \in SortedOrders(S, e)
  <2>1. \A i \in 1..n - 1 : o[i] \in S /\ o[i + 1] \in S
    <3>1. \A i \in 1..n - 1 : i \in 1..n /\ i + 1 \in 1..n
      BY <1>5
    <3> QED
      BY <1>5, <3>1 DEF Lists
  <2>2. \A i \in 1..n - 1 : e[o[i]] <= e[o[i + 1]]
    BY <1>2, <1>5, <2>1
  <2> QED
    BY <1>4, <2>2 DEF SortedOrders
<1> HIDE DEF n
<1>7. /\ \A i \in 1..n : o[i] \in S
      /\ \A i, j \in 1..n : o[i] = o[j] => i = j
      /\ \A l \in S : \E i \in 1..n : o[i] = l
  BY <1>5 DEF Lists
<1>8. \A i, j \in 1..n : j < i /\ take[o[i]] > 0 => take[o[j]] = p[o[j]]
  <2> DEFINE row == [i \in 1..n |-> key[o[i]]]
  <2>1. row \in [1..n -> Nat]
    BY <1>1, <1>7
  <2>2. \A i \in 1..n - 1 : i \in 1..n /\ i + 1 \in 1..n
    BY <1>5
  <2>3. \A i \in 1..n - 1 : row[i] <= row[i + 1]
    BY <1>5, <2>2
  <2>4. \A i \in 1..n : row[i] = key[o[i]]
    OBVIOUS
  <2> HIDE DEF row
  <2>5. \A i, j \in 1..n : i <= j => row[i] <= row[j]
    BY <1>5, <2>1, <2>3, OrderIsSorted
  <2>6. \A i, j \in 1..n : j < i => key[o[j]] <= key[o[i]] /\ o[j] # o[i]
    BY <1>5, <1>7, <2>4, <2>5
  <2> QED
    BY <1>3, <1>7, <2>6
<1> DEFINE s == [i \in 0..n |-> SumFunctionOnSet(p, FirstLots(o, i))]
<1> DEFINE t == [i \in 0..n |-> SumFunctionOnSet(take, FirstLots(o, i))]
<1>9. take \in [S -> Nat] /\ SumFunction(take) = q /\ \A l \in S : take[l] <= p[l]
  BY DEF FirstExpiringFirst
<1>10. \A i \in 1..n : i \in 0..n /\ i - 1 \in 0..n
  BY <1>5
<1>11. s[0] = 0 /\ (\A i \in 0..n : s[i] \in Nat) /\ \A i \in 1..n : s[i] = p[o[i]] + s[i - 1]
  <2>1. /\ SumFunctionOnSet(p, FirstLots(o, 0)) = 0
        /\ \A i \in 0..n : SumFunctionOnSet(p, FirstLots(o, i)) \in Nat
        /\ \A i \in 1..n : SumFunctionOnSet(p, FirstLots(o, i))
                             = p[o[i]] + SumFunctionOnSet(p, FirstLots(o, i - 1))
    BY <1>5, SumOfFirst
  <2> QED
    BY <1>5, <1>10, <2>1
<1>12. /\ t[0] = 0 /\ t[n] = q /\ (\A i \in 0..n : t[i] \in Nat)
       /\ \A i \in 1..n : t[i] = take[o[i]] + t[i - 1]
  <2>1. /\ SumFunctionOnSet(take, FirstLots(o, 0)) = 0
        /\ SumFunctionOnSet(take, FirstLots(o, n)) = SumFunction(take)
        /\ \A i \in 0..n : SumFunctionOnSet(take, FirstLots(o, i)) \in Nat
        /\ \A i \in 1..n : SumFunctionOnSet(take, FirstLots(o, i))
                             = take[o[i]] + SumFunctionOnSet(take, FirstLots(o, i - 1))
    BY <1>5, <1>9, SumOfFirst
  <2> QED
    BY <1>5, <1>9, <1>10, <2>1
<1>13. \A i \in 1..n : s[i - 1] = SumFunctionOnSet(p, FirstLots(o, i - 1))
  BY <1>10
<1> HIDE DEF s, t
<1>14. ASSUME NEW i \in 1..n, take[o[i]] > 0 PROVE t[i - 1] = s[i - 1]
  <2> DEFINE Good == {j \in 0..n : j < i => t[j] = s[j]}
  <2>1. 0 \in Good
    BY <1>5, <1>11, <1>12
  <2>2. ASSUME NEW j \in 1..n, j - 1 \in Good PROVE j \in Good
    <3> SUFFICES ASSUME j < i PROVE t[j] = s[j]
      BY <1>10
    <3>1. t[j - 1] = s[j - 1]
      BY <2>2
    <3>2. take[o[j]] = p[o[j]]
      BY <1>8, <1>14
    <3> QED
      BY <1>11, <1>12, <3>1, <3>2
  <2> HIDE DEF Good
  <2>3. i - 1 \in Good
    BY <1>5, <1>10, <2>1, <2>2, NumberInduction
  <2> QED
    BY <2>3 DEF Good
<1>15. ASSUME NEW i \in 1..n, take[o[i]] # p[o[i]] PROVE t[i] = q
  <2>1. \A j \in 1..n : i < j => take[o[j]] = 0
    BY <1>7, <1>8, <1>9, <1>15
  <2> DEFINE Good == {j \in 0..n : i <= j => t[j] = t[i]}
  <2>2. 0 \in Good
    BY <1>5
  <2>3. ASSUME NEW j \in 1..n, j - 1 \in Good PROVE j \in Good
    <3> SUFFICES ASSUME i <= j PROVE t[j] = t[i]
      BY <1>10
    <3>1. CASE i = j
      BY <3>1
    <3>2. CASE i < j
      <4>1. t[j - 1] = t[i] /\ take[o[j]] = 0
        BY <2>1, <2>3, <3>2
      <4>2. t[j] = take[o[j]] + t[j - 1] /\ t[j - 1] \in Nat
        BY <1>10, <1>12
      <4> QED
        BY <4>1, <4>2
    <3> QED
      BY <3>1, <3>2
  <2> HIDE DEF Good
  <2>4. n \in Good
    BY <1>5, <2>2, <2>3, NumberInduction
  <2> QED
    BY <1>12, <2>4 DEF Good
<1>16. \A i \in 0..n : t[i] <= s[i] /\ t[i] <= q
  <2> DEFINE Low == {i \in 0..n : t[i] <= s[i]}
  <2>1. 0 \in Low
    BY <1>5, <1>11, <1>12
  <2>2. ASSUME NEW i \in 1..n, i - 1 \in Low PROVE i \in Low
    <3>1. t[i] = take[o[i]] + t[i - 1] /\ s[i] = p[o[i]] + s[i - 1]
      BY <1>11, <1>12
    <3>2. t[i - 1] <= s[i - 1] /\ take[o[i]] <= p[o[i]]
      BY <1>7, <1>9, <2>2
    <3>3. take[o[i]] \in Nat /\ p[o[i]] \in Nat /\ t[i - 1] \in Nat /\ s[i - 1] \in Nat
      BY <1>7, <1>9, <1>10, <1>11, <1>12
    <3> QED
      BY <1>10, <3>1, <3>2, <3>3
  <2> HIDE DEF Low
  <2>3. \A i \in 0..n : i \in Low
    BY <1>5, <2>1, <2>2, NumberInduction
  <2>4. \A i \in 0..n : t[i] <= q
    <3> SUFFICES ASSUME NEW i \in 0..n PROVE t[i] <= q
      OBVIOUS
    <3> DEFINE High == {j \in 0..n : i <= j => t[i] <= t[j]}
    <3>1. 0 \in High
      <4>1. i <= 0 => i = 0
        BY <1>5
      <4> QED
        BY <1>5, <1>12, <4>1
    <3>2. ASSUME NEW j \in 1..n, j - 1 \in High PROVE j \in High
      <4> SUFFICES ASSUME i <= j PROVE t[i] <= t[j]
        BY <1>10
      <4>1. t[j] = take[o[j]] + t[j - 1] /\ take[o[j]] \in Nat /\ t[j - 1] \in Nat
        BY <1>7, <1>9, <1>10, <1>12
      <4>2. CASE i = j
        BY <1>12, <4>2
      <4>3. CASE i < j
        <5>1. t[i] <= t[j - 1] /\ t[i] \in Nat
          BY <1>12, <3>2, <4>3
        <5> QED
          BY <4>1, <5>1
      <4> QED
        BY <4>2, <4>3
    <3> HIDE DEF High
    <3>3. n \in High
      BY <1>5, <3>1, <3>2, NumberInduction
    <3> QED
      BY <1>12, <3>3 DEF High
  <2> QED
    BY <2>3, <2>4 DEF Low
<1>17. ASSUME NEW i \in 1..n PROVE take[o[i]] = Lesser(p[o[i]], Missing(q, s[i - 1]))
  <2>0. /\ take[o[i]] \in Nat /\ p[o[i]] \in Nat /\ t[i - 1] \in Nat /\ s[i - 1] \in Nat
        /\ t[i] = take[o[i]] + t[i - 1] /\ t[i - 1] <= s[i - 1] /\ t[i] <= q
        /\ take[o[i]] <= p[o[i]]
    BY <1>7, <1>9, <1>10, <1>11, <1>12, <1>16
  <2>1. CASE take[o[i]] > 0 /\ take[o[i]] = p[o[i]]
    <3>1. t[i - 1] = s[i - 1]
      BY <1>14, <2>1
    <3> QED
      BY <2>0, <2>1, <3>1 DEF Lesser, Missing
  <2>2. CASE take[o[i]] > 0 /\ take[o[i]] # p[o[i]]
    <3>1. t[i - 1] = s[i - 1] /\ t[i] = q
      BY <1>14, <1>15, <2>2
    <3> QED
      BY <2>0, <2>2, <3>1 DEF Lesser, Missing
  <2>3. CASE take[o[i]] = 0 /\ p[o[i]] = 0
    BY <2>0, <2>3 DEF Lesser, Missing
  <2>4. CASE take[o[i]] = 0 /\ p[o[i]] # 0
    <3>1. t[i] = q
      BY <1>15, <2>4
    <3> QED
      BY <2>0, <2>4, <3>1 DEF Lesser, Missing
  <2> QED
    BY <2>0, <2>1, <2>2, <2>3, <2>4
<1>18. GreedyTake(o, p, q) \in [S -> 0..q]
       /\ \A i \in 1..n : GreedyTake(o, p, q)[o[i]] = Lesser(p[o[i]], Missing(q, s[i - 1]))
  <2>1. /\ GreedyTake(o, p, q) \in [S -> 0..q]
        /\ \A i \in 1..n : GreedyTake(o, p, q)[o[i]]
                             = Lesser(p[o[i]], Missing(q, SumFunctionOnSet(p, FirstLots(o, i - 1))))
    BY <1>5, LoopTakes
  <2> QED
    BY <1>13, <2>1
<1>19. take = GreedyTake(o, p, q)
  <2> DEFINE g == GreedyTake(o, p, q)
  <2>1. g \in [S -> 0..q] /\ \A i \in 1..n : g[o[i]] = take[o[i]]
    BY <1>17, <1>18
  <2> HIDE DEF g
  <2>2. \A l \in S : g[l] = take[l]
    BY <1>7, <2>1
  <2>3. take = g
    BY <2>1, <2>2
  <2> QED
    BY <2>3 DEF g
<1> QED
  BY <1>6, <1>19

\* The takes of the loop, over all orders, and the takes first expiring lot first.
LEMMA LoopsAreFirstExpiring ==
  ASSUME NEW S, IsFiniteSet(S), NEW e, \A x \in S : e[x] \in Nat,
         NEW p \in [S -> Nat], NEW q \in Nat
  PROVE  LoopAgrees(S, e, p, q)
<1> DEFINE looped == {GreedyTake(o, p, q) : o \in SortedOrders(S, e)}
<1>1. SumFunction(p) \in Nat
  BY SumCovers
<1>2. ASSUME NEW o \in SortedOrders(S, e)
      PROVE  /\ GreedyTake(o, p, q) \in [S -> 0..q]
             /\ SumFunction(GreedyTake(o, p, q)) = q - Missing(q, SumFunction(p))
  <2> DEFINE n == Cardinality(S)
  <2>1. n \in Nat /\ Lists(o, n, S)
    BY OrderLists
  <2> HIDE DEF n
  <2> QED
    BY <2>1, LoopTakes, LoopSums
<1>3. CASE SumFunction(p) >= q
  <2>1. ASSUME NEW take \in looped
        PROVE  take \in [S -> 0..q] /\ FirstExpiringFirst(take, S, e, p, q)
    <3>1. PICK o \in SortedOrders(S, e) : take = GreedyTake(o, p, q)
      OBVIOUS
    <3>2. FirstExpiringFirst(GreedyTake(o, p, q), S, e, p, q)
      BY <1>1, <1>3, LoopIsFirst
    <3> QED
      BY <1>2, <3>1, <3>2
  <2>2. ASSUME NEW take \in [S -> 0..q], FirstExpiringFirst(take, S, e, p, q)
        PROVE  take \in looped
    BY <2>2, FirstIsLoop
  <2> QED
    BY <1>3, <2>1, <2>2 DEF LoopAgrees
<1>4. CASE ~ (SumFunction(p) >= q)
  <2>1. ASSUME NEW take \in looped PROVE SumFunction(take) < q
    <3>1. PICK o \in SortedOrders(S, e) : take = GreedyTake(o, p, q)
      OBVIOUS
    <3>2. SumFunction(take) = q - Missing(q, SumFunction(p))
      BY <1>2, <3>1
    <3> QED
      BY <1>1, <1>4, <3>2 DEF Missing
  <2> QED
    BY <1>4, <2>1 DEF LoopAgrees
<1> QED
  BY <1>3, <1>4

(* The loop of the code produces exactly the takes the model chooses from, *)
(* in every wallet that arises, for any number of lots and any quantity up *)
(* to the bound: LoopIsFirstExpiringFirst.                                 *)
THEOREM LoopAlwaysFirstExpiring == Spec => []LoopIsFirstExpiringFirst
<1>1. WalletInv => LoopIsFirstExpiringFirst
  <2> SUFFICES ASSUME WalletInv, NEW usable \in Walked, NEW quantity \in 1..MaxHold + 1
               PROVE  LoopAgrees(usable, Expires, [l \in usable |-> balance[l]["available"]], quantity)
    BY DEF LoopIsFirstExpiringFirst
  <2> DEFINE points == [l \in usable |-> balance[l]["available"]]
  <2> DEFINE e == Expires
  <2>1. usable \in SUBSET Lot
    BY DEF Walked, Usable, Unexpired, LotsOf
  <2>2. IsFiniteSet(usable)
    BY <2>1, RowsAreFinite, FS_Subset
  <2>3. \A l \in usable : e[l] \in Nat
    BY <2>1 DEF Expires, WalletInv, TypeOK
  <2>4. \A l \in Lot : balance[l]["available"] \in Nat
    BY BucketNames DEF WalletInv, TypeOK, HoldInv, Solvent
  <2>5. points \in [usable -> Nat]
    BY <2>1, <2>4
  <2>6. quantity \in Nat
    BY WalletConstants
  <2> HIDE DEF points, e
  <2>7. LoopAgrees(usable, e, points, quantity)
    BY ONLY <2>2, <2>3, <2>5, <2>6, LoopsAreFirstExpiring
  <2> QED
    BY <2>7 DEF points, e
<1> QED
  BY <1>1, WalletInvHolds, PTL
=============================================================================
