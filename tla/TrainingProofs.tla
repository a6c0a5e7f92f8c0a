--------------------------- MODULE TrainingProofs ---------------------------
(***************************************************************************)
(* Theorems about training, for any learners, enrollments, grants, lessons *)
(* and limits.                                                             *)
(***************************************************************************)
EXTENDS Training, SumFacts, FiniteSetTheorems, TLAPS

SeatKind == {"none", "reserve", "consume", "release"}
HoldStatus == {"none", "reserved", "consumed", "released"}
EntitlementRow == [quantity : 0..MaxSeats, starts : Time, expires : Time]

RightsTyped(s, t, h) ==
  s \in [Enrollment -> Status] /\ t \in [Enrollment -> SeatKind] /\ h \in [Enrollment -> HoldStatus]

LEMMA TypeParts ==
  TypeOK <=> /\ now \in Time
             /\ tenant \in {"active", "suspended", "offboarding"}
             /\ listed \in BOOLEAN
             /\ member \subseteq Learner
             /\ entitlement \in [Entitlement -> EntitlementRow]
             /\ RightsTyped(status, seat, hold)
             /\ expires \in [Enrollment -> Time]
             /\ started \in [Enrollment -> Time \cup {Never}]
             /\ from \in [Enrollment -> Entitlement \cup {"none"}]
             /\ credited \in [Enrollment -> [Lesson -> Nat]]
             /\ attempts \in [Enrollment -> 0..MaxAttempts]
             /\ certificate \subseteq Enrollment
BY DEF TypeOK, RightsTyped, SeatKind, HoldStatus, EntitlementRow

LEMMA TypePartsNext ==
  ASSUME now' \in Time, tenant' \in {"active", "suspended", "offboarding"}, listed' \in BOOLEAN,
         member' \subseteq Learner, entitlement' \in [Entitlement -> EntitlementRow],
         RightsTyped(status', seat', hold'), expires' \in [Enrollment -> Time],
         started' \in [Enrollment -> Time \cup {Never}], from' \in [Enrollment -> Entitlement \cup {"none"}],
         credited' \in [Enrollment -> [Lesson -> Nat]], attempts' \in [Enrollment -> 0..MaxAttempts],
         certificate' \subseteq Enrollment
  PROVE  TypeOK'
BY DEF TypeOK, RightsTyped, SeatKind, HoldStatus, EntitlementRow

-----------------------------------------------------------------------------
(***************************************************************************)
(* Types.                                                                  *)
(***************************************************************************)
LEMMA ReleasedType ==
  ASSUME RightsTyped(status, seat, hold), NEW E
  PROVE  /\ SeatsWithout(E) \in [Enrollment -> SeatKind]
         /\ HoldsWithout(E) \in [Enrollment -> HoldStatus]
         /\ StatusSwept \in [Enrollment -> Status]
         /\ CancelAll(E) => RightsTyped(status', seat', hold')
BY DEF RightsTyped, SeatsWithout, HoldsWithout, StatusSwept, CancelAll, SeatKind, HoldStatus, Status

LEMMA AssignType ==
  ASSUME TypeOK, NEW e \in Enrollment, Assign(e)
  PROVE  /\ RightsTyped(status', seat', hold')
         /\ expires' \in [Enrollment -> Time]
         /\ from' \in [Enrollment -> Entitlement \cup {"none"}]
<1>1. /\ RightsTyped(status, seat, hold) /\ expires \in [Enrollment -> Time]
      /\ from \in [Enrollment -> Entitlement \cup {"none"}] /\ now \in Time
      /\ entitlement \in [Entitlement -> EntitlementRow]
  BY TypeParts
<1>2. /\ SeatsWithout(Due) \in [Enrollment -> SeatKind] /\ HoldsWithout(Due) \in [Enrollment -> HoldStatus]
      /\ StatusSwept \in [Enrollment -> Status]
  BY <1>1, ReleasedType
<1>3. status' \in [Enrollment -> Status]
  BY <1>2 DEF Assign, Status
<1>4. now + Validity \in Time
  BY <1>1, TrainingConstants DEF Assign, Time
<1>5. CASE \E g \in FirstExpiring(Eligible(SeatsWithout(Due), e)) :
             /\ expires' = [expires EXCEPT ![e] = Earlier(now + Validity, entitlement[g].expires)]
             /\ seat' = [SeatsWithout(Due) EXCEPT ![e] = "reserve"]
             /\ from' = [from EXCEPT ![e] = g]
             /\ hold' = HoldsWithout(Due)
  <2>1. PICK g \in FirstExpiring(Eligible(SeatsWithout(Due), e)) :
             /\ expires' = [expires EXCEPT ![e] = Earlier(now + Validity, entitlement[g].expires)]
             /\ seat' = [SeatsWithout(Due) EXCEPT ![e] = "reserve"]
             /\ from' = [from EXCEPT ![e] = g]
             /\ hold' = HoldsWithout(Due)
    BY <1>5
  <2>2. g \in Entitlement
    BY DEF FirstExpiring, Eligible
  <2>3. entitlement[g].expires \in Time
    BY <1>1, <2>2 DEF EntitlementRow
  <2>4. Earlier(now + Validity, entitlement[g].expires) \in Time
    BY <1>4, <2>3 DEF Earlier
  <2> QED
    BY <1>1, <1>2, <1>3, <2>1, <2>2, <2>4 DEF RightsTyped, SeatKind
<1>6. CASE /\ expires' = [expires EXCEPT ![e] = now + Validity]
           /\ hold' = [HoldsWithout(Due) EXCEPT ![e] = "reserved"]
           /\ seat' = SeatsWithout(Due)
           /\ UNCHANGED from
  BY <1>1, <1>2, <1>3, <1>4, <1>6 DEF RightsTyped, HoldStatus
<1> QED
  BY <1>5, <1>6 DEF Assign

LEMMA InitTyped == Init => TypeOK
<1> SUFFICES ASSUME Init PROVE TypeOK
  OBVIOUS
<1>1. /\ now \in Time /\ 0 \in 0..MaxAttempts
      /\ NoEntitlement \in EntitlementRow
  BY TrainingConstants DEF Init, Time, NoEntitlement, EntitlementRow
<1>2. RightsTyped(status, seat, hold)
  BY DEF Init, RightsTyped, Status, SeatKind, HoldStatus
<1> QED
  BY <1>1, <1>2, TypeParts DEF Init, Time, Never

LEMMA TypeStep == TypeOK /\ [Next]_vars => TypeOK'
<1> SUFFICES ASSUME TypeOK, [Next]_vars PROVE TypeOK'
  OBVIOUS
<1>0. /\ now \in Time /\ tenant \in {"active", "suspended", "offboarding"} /\ listed \in BOOLEAN
      /\ member \subseteq Learner /\ entitlement \in [Entitlement -> EntitlementRow]
      /\ RightsTyped(status, seat, hold) /\ expires \in [Enrollment -> Time]
      /\ started \in [Enrollment -> Time \cup {Never}] /\ from \in [Enrollment -> Entitlement \cup {"none"}]
      /\ credited \in [Enrollment -> [Lesson -> Nat]] /\ attempts \in [Enrollment -> 0..MaxAttempts]
      /\ certificate \subseteq Enrollment
  BY TypeParts
<1>1. CASE Tick
  <2>1. now' \in Time
    BY <1>0, <1>1, TrainingConstants DEF Tick, Time
  <2> QED
    BY <1>0, <1>1, <2>1, TypePartsNext DEF Tick, rights, learning
<1>2. ASSUME NEW g \in Entitlement, NEW quantity \in 1..MaxSeats, NEW window \in Window,
             GrantSeats(g, quantity, window)
      PROVE TypeOK'
  <2>1. [quantity |-> quantity, starts |-> window[1], expires |-> window[2]] \in EntitlementRow
    BY TrainingConstants DEF EntitlementRow, Time
  <2>2. entitlement' \in [Entitlement -> EntitlementRow]
    BY <1>0, <1>2, <2>1 DEF GrantSeats
  <2> QED
    BY <1>0, <1>2, <2>2, TypePartsNext DEF GrantSeats, rights, learning
<1>3. ASSUME NEW e \in Enrollment, Assign(e) PROVE TypeOK'
  BY <1>0, <1>3, AssignType, TypePartsNext DEF Assign, learning
<1>4. ASSUME NEW e \in Enrollment, Cancel(e) PROVE TypeOK'
  <2>1. RightsTyped(status', seat', hold') /\ UNCHANGED <<expires, started, from>>
    BY <1>0, <1>4, ReleasedType DEF Cancel, CancelAll
  <2> QED
    BY <1>0, <1>4, <2>1, TypePartsNext DEF Cancel, learning
<1>5. ASSUME NEW x \in Learner, Deactivate(x) PROVE TypeOK'
  <2>1. RightsTyped(status', seat', hold') /\ UNCHANGED <<expires, started, from>>
    BY <1>0, <1>5, ReleasedType DEF Deactivate, CancelAll
  <2> QED
    BY <1>0, <1>5, <2>1, TypePartsNext DEF Deactivate, learning
<1>6. ASSUME NEW e \in Enrollment, Start(e) PROVE TypeOK'
  <2>1. RightsTyped(status', seat', hold')
    BY <1>0, <1>6 DEF Start, ConsumeHold, ConsumeSeat, RightsTyped, Status, SeatKind, HoldStatus
  <2>2. started' \in [Enrollment -> Time \cup {Never}]
    BY <1>0, <1>6 DEF Start
  <2> QED
    BY <1>0, <1>6, <2>1, <2>2, TypePartsNext DEF Start, learning
<1>7. ASSUME NEW e \in Enrollment, NEW l \in Lesson, NEW seconds \in 1..MaxSave, SaveProgress(e, l, seconds)
      PROVE TypeOK'
  <2>1. MinSeconds[l] \in Nat /\ credited[e] \in [Lesson -> Nat] /\ credited[e][l] \in Nat /\ seconds \in Nat
    BY <1>0, TrainingConstants
  <2>2. credited[e][l] + Increment(e, l, seconds) \in Nat
    BY <1>7, <2>1 DEF SaveProgress, Increment, Earlier
  <2>3. credited' \in [Enrollment -> [Lesson -> Nat]]
    BY <1>0, <1>7, <2>1, <2>2 DEF SaveProgress
  <2> QED
    BY <1>0, <1>7, <2>3, TypePartsNext DEF SaveProgress, rights
<1>8. ASSUME NEW e \in Enrollment, NEW passed \in BOOLEAN, SubmitAttempt(e, passed) PROVE TypeOK'
  <2>1. attempts[e] + 1 \in 0..MaxAttempts
    BY <1>0, <1>8, TrainingConstants DEF SubmitAttempt, AssessmentReady
  <2>2. attempts' \in [Enrollment -> 0..MaxAttempts]
    BY <1>0, <1>8, <2>1 DEF SubmitAttempt
  <2>3. RightsTyped(status', seat', hold')
    BY <1>0, <1>8 DEF SubmitAttempt, RightsTyped, Status
  <2>4. certificate' \subseteq Enrollment
    BY <1>0, <1>8 DEF SubmitAttempt
  <2> QED
    BY <1>0, <1>8, <2>2, <2>3, <2>4, TypePartsNext DEF SubmitAttempt
<1>9. CASE Offboard
  <2>1. RightsTyped(status', seat', hold') /\ UNCHANGED <<expires, started, from>>
    BY <1>0, <1>9, ReleasedType DEF Offboard, CancelAll
  <2> QED
    BY <1>0, <1>9, <2>1, TypePartsNext DEF Offboard, learning
<1>10. ASSUME NEW next \in {"active", "suspended"}, SetTenantStatus(next) PROVE TypeOK'
  BY <1>0, <1>10, TypePartsNext DEF SetTenantStatus, rights, learning
<1>11. CASE ListTenant
  BY <1>0, <1>11, TypePartsNext DEF ListTenant, rights, learning
<1>12. CASE Sweep
  <2>1. RightsTyped(status', seat', hold')
    BY <1>0, <1>12, ReleasedType DEF Sweep, RightsTyped
  <2> QED
    BY <1>0, <1>12, <2>1, TypePartsNext DEF Sweep, learning
<1>13. CASE UNCHANGED vars
  BY <1>0, <1>13, TypePartsNext DEF vars, rights, learning
<1> QED
  BY <1>1, <1>2, <1>3, <1>4, <1>5, <1>6, <1>7, <1>8, <1>9, <1>10, <1>11, <1>12, <1>13
  DEF Next, ByCustomer, ByLearner, ByPlatform

(***************************************************************************)
(* The variables always hold values of their types: in particular no more  *)
(* attempts are made than a course allows.                                 *)
(***************************************************************************)
THEOREM TrainingTypeCorrect == Spec => []TypeOK
<1> QED
  BY InitTyped, TypeStep, PTL DEF Spec

-----------------------------------------------------------------------------
(***************************************************************************)
(* Authorizations follow enrollments, one by one.                          *)
(***************************************************************************)
Fits(s, t, h) ==
  /\ t = "none" \/ h = "none"
  /\ s = "assigned" <=> (t = "reserve" \/ h = "reserved")
  /\ s \in {"active", "completed"} <=> (t = "consume" \/ h = "consumed")
  /\ s \in {"cancelled", "expired"} <=> (t = "release" \/ h = "released")

LEMMA FollowsParts ==
  AuthorizationFollowsEnrollment <=> \A e \in Enrollment : Fits(status[e], seat[e], hold[e])
BY DEF AuthorizationFollowsEnrollment, Fits

LEMMA FollowsPartsNext ==
  (\A e \in Enrollment : Fits(status'[e], seat'[e], hold'[e])) => AuthorizationFollowsEnrollment'
BY DEF AuthorizationFollowsEnrollment, Fits

(* What cancelling or sweeping does to one enrollment.                     *)
LEMMA EndedFits ==
  ASSUME NEW t, NEW h, Fits("assigned", t, h), NEW s \in {"cancelled", "expired"}
  PROVE  Fits(s, IF t = "reserve" THEN "release" ELSE t, IF h = "reserved" THEN "released" ELSE h)
BY DEF Fits

LEMMA CancelAllFits ==
  ASSUME AuthorizationFollowsEnrollment, NEW E \in SUBSET Enrollment, \A e \in E : Unstarted(e), CancelAll(E)
  PROVE  AuthorizationFollowsEnrollment'
<1> SUFFICES ASSUME NEW e \in Enrollment PROVE Fits(status'[e], seat'[e], hold'[e])
  BY FollowsPartsNext
<1>1. Fits(status[e], seat[e], hold[e])
  BY FollowsParts
<1>2. CASE e \in E
  <2>1. Fits("assigned", seat[e], hold[e])
    BY <1>1, <1>2 DEF Unstarted
  <2>2. /\ status'[e] = "cancelled"
        /\ seat'[e] = IF seat[e] = "reserve" THEN "release" ELSE seat[e]
        /\ hold'[e] = IF hold[e] = "reserved" THEN "released" ELSE hold[e]
    BY <1>2 DEF CancelAll, SeatsWithout, HoldsWithout
  <2> QED
    BY <2>1, <2>2, EndedFits
<1>3. CASE e \notin E
  BY <1>1, <1>3 DEF CancelAll, SeatsWithout, HoldsWithout
<1> QED
  BY <1>2, <1>3

LEMMA SweptFits ==
  ASSUME AuthorizationFollowsEnrollment, NEW e \in Enrollment
  PROVE  /\ Fits(StatusSwept[e], SeatsWithout(Due)[e], HoldsWithout(Due)[e])
         /\ status[e] = "none" => /\ StatusSwept[e] = "none" /\ SeatsWithout(Due)[e] = seat[e]
                                  /\ HoldsWithout(Due)[e] = hold[e]
<1>1. Fits(status[e], seat[e], hold[e])
  BY FollowsParts
<1>2. CASE e \in Due
  <2>1. status[e] = "assigned" /\ Fits("assigned", seat[e], hold[e])
    BY <1>1, <1>2 DEF Due, Unstarted
  <2>2. /\ StatusSwept[e] \in {"cancelled", "expired"}
        /\ SeatsWithout(Due)[e] = IF seat[e] = "reserve" THEN "release" ELSE seat[e]
        /\ HoldsWithout(Due)[e] = IF hold[e] = "reserved" THEN "released" ELSE hold[e]
    BY <1>2 DEF StatusSwept, SeatsWithout, HoldsWithout
  <2> QED
    BY <2>1, <2>2, EndedFits
<1>3. CASE e \notin Due
  BY <1>1, <1>3 DEF StatusSwept, SeatsWithout, HoldsWithout
<1> QED
  BY <1>2, <1>3

(* An enrollment that is not there has no authorization.                   *)
LEMMA NoneIsBare ==
  ASSUME TypeOK, AuthorizationFollowsEnrollment, NEW e \in Enrollment, status[e] = "none"
  PROVE  seat[e] = "none" /\ hold[e] = "none"
<1>1. Fits("none", seat[e], hold[e])
  BY FollowsParts
<1>2. seat[e] \in SeatKind /\ hold[e] \in HoldStatus
  BY TypeParts DEF RightsTyped
<1> QED
  BY <1>1, <1>2 DEF Fits, SeatKind, HoldStatus

LEMMA AssignFits ==
  ASSUME TypeOK, AuthorizationFollowsEnrollment, NEW e \in Enrollment, Assign(e)
  PROVE  AuthorizationFollowsEnrollment'
<1> DEFINE s == StatusSwept
           t == SeatsWithout(Due)
           h == HoldsWithout(Due)
<1>1. \A d \in Enrollment : Fits(s[d], t[d], h[d])
  BY SweptFits
<1>2. t[e] = "none" /\ h[e] = "none"
  BY SweptFits, NoneIsBare DEF Assign
<1>3. s \in [Enrollment -> Status] /\ t \in [Enrollment -> SeatKind] /\ h \in [Enrollment -> HoldStatus]
  BY TypeParts, ReleasedType
<1>4. /\ status' = [s EXCEPT ![e] = "assigned"]
      /\ \/ seat' = [t EXCEPT ![e] = "reserve"] /\ hold' = h
         \/ seat' = t /\ hold' = [h EXCEPT ![e] = "reserved"]
  BY DEF Assign
<1> HIDE DEF s, t, h
<1>5. \A d \in Enrollment : d # e => status'[d] = s[d] /\ seat'[d] = t[d] /\ hold'[d] = h[d]
  BY <1>3, <1>4
<1>6. Fits(status'[e], seat'[e], hold'[e])
  BY <1>2, <1>3, <1>4 DEF Fits
<1> QED
  BY <1>1, <1>5, <1>6, FollowsPartsNext

LEMMA StartFits ==
  ASSUME TypeOK, AuthorizationFollowsEnrollment, NEW e \in Enrollment, Start(e)
  PROVE  AuthorizationFollowsEnrollment'
<1>1. /\ status \in [Enrollment -> Status] /\ seat \in [Enrollment -> SeatKind]
      /\ hold \in [Enrollment -> HoldStatus]
  BY TypeParts DEF RightsTyped
<1>2. status'[e] = "active" /\ \A d \in Enrollment : d # e => status'[d] = status[d]
  BY <1>1 DEF Start
<1>3. \A d \in Enrollment : d # e => seat'[d] = seat[d] /\ hold'[d] = hold[d]
  BY <1>1 DEF Start, ConsumeHold, ConsumeSeat
<1>4. Fits("assigned", seat[e], hold[e])
  BY FollowsParts DEF Start
<1>5. Fits("active", seat'[e], hold'[e])
  <2>1. CASE ConsumeHold(e)
    BY <1>1, <1>4, <2>1 DEF ConsumeHold, Fits, HoldStatus
  <2>2. CASE ConsumeSeat(e)
    BY <1>1, <1>4, <2>2 DEF ConsumeSeat, Fits, SeatKind
  <2> QED
    BY <2>1, <2>2 DEF Start
<1> QED
  BY <1>2, <1>3, <1>5, FollowsParts, FollowsPartsNext

LEMMA FollowsStep == TypeOK /\ AuthorizationFollowsEnrollment /\ [Next]_vars => AuthorizationFollowsEnrollment'
<1> SUFFICES ASSUME TypeOK, AuthorizationFollowsEnrollment, [Next]_vars PROVE AuthorizationFollowsEnrollment'
  OBVIOUS
<1>1. ASSUME UNCHANGED <<status, seat, hold>> PROVE AuthorizationFollowsEnrollment'
  BY <1>1, FollowsParts, FollowsPartsNext
<1>2. ASSUME NEW e \in Enrollment, Cancel(e) PROVE AuthorizationFollowsEnrollment'
  BY <1>2, CancelAllFits DEF Cancel
<1>3. ASSUME NEW x \in Learner, Deactivate(x) PROVE AuthorizationFollowsEnrollment'
  BY <1>3, CancelAllFits DEF Deactivate
<1>4. CASE Offboard
  BY <1>4, CancelAllFits DEF Offboard
<1>5. CASE Sweep
  BY <1>5, SweptFits, FollowsPartsNext DEF Sweep
<1>6. ASSUME NEW e \in Enrollment, NEW passed \in BOOLEAN, SubmitAttempt(e, passed)
      PROVE AuthorizationFollowsEnrollment'
  <2>1. /\ status[e] = "active" /\ status'[e] \in {"active", "completed"}
        /\ \A d \in Enrollment : d # e => status'[d] = status[d]
        /\ UNCHANGED <<seat, hold>>
    BY <1>6, TypeParts DEF SubmitAttempt, RightsTyped
  <2>2. Fits("active", seat[e], hold[e]) => Fits("completed", seat[e], hold[e])
    BY DEF Fits
  <2> QED
    BY <2>1, <2>2, FollowsParts, FollowsPartsNext
<1> QED
  BY <1>1, <1>2, <1>3, <1>4, <1>5, <1>6, AssignFits, StartFits
  DEF Next, ByCustomer, ByLearner, ByPlatform, vars, rights, Tick, GrantSeats, SaveProgress,
      SetTenantStatus, ListTenant

LEMMA InitFits == Init => AuthorizationFollowsEnrollment
BY DEF Init, AuthorizationFollowsEnrollment

(***************************************************************************)
(* Every enrollment has exactly the authorization its status calls for,    *)
(* whoever cancels, starts, sweeps or offboards.                           *)
(***************************************************************************)
THEOREM AuthorizationsFollowEnrollments == Spec => []AuthorizationFollowsEnrollment
<1> QED
  BY InitTyped, TypeStep, InitFits, FollowsStep, PTL DEF Spec

-----------------------------------------------------------------------------
(***************************************************************************)
(* Seats.  A step gives seats back, or takes one of a grant that has one   *)
(* free for an enrollment that had none.                                   *)
(***************************************************************************)

LEMMA FewerOccupied ==
  ASSUME NEW g \in Entitlement, entitlement[g].quantity \in Nat, SeatsNotOversold,
         NEW E, E \subseteq Occupied(seat, g)
  PROVE  Cardinality(E) <= entitlement[g].quantity
<1>1. IsFiniteSet(Occupied(seat, g))
  BY TrainingConstants, FS_Subset DEF Occupied
<1>2. IsFiniteSet(E) /\ Cardinality(E) <= Cardinality(Occupied(seat, g))
  BY <1>1, FS_Subset
<1>3. Cardinality(E) \in Nat /\ Cardinality(Occupied(seat, g)) \in Nat
  BY <1>1, <1>2, FS_CardinalityType
<1> QED
  BY <1>2, <1>3 DEF SeatsNotOversold

LEMMA SeatsGivenBack ==
  ASSUME TypeOK, SeatsNotOversold, UNCHANGED entitlement,
         \A d \in Enrollment : seat'[d] \in {"reserve", "consume"} =>
           seat[d] \in {"reserve", "consume"} /\ from'[d] = from[d]
  PROVE  SeatsNotOversold'
<1> SUFFICES ASSUME NEW g \in Entitlement
             PROVE Cardinality(Occupied(seat, g)') <= entitlement[g].quantity
  BY DEF SeatsNotOversold
<1>1. Occupied(seat, g)' \subseteq Occupied(seat, g)
  BY DEF Occupied
<1>2. entitlement[g].quantity \in Nat
  BY TypeParts, TrainingConstants DEF EntitlementRow
<1> QED
  BY <1>1, <1>2, FewerOccupied

LEMMA SeatTaken ==
  ASSUME TypeOK, SeatsNotOversold, UNCHANGED entitlement, NEW e \in Enrollment, NEW g \in Entitlement,
         NEW seats, \A d \in Enrollment : seats[d] \in {"reserve", "consume"} => seat[d] \in {"reserve", "consume"},
         Cardinality(Occupied(seats, g)) < entitlement[g].quantity,
         from'[e] = g, \A d \in Enrollment : d # e => seat'[d] = seats[d] /\ from'[d] = from[d]
  PROVE  SeatsNotOversold'
<1> SUFFICES ASSUME NEW h \in Entitlement
             PROVE Cardinality(Occupied(seat, h)') <= entitlement[h].quantity
  BY DEF SeatsNotOversold
<1>1. entitlement[h].quantity \in Nat
  BY TypeParts, TrainingConstants DEF EntitlementRow
<1>2. CASE h # g
  <2>1. Occupied(seat, h)' \subseteq Occupied(seat, h)
    BY <1>2 DEF Occupied
  <2> QED
    BY <1>1, <2>1, FewerOccupied
<1>3. CASE h = g
  <2> DEFINE C == Occupied(seats, g)
  <2>1. Occupied(seat, h)' \subseteq C \cup {e}
    BY <1>3 DEF Occupied
  <2>2. IsFiniteSet(C)
    BY TrainingConstants, FS_Subset DEF Occupied
  <2>3. Cardinality(C) < entitlement[h].quantity
    BY <1>3
  <2> HIDE DEF C
  <2>4. IsFiniteSet(C \cup {e}) /\ Cardinality(C \cup {e}) <= Cardinality(C) + 1 /\ Cardinality(C) \in Nat
    <3>1. Cardinality(C) \in Nat
      BY <2>2, FS_CardinalityType
    <3>2. /\ IsFiniteSet(C \cup {e})
          /\ Cardinality(C \cup {e}) = IF e \in C THEN Cardinality(C) ELSE Cardinality(C) + 1
      BY <2>2, FS_AddElement
    <3> QED
      BY <3>1, <3>2
  <2>5. /\ Cardinality(Occupied(seat, h)') <= Cardinality(C \cup {e})
        /\ Cardinality(Occupied(seat, h)') \in Nat /\ Cardinality(C \cup {e}) \in Nat
    BY <2>1, <2>4, FS_Subset, FS_CardinalityType
  <2> QED
    BY <1>1, <2>3, <2>4, <2>5
<1> QED
  BY <1>2, <1>3

LEMMA SeatsAfterRelease ==
  ASSUME NEW E, NEW d \in Enrollment, SeatsWithout(E)[d] \in {"reserve", "consume"}
  PROVE  seat[d] \in {"reserve", "consume"}
BY DEF SeatsWithout

LEMMA AssignKeepsSeats ==
  ASSUME TypeOK, SeatsNotOversold, NEW e \in Enrollment, Assign(e)
  PROVE  SeatsNotOversold'
<1> DEFINE t == SeatsWithout(Due)
<1>1. t \in [Enrollment -> SeatKind] /\ from \in [Enrollment -> Entitlement \cup {"none"}]
  BY TypeParts, ReleasedType
<1>2. \A d \in Enrollment : t[d] \in {"reserve", "consume"} => seat[d] \in {"reserve", "consume"}
  BY SeatsAfterRelease
<1>3. UNCHANGED entitlement
  BY DEF Assign
<1>4. \/ \E g \in FirstExpiring(Eligible(t, e)) :
            seat' = [t EXCEPT ![e] = "reserve"] /\ from' = [from EXCEPT ![e] = g]
      \/ seat' = t /\ from' = from
  BY DEF Assign
<1>5. \A g \in FirstExpiring(Eligible(t, e)) :
        g \in Entitlement /\ Cardinality(Occupied(t, g)) < entitlement[g].quantity
  BY DEF FirstExpiring, Eligible
<1> HIDE DEF t
<1>6. ASSUME NEW g \in FirstExpiring(Eligible(t, e)), seat' = [t EXCEPT ![e] = "reserve"],
             from' = [from EXCEPT ![e] = g]
      PROVE SeatsNotOversold'
  <2>1. g \in Entitlement /\ Cardinality(Occupied(t, g)) < entitlement[g].quantity
    BY <1>5, <1>6
  <2>2. from'[e] = g /\ \A d \in Enrollment : d # e => seat'[d] = t[d] /\ from'[d] = from[d]
    BY <1>1, <1>6
  <2> QED
    BY <1>2, <1>3, <2>1, <2>2, SeatTaken
<1>7. CASE seat' = t /\ from' = from
  BY <1>2, <1>3, <1>7, SeatsGivenBack
<1> QED
  BY <1>4, <1>6, <1>7

LEMMA SeatsStep == TypeOK /\ SeatsNotOversold /\ [Next]_vars => SeatsNotOversold'
<1> SUFFICES ASSUME TypeOK, SeatsNotOversold, [Next]_vars PROVE SeatsNotOversold'
  OBVIOUS
<1>1. ASSUME UNCHANGED <<seat, from, entitlement>> PROVE SeatsNotOversold'
  BY <1>1, SeatsGivenBack
<1>2. ASSUME NEW E, CancelAll(E), UNCHANGED entitlement PROVE SeatsNotOversold'
  BY <1>2, SeatsAfterRelease, SeatsGivenBack DEF CancelAll
<1>3. ASSUME NEW g \in Entitlement, NEW quantity \in 1..MaxSeats, NEW window \in Window,
             GrantSeats(g, quantity, window)
      PROVE SeatsNotOversold'
  <2>1. /\ entitlement[g].quantity = 0 /\ entitlement'[g].quantity = quantity
        /\ \A h \in Entitlement : h # g => entitlement'[h] = entitlement[h]
        /\ UNCHANGED <<seat, from>>
    BY <1>3, TypeParts DEF GrantSeats, rights
  <2>2. Cardinality(Occupied(seat, g)) \in Nat
    BY TrainingConstants, FS_Subset, FS_CardinalityType DEF Occupied
  <2>3. \A h \in Entitlement : Occupied(seat, h)' = Occupied(seat, h)
    BY <2>1 DEF Occupied
  <2> QED
    BY <2>1, <2>2, <2>3 DEF SeatsNotOversold
<1>4. ASSUME NEW e \in Enrollment, Start(e) PROVE SeatsNotOversold'
  <2>1. /\ \A d \in Enrollment : seat'[d] \in {"reserve", "consume"} => seat[d] \in {"reserve", "consume"}
        /\ UNCHANGED <<from, entitlement>>
    BY <1>4, TypeParts DEF Start, ConsumeHold, ConsumeSeat, RightsTyped
  <2> QED
    BY <2>1, SeatsGivenBack
<1>5. CASE Sweep
  BY <1>5, SeatsAfterRelease, SeatsGivenBack DEF Sweep
<1> QED
  BY <1>1, <1>2, <1>3, <1>4, <1>5, AssignKeepsSeats
  DEF Next, ByCustomer, ByLearner, ByPlatform, vars, rights, Tick, Cancel, Deactivate, SaveProgress,
      SubmitAttempt, SetTenantStatus, Offboard, ListTenant

LEMMA InitSeats == Init => SeatsNotOversold
<1> SUFFICES ASSUME Init, NEW g \in Entitlement PROVE Cardinality(Occupied(seat, g)) <= entitlement[g].quantity
  BY DEF SeatsNotOversold
<1>1. Occupied(seat, g) = {}
  BY DEF Init, Occupied
<1>2. entitlement[g].quantity = 0
  BY DEF Init, NoEntitlement
<1> QED
  BY <1>1, <1>2, FS_EmptySet

(***************************************************************************)
(* However many enrollments compete for the seats of a grant, and however  *)
(* often seats come back, no more are in use than were granted.            *)
(***************************************************************************)
THEOREM SeatsNeverOversold == Spec => []SeatsNotOversold
<1> QED
  BY InitTyped, TypeStep, InitSeats, SeatsStep, PTL DEF Spec

-----------------------------------------------------------------------------
(***************************************************************************)
(* Starting in time.  A seat belongs to a grant that is there and that     *)
(* ends no earlier than the enrollment; only started courses have a start. *)
(***************************************************************************)
WithinGrant(e) ==
  seat[e] # "none" =>
    /\ from[e] \in Entitlement
    /\ entitlement[from[e]].quantity # 0
    /\ expires[e] <= entitlement[from[e]].expires

WithinTime(e) ==
  started[e] # Never =>
    /\ status[e] \in {"active", "completed"}
    /\ started[e] < expires[e]
    /\ seat[e] # "none" => entitlement[from[e]].starts <= started[e]

WindowInv == \A e \in Enrollment : WithinGrant(e) /\ WithinTime(e)

LEMMA WindowImplies == WindowInv => StartedInTime
BY DEF WindowInv, WithinGrant, WithinTime, StartedInTime

(* An enrollment keeps its grant and its start when it is ended unstarted. *)
LEMMA WindowKept ==
  ASSUME WindowInv, NEW e \in Enrollment, entitlement' = entitlement, expires'[e] = expires[e],
         from'[e] = from[e], started'[e] = started[e],
         seat'[e] = "none" <=> seat[e] = "none",
         status'[e] = status[e] \/ status[e] \notin {"active", "completed"}
  PROVE  WithinGrant(e)' /\ WithinTime(e)'
BY DEF WindowInv, WithinGrant, WithinTime

LEMMA EndedKeeps ==
  ASSUME NEW E, NEW d \in Enrollment
  PROVE  /\ SeatsWithout(E)[d] = "none" <=> seat[d] = "none"
         /\ StatusSwept[d] = status[d] \/ status[d] = "assigned"
BY DEF SeatsWithout, StatusSwept, Due, Unstarted

LEMMA CancelAllWindow ==
  ASSUME WindowInv, NEW E \in SUBSET Enrollment, \A e \in E : Unstarted(e), CancelAll(E), UNCHANGED entitlement
  PROVE  WindowInv'
<1> SUFFICES ASSUME NEW d \in Enrollment PROVE WithinGrant(d)' /\ WithinTime(d)'
  BY DEF WindowInv
<1>1. /\ seat'[d] = "none" <=> seat[d] = "none"
      /\ expires'[d] = expires[d] /\ from'[d] = from[d] /\ started'[d] = started[d]
  BY EndedKeeps DEF CancelAll
<1>2. status'[d] = status[d] \/ status[d] = "assigned"
  BY DEF CancelAll, Unstarted
<1> QED
  BY <1>1, <1>2, WindowKept

LEMMA AssignWindow ==
  ASSUME TypeOK, AuthorizationFollowsEnrollment, WindowInv, NEW e \in Enrollment, Assign(e)
  PROVE  WindowInv'
<1> DEFINE t == SeatsWithout(Due)
           s == StatusSwept
<1>1. /\ t \in [Enrollment -> SeatKind] /\ from \in [Enrollment -> Entitlement \cup {"none"}]
      /\ s \in [Enrollment -> Status] /\ expires \in [Enrollment -> Time] /\ now \in Time
  BY TypeParts, ReleasedType
<1>2. t[e] = "none" /\ started[e] = Never
  BY SweptFits, NoneIsBare DEF Assign, WindowInv, WithinTime
<1>3. \A d \in Enrollment : (t[d] = "none" <=> seat[d] = "none") /\ (s[d] = status[d] \/ status[d] = "assigned")
  BY EndedKeeps
<1>4. /\ status' = [s EXCEPT ![e] = "assigned"] /\ UNCHANGED <<entitlement, started>>
      /\ \/ \E g \in FirstExpiring(Eligible(t, e)) :
              /\ expires' = [expires EXCEPT ![e] = Earlier(now + Validity, entitlement[g].expires)]
              /\ seat' = [t EXCEPT ![e] = "reserve"] /\ from' = [from EXCEPT ![e] = g]
         \/ expires' = [expires EXCEPT ![e] = now + Validity] /\ seat' = t /\ from' = from
  BY DEF Assign
<1>5. \A g \in FirstExpiring(Eligible(t, e)) : g \in Entitlement /\ entitlement[g].quantity # 0
  <2> SUFFICES ASSUME NEW g \in FirstExpiring(Eligible(t, e)) PROVE g \in Entitlement /\ entitlement[g].quantity # 0
    OBVIOUS
  <2>1. g \in Entitlement /\ Cardinality(Occupied(t, g)) < entitlement[g].quantity
    BY DEF FirstExpiring, Eligible
  <2>2. Cardinality(Occupied(t, g)) \in Nat
    BY TrainingConstants, FS_Subset, FS_CardinalityType DEF Occupied
  <2> QED
    BY <2>1, <2>2
<1> HIDE DEF t, s
<1>6. ASSUME NEW d \in Enrollment, d # e PROVE WithinGrant(d)' /\ WithinTime(d)'
  <2>1. /\ expires'[d] = expires[d] /\ from'[d] = from[d] /\ seat'[d] = t[d] /\ status'[d] = s[d]
        /\ started'[d] = started[d]
    BY <1>1, <1>4, <1>6
  <2> QED
    BY <1>3, <1>4, <2>1, WindowKept
<1>7. WithinTime(e)'
  BY <1>2, <1>4 DEF WithinTime
<1>8. WithinGrant(e)'
  <2>1. ASSUME NEW g \in FirstExpiring(Eligible(t, e)), from' = [from EXCEPT ![e] = g],
               expires' = [expires EXCEPT ![e] = Earlier(now + Validity, entitlement[g].expires)]
        PROVE WithinGrant(e)'
    <3>1. g \in Entitlement /\ entitlement[g].quantity # 0 /\ entitlement[g].expires \in Nat
      BY <1>5, <2>1, TypeParts, TrainingConstants DEF EntitlementRow, Time
    <3>2. now + Validity \in Nat
      BY <1>1, TrainingConstants DEF Time
    <3>3. from'[e] = g /\ expires'[e] <= entitlement[g].expires
      BY <1>1, <2>1, <3>1, <3>2 DEF Earlier
    <3> QED
      BY <1>4, <3>1, <3>3 DEF WithinGrant
  <2>2. CASE seat' = t
    BY <1>2, <2>2 DEF WithinGrant
  <2> QED
    BY <1>4, <2>1, <2>2
<1> QED
  BY <1>6, <1>7, <1>8 DEF WindowInv

LEMMA StartWindow ==
  ASSUME TypeOK, AuthorizationFollowsEnrollment, WindowInv, NEW e \in Enrollment, Start(e)
  PROVE  WindowInv'
<1>1. /\ status \in [Enrollment -> Status] /\ seat \in [Enrollment -> SeatKind]
      /\ hold \in [Enrollment -> HoldStatus] /\ started \in [Enrollment -> Time \cup {Never}]
      /\ UNCHANGED <<entitlement, expires, from>>
  BY TypeParts DEF RightsTyped, Start
<1>2. Fits("assigned", seat[e], hold[e])
  BY FollowsParts DEF Start
<1>3. ASSUME NEW d \in Enrollment, d # e PROVE WithinGrant(d)' /\ WithinTime(d)'
  <2>1. status'[d] = status[d] /\ started'[d] = started[d] /\ seat'[d] = seat[d]
    BY <1>1, <1>3 DEF Start, ConsumeHold, ConsumeSeat
  <2> QED
    BY <1>1, <2>1, WindowKept
<1>4. status'[e] = "active" /\ started'[e] = now /\ now < expires[e]
  BY <1>1, TypeParts, TrainingConstants DEF Start, MayLearn, InTime, Time
<1>5. CASE ConsumeHold(e)
  <2>1. seat'[e] = "none"
    BY <1>2, <1>5 DEF ConsumeHold, Fits
  <2> QED
    BY <1>1, <1>3, <1>4, <2>1 DEF WindowInv, WithinGrant, WithinTime
<1>6. CASE ConsumeSeat(e)
  <2>1. seat[e] = "reserve" /\ Open(from[e])
    BY <1>2, <1>6 DEF ConsumeSeat, Fits
  <2>2. WithinGrant(e)' /\ WithinTime(e)'
    BY <1>1, <1>4, <2>1 DEF WindowInv, WithinGrant, WithinTime, Open
  <2> QED
    BY <1>3, <2>2 DEF WindowInv
<1> QED
  BY <1>5, <1>6 DEF Start

LEMMA WindowStep == TypeOK /\ AuthorizationFollowsEnrollment /\ WindowInv /\ [Next]_vars => WindowInv'
<1> SUFFICES ASSUME TypeOK, AuthorizationFollowsEnrollment, WindowInv, [Next]_vars PROVE WindowInv'
  OBVIOUS
<1>1. ASSUME UNCHANGED <<entitlement, rights>> PROVE WindowInv'
  BY <1>1, WindowKept DEF WindowInv, rights
<1>2. ASSUME NEW g \in Entitlement, NEW quantity \in 1..MaxSeats, NEW window \in Window,
             GrantSeats(g, quantity, window)
      PROVE WindowInv'
  <2>1. /\ entitlement[g].quantity = 0 /\ UNCHANGED rights
        /\ \A h \in Entitlement : h # g => entitlement'[h] = entitlement[h]
    BY <1>2, TypeParts DEF GrantSeats
  <2> QED
    BY <2>1 DEF WindowInv, WithinGrant, WithinTime, rights
<1>3. ASSUME NEW e \in Enrollment, Cancel(e) PROVE WindowInv'
  BY <1>3, CancelAllWindow DEF Cancel
<1>4. ASSUME NEW x \in Learner, Deactivate(x) PROVE WindowInv'
  BY <1>4, CancelAllWindow DEF Deactivate
<1>5. CASE Offboard
  BY <1>5, CancelAllWindow DEF Offboard
<1>6. CASE Sweep
  <2> SUFFICES ASSUME NEW d \in Enrollment PROVE WithinGrant(d)' /\ WithinTime(d)'
    BY DEF WindowInv
  <2> QED
    BY <1>6, EndedKeeps, WindowKept DEF Sweep
<1>7. ASSUME NEW e \in Enrollment, NEW passed \in BOOLEAN, SubmitAttempt(e, passed) PROVE WindowInv'
  <2>1. /\ status[e] = "active" /\ status'[e] \in {"active", "completed"}
        /\ \A d \in Enrollment : d # e => status'[d] = status[d]
        /\ UNCHANGED <<entitlement, expires, started, seat, from>>
    BY <1>7, TypeParts DEF SubmitAttempt, RightsTyped
  <2> QED
    BY <2>1 DEF WindowInv, WithinGrant, WithinTime
<1> QED
  BY <1>1, <1>2, <1>3, <1>4, <1>5, <1>6, <1>7, AssignWindow, StartWindow
  DEF Next, ByCustomer, ByLearner, ByPlatform, vars, Tick, SaveProgress, SetTenantStatus, ListTenant

LEMMA InitWindow == Init => WindowInv
BY DEF Init, WindowInv, WithinGrant, WithinTime

(***************************************************************************)
(* Every course that was started was started before it expired and within  *)
(* the period of the grant that paid for it.                               *)
(***************************************************************************)
THEOREM CoursesStartInTime == Spec => []StartedInTime
<1> QED
  BY InitTyped, TypeStep, InitFits, FollowsStep, InitWindow, WindowStep, WindowImplies, PTL DEF Spec

-----------------------------------------------------------------------------
(***************************************************************************)
(* Certificates.  Lessons are never credited beyond what they ask for.     *)
(***************************************************************************)
Capped == \A e \in Enrollment, l \in Lesson : credited[e][l] <= MinSeconds[l]

CertificateInv ==
  /\ Capped
  /\ \A e \in Enrollment : e \in certificate <=> status[e] = "completed"
  /\ \A e \in certificate : attempts[e] \in 1..MaxAttempts

LEMMA CertificateImplies ==
  TypeOK /\ AuthorizationFollowsEnrollment /\ CertificateInv => CertificatesEarned
<1> SUFFICES ASSUME TypeOK, AuthorizationFollowsEnrollment, CertificateInv PROVE CertificatesEarned
  OBVIOUS
<1>1. certificate \subseteq Enrollment
  BY TypeParts
<1>2. \A e \in certificate : seat[e] = "consume" \/ hold[e] = "consumed"
  BY <1>1, FollowsParts DEF CertificateInv, Fits
<1> QED
  BY <1>1, <1>2 DEF CertificatesEarned, CertificateInv

(* Steps that start, end or assign courses, none of them completed.        *)
LEMMA CertificateKept ==
  ASSUME CertificateInv, UNCHANGED learning,
         \A d \in Enrollment : status'[d] = "completed" <=> status[d] = "completed"
  PROVE  CertificateInv'
BY DEF CertificateInv, Capped, learning

LEMMA CancelAllCertificates ==
  ASSUME NEW E, \A e \in E : Unstarted(e), CancelAll(E)
  PROVE  \A d \in Enrollment : status'[d] = "completed" <=> status[d] = "completed"
BY DEF CancelAll, Unstarted

LEMMA CertificateStep == TypeOK /\ CertificateInv /\ [Next]_vars => CertificateInv'
<1> SUFFICES ASSUME TypeOK, CertificateInv, [Next]_vars PROVE CertificateInv'
  OBVIOUS
<1>0. /\ status \in [Enrollment -> Status] /\ credited \in [Enrollment -> [Lesson -> Nat]]
      /\ attempts \in [Enrollment -> 0..MaxAttempts] /\ certificate \subseteq Enrollment
  BY TypeParts DEF RightsTyped
<1>1. ASSUME UNCHANGED <<status, learning>> PROVE CertificateInv'
  BY <1>1, CertificateKept
<1>2. ASSUME NEW e \in Enrollment, Assign(e) PROVE CertificateInv'
  <2>1. /\ StatusSwept \in [Enrollment -> Status] /\ status' = [StatusSwept EXCEPT ![e] = "assigned"]
        /\ status[e] = "none" /\ UNCHANGED learning
    BY <1>2, TypeParts, ReleasedType DEF Assign
  <2>2. \A d \in Enrollment : StatusSwept[d] = "completed" <=> status[d] = "completed"
    BY DEF StatusSwept, Due, Unstarted
  <2> HIDE DEF StatusSwept
  <2> QED
    BY <2>1, <2>2, CertificateKept
<1>3. ASSUME NEW e \in Enrollment, Cancel(e) PROVE CertificateInv'
  BY <1>3, CancelAllCertificates, CertificateKept DEF Cancel
<1>4. ASSUME NEW x \in Learner, Deactivate(x) PROVE CertificateInv'
  BY <1>4, CancelAllCertificates, CertificateKept DEF Deactivate
<1>5. CASE Offboard
  BY <1>5, CancelAllCertificates, CertificateKept DEF Offboard
<1>6. CASE Sweep
  <2>1. \A d \in Enrollment : status'[d] = "completed" <=> status[d] = "completed"
    BY <1>6 DEF Sweep, StatusSwept, Due, Unstarted
  <2> QED
    BY <1>6, <2>1, CertificateKept DEF Sweep
<1>7. ASSUME NEW e \in Enrollment, Start(e) PROVE CertificateInv'
  BY <1>0, <1>7, CertificateKept DEF Start
<1>8. ASSUME NEW e \in Enrollment, NEW l \in Lesson, NEW seconds \in 1..MaxSave, SaveProgress(e, l, seconds)
      PROVE CertificateInv'
  <2>1. /\ MinSeconds[l] \in Nat /\ credited[e][l] \in Nat /\ credited[e] \in [Lesson -> Nat]
        /\ \A k \in Lesson : credited[e][k] <= MinSeconds[k]
    BY <1>0, TrainingConstants DEF CertificateInv, Capped
  <2> DEFINE n == Increment(e, l, seconds)
  <2>2. /\ n \in Int /\ 0 < n /\ n <= MinSeconds[l] - credited[e][l]
        /\ credited' = [credited EXCEPT ![e] = [credited[e] EXCEPT ![l] = credited[e][l] + n]]
    <3>1. n \in Int /\ n <= MinSeconds[l] - credited[e][l]
      BY <2>1 DEF Increment, Earlier
    <3>2. 0 < n /\ credited' = [credited EXCEPT ![e] = [credited[e] EXCEPT ![l] = credited[e][l] + n]]
      BY <1>8 DEF SaveProgress
    <3> QED
      BY <3>1, <3>2
  <2> HIDE DEF n
  <2>3. UNCHANGED <<status, attempts, certificate>>
    BY <1>8 DEF SaveProgress, rights
  <2>4. /\ \A d \in Enrollment : d # e => credited'[d] = credited[d]
        /\ credited'[e][l] = credited[e][l] + n
        /\ \A k \in Lesson : k # l => credited'[e][k] = credited[e][k]
    BY <1>0, <2>1, <2>2
  <2>5. Capped'
    BY <2>1, <2>2, <2>4 DEF CertificateInv, Capped
  <2> QED
    BY <2>3, <2>5 DEF CertificateInv
<1>9. ASSUME NEW e \in Enrollment, NEW passed \in BOOLEAN, SubmitAttempt(e, passed) PROVE CertificateInv'
  <2>1. /\ status[e] = "active" /\ UNCHANGED credited
        /\ \A d \in Enrollment : d # e => status'[d] = status[d] /\ attempts'[d] = attempts[d]
        /\ attempts'[e] = attempts[e] + 1 /\ attempts[e] < MaxAttempts
    BY <1>0, <1>9 DEF SubmitAttempt, AssessmentReady
  <2>2. e \notin certificate
    BY <2>1 DEF CertificateInv
  <2>3. attempts'[e] \in 1..MaxAttempts
    BY <1>0, <2>1, TrainingConstants
  <2>4. \A d \in certificate : attempts'[d] \in 1..MaxAttempts
    BY <1>0, <2>1, <2>2 DEF CertificateInv
  <2>5. Capped'
    BY <2>1 DEF CertificateInv, Capped
  <2>6. CASE passed
    <3>1. status'[e] = "completed" /\ certificate' = certificate \cup {e}
      BY <1>0, <1>9, <2>6 DEF SubmitAttempt
    <3> QED
      BY <2>1, <2>3, <2>4, <2>5, <3>1 DEF CertificateInv
  <2>7. CASE ~passed
    <3>1. status'[e] = "active" /\ certificate' = certificate
      BY <1>0, <1>9, <2>7 DEF SubmitAttempt
    <3> QED
      BY <2>1, <2>2, <2>4, <2>5, <3>1 DEF CertificateInv
  <2> QED
    BY <2>6, <2>7
<1> QED
  BY <1>1, <1>2, <1>3, <1>4, <1>5, <1>6, <1>7, <1>8, <1>9
  DEF Next, ByCustomer, ByLearner, ByPlatform, vars, rights, Tick, GrantSeats, SetTenantStatus, ListTenant

LEMMA InitCertificates == Init => CertificateInv
BY TrainingConstants DEF Init, CertificateInv, Capped

(***************************************************************************)
(* Certificates are issued exactly for completed courses, which are paid   *)
(* for and passed within the attempts allowed.                             *)
(***************************************************************************)
THEOREM CertificatesAreEarned == Spec => []CertificatesEarned
<1> QED
  BY InitTyped, TypeStep, InitFits, FollowsStep, InitCertificates, CertificateStep, CertificateImplies, PTL DEF Spec

(***************************************************************************)
(* No lesson is ever credited with more than it asks for, so that the sum  *)
(* the assessment looks at cannot hide a lesson that was left out.         *)
(***************************************************************************)
THEOREM LessonsNeverOvercredited == Spec => []Capped
<1>1. CertificateInv => Capped
  BY DEF CertificateInv
<1> QED
  BY <1>1, InitTyped, TypeStep, InitCertificates, CertificateStep, PTL DEF Spec

-----------------------------------------------------------------------------
(* Courses agree with their seats or points, the periods they may start    *)
(* in and their certificates, for any learners, lessons and grants.        *)
THEOREM CoursesAreConsistent == Spec => []CourseRecordsAgree
BY AuthorizationsFollowEnrollments, SeatsNeverOversold, CoursesStartInTime,
   CertificatesAreEarned, PTL DEF CourseRecordsAgree

-----------------------------------------------------------------------------
(***************************************************************************)
(* Lessons.  What is compared are sums; that no lesson is credited beyond  *)
(* what it asks for makes the sum say the same of every lesson.            *)
(***************************************************************************)
LEMMA SumsReachEveryLesson ==
  ASSUME TypeOK, Capped, NEW e \in Enrollment, TotalCredited(e) >= SumFunction(MinSeconds)
  PROVE  \A l \in Lesson : credited[e][l] >= MinSeconds[l]
<1> DEFINE f == credited[e]
<1> DEFINE d == [l \in Lesson |-> MinSeconds[l] - f[l]]
<1>1. /\ f \in [Lesson -> Int] /\ MinSeconds \in [Lesson -> Int] /\ IsFiniteSet(Lesson)
      /\ \A l \in Lesson : f[l] <= MinSeconds[l]
      /\ SumFunction(f) >= SumFunction(MinSeconds)
  BY TypeParts, TrainingConstants DEF Capped, TotalCredited
<1> HIDE DEF f
<1>2. /\ d \in [Lesson -> Nat] /\ d \in [Lesson -> Int]
      /\ \A l \in Lesson : MinSeconds[l] = f[l] + d[l]
      /\ \A l \in Lesson : d[l] = 0 => f[l] >= MinSeconds[l]
  BY <1>1
<1> HIDE DEF d
<1>3. SumFunction(MinSeconds) = SumFunction(f) + SumFunction(d)
  BY <1>1, <1>2, SumAdds
<1>4. SumFunction(d) \in Nat /\ (\A l \in Lesson : d[l] <= SumFunction(d)) /\ SumFunction(f) \in Int
  BY <1>1, <1>2, SumCovers, SumType
<1>5. SumFunction(d) = 0
  BY <1>1, <1>3, <1>4
<1>6. \A l \in Lesson : d[l] = 0
  BY <1>2, <1>4, <1>5
<1> QED
  BY <1>2, <1>6 DEF f

LEMMA LessonsStep == TypeOK /\ Capped /\ EveryLessonDone /\ [Next]_vars => EveryLessonDone'
<1> SUFFICES ASSUME TypeOK, Capped, EveryLessonDone, [Next]_vars PROVE EveryLessonDone'
  OBVIOUS
<1>0. /\ credited \in [Enrollment -> [Lesson -> Nat]] /\ attempts \in [Enrollment -> 0..MaxAttempts]
  BY TypeParts
<1>1. ASSUME UNCHANGED learning PROVE EveryLessonDone'
  BY <1>1 DEF EveryLessonDone, learning
<1>2. ASSUME NEW e \in Enrollment, NEW l \in Lesson, NEW seconds \in 1..MaxSave, SaveProgress(e, l, seconds)
      PROVE  EveryLessonDone'
  <2> DEFINE n == Increment(e, l, seconds)
  <2>1. /\ 0 < n /\ n \in Int /\ attempts' = attempts
        /\ credited' = [credited EXCEPT ![e] = [credited[e] EXCEPT ![l] = credited[e][l] + n]]
    BY <1>0, <1>2, TrainingConstants DEF SaveProgress, Increment, Earlier
  <2> HIDE DEF n
  <2>2. credited[e] \in [Lesson -> Nat] /\ credited[e][l] \in Nat
    BY <1>0
  <2>3. /\ \A d \in Enrollment \ {e} : credited'[d] = credited[d]
        /\ \A k \in Lesson \ {l} : credited'[e][k] = credited[e][k]
        /\ credited'[e][l] = credited[e][l] + n
    BY <1>0, <2>1, <2>2
  <2>4. ASSUME NEW d \in Enrollment, NEW k \in Lesson PROVE credited'[d][k] >= credited[d][k]
    <3>1. credited[d][k] \in Nat
      BY <1>0
    <3>2. CASE d = e /\ k = l
      BY <2>1, <2>2, <2>3, <3>2
    <3>3. CASE ~(d = e /\ k = l)
      BY <2>3, <3>1, <3>3
    <3> QED
      BY <3>2, <3>3
  <2>5. ASSUME NEW d \in Enrollment, attempts'[d] > 0, NEW k \in Lesson PROVE credited'[d][k] >= MinSeconds[k]
    <3>1. credited[d][k] >= MinSeconds[k] /\ credited[d][k] \in Nat /\ MinSeconds[k] \in Nat
      BY <1>0, <2>1, <2>5, TrainingConstants DEF EveryLessonDone
    <3>2. credited'[d][k] \in Int
      BY <1>0, <2>1, <2>2, <2>3, <3>1
    <3> QED
      BY <2>4, <3>1, <3>2
  <2> QED
    BY <2>5 DEF EveryLessonDone
<1>3. ASSUME NEW e \in Enrollment, NEW passed \in BOOLEAN, SubmitAttempt(e, passed) PROVE EveryLessonDone'
  <2>1. /\ credited' = credited /\ TotalCredited(e) >= SumFunction(MinSeconds)
        /\ \A d \in Enrollment \ {e} : attempts'[d] = attempts[d]
    BY <1>0, <1>3 DEF SubmitAttempt, AssessmentReady
  <2>2. \A l \in Lesson : credited[e][l] >= MinSeconds[l]
    BY <2>1, SumsReachEveryLesson
  <2> QED
    BY <2>1, <2>2 DEF EveryLessonDone
<1> QED
  BY <1>1, <1>2, <1>3
  DEF Next, ByCustomer, ByLearner, ByPlatform, vars, Tick, GrantSeats, Assign, Cancel, Deactivate,
      Start, Offboard, SetTenantStatus, ListTenant, Sweep

(***************************************************************************)
(* Whoever took the assessment has done every lesson, in whatever portions *)
(* progress was saved: for any lessons and any seconds they ask for.       *)
(***************************************************************************)
THEOREM NobodySkipsALesson == Spec => []EveryLessonDone
<1>1. Init => EveryLessonDone
  BY DEF Init, EveryLessonDone
<1>2. CertificateInv => Capped
  BY DEF CertificateInv
<1> QED
  BY <1>1, <1>2, InitTyped, TypeStep, InitCertificates, CertificateStep, LessonsStep, PTL DEF Spec
=============================================================================
