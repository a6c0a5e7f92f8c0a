------------------------------ MODULE Training ------------------------------
(***************************************************************************)
(* Courses assigned to learners (learning_routes.py), each authorized by a *)
(* finite seat or, when no seat is free, by points held in the wallet      *)
(* (learning_entitlements.py).  The authorization is used at the first     *)
(* start and given back when the course is never started; the worker       *)
(* sweeps what has expired (worker.expire_training).                       *)
(*                                                                         *)
(* One tenant, whose requests and sweeps hold its lock: each is one        *)
(* action, and a refused one, rolled back, is a disabled one.  Only the    *)
(* worker's list of active tenants is read without the lock.               *)
(***************************************************************************)
EXTENDS Integers, FiniteSets, Functions

CONSTANTS
  Learner,      \* users with a learner membership
  Enrollment,   \* what can be assigned: a course to a learner for a cohort, once
  Entitlement,  \* grants of seats
  Lesson,       \* lessons of a course
  LearnerOf,    \* the learner of each enrollment
  Covers,       \* the enrollments whose course and cohort an entitlement is for
  MinSeconds,   \* lessons.min_seconds
  MaxAttempts,  \* courses.max_attempts
  Window,       \* periods for which seats may be granted: start and end
  Validity,     \* time in which an assigned course must be started (14 days)
  MaxSeats,     \* bound: seats of one entitlement
  MaxSave,      \* bound: seconds saved at once
  MaxTime       \* bound: last instant

ASSUME TrainingConstants ==
  /\ IsFiniteSet(Enrollment) /\ IsFiniteSet(Lesson)
  /\ LearnerOf \in [Enrollment -> Learner]
  /\ Covers \in [Entitlement -> SUBSET Enrollment]
  /\ MinSeconds \in [Lesson -> Nat]
  /\ Window \subseteq {w \in (0..MaxTime) \X (0..MaxTime) : w[1] < w[2]}
  /\ MaxAttempts \in Nat /\ Validity \in Nat \ {0}
  /\ MaxSeats \in Nat /\ MaxSave \in Nat /\ MaxTime \in Nat

VARIABLES
  now,          \* the clock m.now()
  tenant,       \* tenants.status
  listed,       \* the worker has read the tenant as active and will sweep it
  member,       \* learners whose membership is active
  entitlement,  \* rows of training_entitlements: quantity 0 means no row
  status,       \* enrollments.status
  expires,      \* enrollments.expires_at
  started,      \* enrollments.started_at
  seat,         \* the last ledger row of an enrollment: reserve, consume or release
  from,         \* the entitlement its seat was taken from
  hold,         \* status of its reservation of points
  credited,     \* progress_events.seconds of each lesson
  attempts,     \* attempts made
  certificate   \* enrollments with a certificate and its lookup job

rights == <<status, expires, started, seat, from, hold>>
learning == <<credited, attempts, certificate>>
vars == <<now, tenant, listed, member, entitlement, rights, learning>>

Time == 0..MaxTime
Never == -1
NoEntitlement == [quantity |-> 0, starts |-> 0, expires |-> 0]

Init ==
  /\ now = 0
  /\ tenant = "active"
  /\ listed = FALSE
  /\ member = Learner
  /\ entitlement = [g \in Entitlement |-> NoEntitlement]
  /\ status = [e \in Enrollment |-> "none"]
  /\ expires = [e \in Enrollment |-> 0]
  /\ started = [e \in Enrollment |-> Never]
  /\ seat = [e \in Enrollment |-> "none"]
  /\ from = [e \in Enrollment |-> "none"]
  /\ hold = [e \in Enrollment |-> "none"]
  /\ credited = [e \in Enrollment |-> [l \in Lesson |-> 0]]
  /\ attempts = [e \in Enrollment |-> 0]
  /\ certificate = {}

Tick ==
  /\ now < MaxTime
  /\ now' = now + 1
  /\ UNCHANGED <<tenant, listed, member, entitlement, rights, learning>>

-----------------------------------------------------------------------------
(***************************************************************************)
(* Giving authorizations back.                                             *)
(***************************************************************************)
\* release_authorization: wallet.release never refuses, finish_seat refuses a used seat.
Releasable(E) == \A e \in E : hold[e] = "none" => seat[e] \in {"reserve", "release"}

SeatsWithout(E) == [e \in Enrollment |-> IF e \in E /\ seat[e] = "reserve" THEN "release" ELSE seat[e]]
HoldsWithout(E) == [e \in Enrollment |-> IF e \in E /\ hold[e] = "reserved" THEN "released" ELSE hold[e]]

\* Mutant: a course under way can be cancelled too.
NotCompleted(e) == status[e] \in {"assigned", "active"}

Unstarted(e) == status[e] = "assigned"

ActiveLearner(e) == LearnerOf[e] \in member

\* Mutant: only learners who left are swept.
LeftBehind == {e \in Enrollment : Unstarted(e) /\ ~ActiveLearner(e)}

\* expire_authorizations: what a sweep ends, and how.
Due == {e \in Enrollment : Unstarted(e) /\ (~ActiveLearner(e) \/ expires[e] <= now)}

StatusSwept ==
  [e \in Enrollment |-> IF e \in Due THEN IF ActiveLearner(e) THEN "expired" ELSE "cancelled" ELSE status[e]]

\* The steps that end enrollments which were not started, as cancelled.
CancelAll(E) ==
  /\ Releasable(E)
  /\ status' = [e \in Enrollment |-> IF e \in E THEN "cancelled" ELSE status[e]]
  /\ seat' = SeatsWithout(E)
  /\ hold' = HoldsWithout(E)
  /\ UNCHANGED <<expires, started, from>>

-----------------------------------------------------------------------------
(***************************************************************************)
(* Seats.  Grants are never changed; what is free is counted in the ledger *)
(***************************************************************************)
\* create_training_entitlement
GrantSeats(g, quantity, window) ==
  /\ tenant = "active"
  /\ entitlement[g].quantity = 0
  /\ now < window[2]
  /\ entitlement' = [entitlement EXCEPT ![g] = [quantity |-> quantity, starts |-> window[1], expires |-> window[2]]]
  /\ UNCHANGED <<now, tenant, listed, member, rights, learning>>

Open(g) == entitlement[g].starts <= now /\ now < entitlement[g].expires

Occupied(seats, g) == {e \in Enrollment : from[e] = g /\ seats[e] \in {"reserve", "consume"}}

\* Mutant: seats of started courses count as free.
EligibleCountingReserved(seats, e) ==
  {g \in Entitlement :
     /\ e \in Covers[g] /\ Open(g)
     /\ Cardinality({d \in Occupied(seats, g) : seats[d] = "reserve"}) < entitlement[g].quantity}

\* eligible_entitlement, given what the ledger says of each enrollment.
Eligible(seats, e) ==
  {g \in Entitlement : e \in Covers[g] /\ Open(g) /\ Cardinality(Occupied(seats, g)) < entitlement[g].quantity}

\* Which of two that expire together is taken is left open.
FirstExpiring(E) == {g \in E : \A h \in E : entitlement[g].expires <= entitlement[h].expires}

-----------------------------------------------------------------------------
(***************************************************************************)
(* Managers and administrators of the customer.                            *)
(***************************************************************************)
Earlier(a, b) == IF a <= b THEN a ELSE b

\* assign sweeps first, then takes a seat, or points when there is none; whether
\* the wallet has the points is decided there (Wallet!Reserve).  A row that exists is
\* returned or refused.  Remediation assigns several in one transaction.
Assign(e) ==
  LET seats == SeatsWithout(Due) IN
  /\ tenant = "active" /\ ActiveLearner(e)
  /\ status[e] = "none"
  /\ now + Validity <= MaxTime
  /\ Releasable(Due)
  /\ status' = [StatusSwept EXCEPT ![e] = "assigned"]
  /\ \/ \E g \in FirstExpiring(Eligible(seats, e)) :
          /\ expires' = [expires EXCEPT ![e] = Earlier(now + Validity, entitlement[g].expires)]
          /\ seat' = [seats EXCEPT ![e] = "reserve"]
          /\ from' = [from EXCEPT ![e] = g]
          /\ hold' = HoldsWithout(Due)
     \/ /\ Eligible(seats, e) = {}
        /\ expires' = [expires EXCEPT ![e] = now + Validity]
        /\ hold' = [HoldsWithout(Due) EXCEPT ![e] = "reserved"]
        /\ seat' = seats
        /\ UNCHANGED from
  /\ UNCHANGED <<now, tenant, listed, member, entitlement, started, learning>>

Cancel(e) ==
  /\ tenant = "active"
  /\ Unstarted(e)
  /\ CancelAll({e})
  /\ UNCHANGED <<now, tenant, listed, member, entitlement, learning>>

\* deactivate_learner: done again, it finds nothing left to end.
Deactivate(x) ==
  /\ tenant = "active"
  /\ x \in member
  /\ member' = member \ {x}
  /\ CancelAll({e \in Enrollment : LearnerOf[e] = x /\ Unstarted(e)})
  /\ UNCHANGED <<now, tenant, listed, entitlement, learning>>

-----------------------------------------------------------------------------
(***************************************************************************)
(* The learner.  Whoever is no longer a member cannot act.                 *)
(***************************************************************************)
\* Mutant: the instant of expiry is still in time.
NotYetExpired(e) == expires[e] >= now

InTime(e) == expires[e] > now

MayLearn(e) == tenant = "active" /\ ActiveLearner(e) /\ InTime(e)

\* consume_authorization: wallet.consume or finish_seat, both harmless when repeated.
ConsumeHold(e) ==
  /\ hold[e] # "none"
  /\ hold[e] = "consumed" \/ (hold[e] = "reserved" /\ now <= expires[e])
  /\ hold' = [hold EXCEPT ![e] = "consumed"]
  /\ UNCHANGED seat

ConsumeSeat(e) ==
  /\ hold[e] = "none"
  /\ seat[e] = "consume" \/ (seat[e] = "reserve" /\ Open(from[e]))
  /\ seat' = [seat EXCEPT ![e] = "consume"]
  /\ UNCHANGED hold

Start(e) ==
  /\ MayLearn(e)
  /\ status[e] = "assigned"
  /\ ConsumeHold(e) \/ ConsumeSeat(e)
  /\ status' = [status EXCEPT ![e] = "active"]
  /\ started' = [started EXCEPT ![e] = now]
  /\ UNCHANGED <<now, tenant, listed, member, entitlement, expires, from, learning>>

TotalCredited(e) == SumFunction(credited[e])
Elapsed(e) == now - started[e]
Behind(e) == IF TotalCredited(e) < Elapsed(e) THEN Elapsed(e) - TotalCredited(e) ELSE 0

\* Mutant: a lesson is credited with all the time spent on it.
IncrementAsSent(e, l, seconds) == seconds

\* What a lesson still asks for, at most.
Increment(e, l, seconds) == Earlier(seconds, MinSeconds[l] - credited[e][l])

\* progress: no more than the time since the start that is not credited yet, and
\* one second.  Saving nothing changes nothing.
SaveProgress(e, l, seconds) ==
  LET increment == Increment(e, l, seconds) IN
  /\ MayLearn(e)
  /\ status[e] \in {"active", "completed"}
  /\ 0 < increment /\ increment <= Behind(e) + 1
  /\ credited' = [credited EXCEPT ![e] = [credited[e] EXCEPT ![l] = credited[e][l] + increment]]
  /\ UNCHANGED <<now, tenant, listed, member, entitlement, rights, attempts, certificate>>

\* Mutant: attempts are not limited.
TimeSpent(e) == TotalCredited(e) >= SumFunction(MinSeconds)

\* What is compared are the sums over the lessons.
AssessmentReady(e) == TotalCredited(e) >= SumFunction(MinSeconds) /\ attempts[e] < MaxAttempts

\* submit_attempt: a passed one completes the course and issues the certificate.
SubmitAttempt(e, passed) ==
  /\ MayLearn(e)
  /\ status[e] = "active"
  /\ AssessmentReady(e)
  /\ attempts' = [attempts EXCEPT ![e] = attempts[e] + 1]
  /\ status' = [status EXCEPT ![e] = IF passed THEN "completed" ELSE "active"]
  /\ certificate' = IF passed THEN certificate \cup {e} ELSE certificate
  /\ UNCHANGED <<now, tenant, listed, member, entitlement, expires, started, seat, from, hold, credited>>

-----------------------------------------------------------------------------
(***************************************************************************)
(* The platform suspends, reactivates or offboards the tenant; the worker  *)
(* lists the active tenants without a lock and sweeps each of them later.  *)
(***************************************************************************)
SetTenantStatus(next) ==
  /\ {tenant, next} = {"active", "suspended"}
  /\ tenant' = next
  /\ UNCHANGED <<now, listed, member, entitlement, rights, learning>>

Offboard ==
  /\ tenant = "active"
  /\ tenant' = "offboarding"
  /\ member' = {}
  /\ CancelAll({e \in Enrollment : Unstarted(e)})
  /\ UNCHANGED <<now, listed, entitlement, learning>>

ListTenant ==
  /\ ~listed /\ tenant = "active"
  /\ listed' = TRUE
  /\ UNCHANGED <<now, tenant, member, entitlement, rights, learning>>

Sweep ==
  /\ listed
  /\ Releasable(Due)
  /\ listed' = FALSE
  /\ status' = StatusSwept
  /\ seat' = SeatsWithout(Due)
  /\ hold' = HoldsWithout(Due)
  /\ UNCHANGED <<now, tenant, member, entitlement, expires, started, from, learning>>

-----------------------------------------------------------------------------
ByCustomer ==
  \/ \E g \in Entitlement, quantity \in 1..MaxSeats, window \in Window : GrantSeats(g, quantity, window)
  \/ \E e \in Enrollment : Assign(e) \/ Cancel(e)
  \/ \E x \in Learner : Deactivate(x)

ByLearner ==
  \E e \in Enrollment :
    \/ Start(e)
    \/ \E l \in Lesson, seconds \in 1..MaxSave : SaveProgress(e, l, seconds)
    \/ \E passed \in BOOLEAN : SubmitAttempt(e, passed)

ByPlatform == Offboard \/ \E next \in {"active", "suspended"} : SetTenantStatus(next)

Next == Tick \/ ByCustomer \/ ByLearner \/ ByPlatform \/ ListTenant \/ Sweep

Spec == Init /\ [][Next]_vars

\* The clock runs, and the loop of the worker lists and sweeps the tenants.
FairSpec == Spec /\ WF_vars(Tick) /\ WF_vars(ListTenant) /\ WF_vars(Sweep)

-----------------------------------------------------------------------------
Status == {"none", "assigned", "active", "completed", "cancelled", "expired"}

TypeOK ==
  /\ now \in Time
  /\ tenant \in {"active", "suspended", "offboarding"}
  /\ listed \in BOOLEAN
  /\ member \subseteq Learner
  /\ entitlement \in [Entitlement -> [quantity : 0..MaxSeats, starts : Time, expires : Time]]
  /\ status \in [Enrollment -> Status]
  /\ expires \in [Enrollment -> Time]
  /\ started \in [Enrollment -> Time \cup {Never}]
  /\ seat \in [Enrollment -> {"none", "reserve", "consume", "release"}]
  /\ from \in [Enrollment -> Entitlement \cup {"none"}]
  /\ hold \in [Enrollment -> {"none", "reserved", "consumed", "released"}]
  /\ credited \in [Enrollment -> [Lesson -> Nat]]
  /\ attempts \in [Enrollment -> 0..MaxAttempts]
  /\ certificate \subseteq Enrollment

(***************************************************************************)
(* An enrollment has one authorization, a seat or points, and its state is *)
(* that of the course: reserved until the first start, used up from then   *)
(* on, given back when the course ended unstarted, whoever ended it.  So a *)
(* sweep is never refused because of a seat that was settled otherwise     *)
(* (learning_entitlements.py:93-142, 159-176).                             *)
(***************************************************************************)
AuthorizationFollowsEnrollment ==
  \A e \in Enrollment :
    /\ seat[e] = "none" \/ hold[e] = "none"
    /\ status[e] = "assigned" <=> (seat[e] = "reserve" \/ hold[e] = "reserved")
    /\ status[e] \in {"active", "completed"} <=> (seat[e] = "consume" \/ hold[e] = "consumed")
    /\ status[e] \in {"cancelled", "expired"} <=> (seat[e] = "release" \/ hold[e] = "released")

(***************************************************************************)
(* No more seats are in use than were granted, although seats come back    *)
(* from cancelled and expired enrollments and are given out again in the   *)
(* transaction that sweeps them (learning_routes.py:119,                   *)
(* learning_entitlements.py:58-66).                                        *)
(***************************************************************************)
SeatsNotOversold ==
  \A g \in Entitlement : Cardinality(Occupied(seat, g)) <= entitlement[g].quantity

(***************************************************************************)
(* A course is first started before it expires and while the grant of its  *)
(* seat is open, however long it was assigned and whenever the worker      *)
(* sweeps (learning_routes.py:124, 350-358; learning_entitlements.py:127). *)
(***************************************************************************)
StartedInTime ==
  \A e \in Enrollment : started[e] # Never =>
    /\ started[e] < expires[e]
    /\ seat[e] # "none" => /\ entitlement[from[e]].starts <= started[e]
                           /\ expires[e] <= entitlement[from[e]].expires

(***************************************************************************)
(* A certificate exists exactly for a completed course: one whose          *)
(* authorization was used and which was passed within the attempts         *)
(* allowed.  It stays when the course expires or the learner leaves        *)
(* (learning_routes.py:426-457).                                           *)
(***************************************************************************)
CertificatesEarned ==
  /\ certificate = {e \in Enrollment : status[e] = "completed"}
  /\ \A e \in certificate :
       /\ seat[e] = "consume" \/ hold[e] = "consumed"
       /\ attempts[e] \in 1..MaxAttempts

(***************************************************************************)
(* The records of a course agree: seat or points with its status, seats    *)
(* with their grant, the start with the periods it lies in, certificates   *)
(* with completion (learning_entitlements.py, learning_routes.py).         *)
(***************************************************************************)
CourseRecordsAgree ==
  AuthorizationFollowsEnrollment /\ SeatsNotOversold /\ StartedInTime /\ CertificatesEarned

(***************************************************************************)
(* Nobody is examined who left a lesson out: although only the sum of all  *)
(* seconds is compared with the sum of those required                      *)
(* (learning_routes.py:435), no lesson makes up for another, in whatever   *)
(* portions and order progress was saved.                                  *)
(***************************************************************************)
EveryLessonDone ==
  \A e \in Enrollment : attempts[e] > 0 => \A l \in Lesson : credited[e][l] >= MinSeconds[l]

(***************************************************************************)
(* A course that is assigned is started, cancelled or expires, unless the  *)
(* tenant is no longer active: its seat or points are not kept for ever    *)
(* (worker.py:280-297).                                                    *)
(***************************************************************************)
UnstartedIsSettled ==
  \A e \in Enrollment : status[e] = "assigned" ~> (status[e] # "assigned" \/ tenant # "active")

(***************************************************************************)
(* docs/development-contract.md:49 has the server validate elapsed time:   *)
(* no more is credited than the time since the start, and the second of    *)
(* tolerance for rounding.                                                 *)
(***************************************************************************)
ProgressWithinElapsed ==
  \A e \in Enrollment : started[e] # Never => TotalCredited(e) <= Elapsed(e) + 1
=============================================================================
