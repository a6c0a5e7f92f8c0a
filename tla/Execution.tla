------------------------------- MODULE Execution -------------------------------
(***************************************************************************)
(* What several people change after having read it: the tasks of a project *)
(* (TaskGraph), bookings of people and tools (Slots), a questionnaire and a *)
(* ticket (Desk), what a customer agreed to (Changes) and the connector to *)
(* another product (Portfolio).  They share no state; here each is given   *)
(* variables of its own.                                                   *)
(***************************************************************************)
EXTENDS TaskGraph, Integers, FiniteSets

CONSTANTS
  \* bookings
  Tenant, Batch, Person, Tool, OwnerOf, Plan, Untrained, Settled, Buffer, MaxCapacity, Horizon,
  MaxPolicies, Configurations,
  \* questionnaire and ticket
  Answer, Content, Documented, MaxRequests,
  \* change orders
  Scoped, Asset, Order, Import, Request, Amount, MaxOffers,
  \* connector
  Grant, Ttl, MaxNow, MaxConfigured,
  None

VARIABLES
  clock, policy, qualified, tool, batch, slots, desk, dispatch,
  answer, questionnaire, ticket, messages, notified, seen, sent, receipts, approved,
  scoped, order, shown, imports, request, created, agreed,
  now, grant, configured, standing, row, fetching, disabled

ASSUME BookingConstants ==
  /\ OwnerOf \in [Batch \cup Tool -> Tenant]
  /\ Plan \subseteq [engineer : Person, reviewer : Person, tool : Tool, units : Nat,
                     start : Nat, end : Nat]
  /\ Buffer \subseteq Nat /\ MaxCapacity \in Nat /\ Horizon \in Nat
  /\ MaxPolicies \in Nat /\ Configurations \in Nat
  /\ None \notin Tenant \cup Batch \cup Person \cup Tool \cup Plan

\* A questionnaire has questions.
ASSUME DeskConstants == Answer # {} /\ MaxRequests \in Nat

ASSUME ChangeConstants == None \notin Scoped /\ MaxOffers \in Nat

ASSUME PortfolioConstants == None \notin Grant /\ Ttl \in Nat /\ MaxNow \in Nat

Slots == INSTANCE DispatchSlots WITH MaxVersion <- Configurations, now <- clock
Desk == INSTANCE CustomerDesk
Changes == INSTANCE ChangeOrders WITH Batch <- Scoped, batch <- scoped, MaxVersion <- MaxOffers
Portfolio == INSTANCE Connector

-----------------------------------------------------------------------------
\* The properties of the other parts, as these instances have them.
NoDoubleBooking == Slots!NoDoubleBooking
BookingsHold == Slots!BookingsHold
ReviewedAsRead == Desk!ReviewedAsRead
RepliesOnce == Desk!RepliesOnce
ScopeAsAgreed == Changes!ScopeAsAgreed
ShownIsCurrent == Portfolio!ShownIsCurrent
===============================================================================
