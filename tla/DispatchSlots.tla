----------------------------- MODULE DispatchSlots -----------------------------
(***************************************************************************)
(* Booking of people and tool units for service batches                    *)
(* (project_execution.py, schedule_batch and cancel_batch in               *)
(* project_routes.py).  A request holds its organization's lock; people    *)
(* work for several organizations, so a booking also takes one lock common *)
(* to all, reads what overlaps, and then replaces the batch's own slots.   *)
(***************************************************************************)
EXTENDS Integers, FiniteSets

CONSTANTS
  Tenant, Batch, Person, Tool,
  OwnerOf,                     \* the organization of each batch and of each tool
  Plan,                        \* schedules that are asked for
  Untrained,                   \* <<organization, person>> without a qualification yet
  Settled,                     \* organizations and tools configured before
  Buffer, MaxCapacity,         \* travel buffers and capacities that are configured
  Horizon,                     \* bound: the last instant
  MaxPolicies, MaxVersion,     \* bounds: versions of a policy, of a tool
  None

VARIABLES now, policy, qualified, tool, batch, slots, desk, dispatch
vars == <<now, policy, qualified, tool, batch, slots, desk, dispatch>>

NoPolicy == [buffer |-> 0, version |-> 0]
NoTool == [capacity |-> 0, active |-> FALSE, version |-> 0]
NewBatch == [status |-> "draft", plan |-> None, published |-> FALSE]
Free == [phase |-> "free", batch |-> None, plan |-> None, units |-> {}]

PersonSlot(b, p, w) ==
  [batch |-> b, person |-> p, tool |-> None, unit |-> 0, start |-> w[1], end |-> w[2]]
UnitSlot(b, k, u, w) ==
  [batch |-> b, person |-> None, tool |-> k, unit |-> u, start |-> w[1], end |-> w[2]]
SameResource(s, r) == s.person = r.person /\ s.tool = r.tool /\ s.unit = r.unit
Overlap(s, r) == s.start < r.end /\ r.start < s.end
Upcoming(k) == {s \in slots : s.tool = k /\ s.end > now}

Idle(t) == desk[t] = Free
Team(plan) == {plan.engineer, plan.reviewer}
Buffered(t, plan) == <<plan.start - policy[t].buffer, plan.end + policy[t].buffer>>

-----------------------------------------------------------------------------
\* Configuration.  Expected versions are those just read (upsert_config).

ConfigurePolicy(t) ==
  /\ Idle(t) /\ policy[t].version < MaxPolicies
  /\ \E n \in Buffer : policy' = [policy EXCEPT ![t] = [buffer |-> n,
                                                        version |-> policy[t].version + 1]]
  /\ UNCHANGED <<now, qualified, tool, batch, slots, desk, dispatch>>

ConfigureQualification(t, p) ==
  /\ Idle(t) /\ <<t, p>> \in Untrained
  /\ \E until \in {0, Horizon} : qualified' = [qualified EXCEPT ![<<t, p>>] = until]
  /\ UNCHANGED <<now, policy, tool, batch, slots, desk, dispatch>>

\* Mutant: a tool in use may lose units.
ShrinksOnly(k, capacity, active) == ~active
Shrinks(k, capacity, active) == ~active \/ capacity < tool[k].capacity

ConfigureTool(k) ==
  /\ Idle(OwnerOf[k]) /\ dispatch = None /\ tool[k].version < MaxVersion
  /\ \E n \in 1..MaxCapacity, active \in BOOLEAN :
       /\ Upcoming(k) # {} => ~Shrinks(k, n, active)
       /\ tool' = [tool EXCEPT ![k] = [capacity |-> n, active |-> active,
                                       version |-> tool[k].version + 1]]
  /\ UNCHANGED <<now, policy, qualified, batch, slots, desk, dispatch>>

-----------------------------------------------------------------------------
\* A booking: lock, read, write.

ScheduleBatch(b) ==
  LET t == OwnerOf[b]
  IN /\ Idle(t) /\ batch[b].status \notin {"delivered", "approved", "cancelled"}
     /\ \E plan \in Plan :
          /\ now < plan.start /\ plan.start < plan.end
          /\ OwnerOf[plan.tool] = t
          /\ desk' = [desk EXCEPT ![t] = [Free EXCEPT !.phase = "asked", !.batch = b,
                                                      !.plan = plan]]
     /\ UNCHANGED <<now, policy, qualified, tool, batch, slots, dispatch>>

\* Mutant: the lock common to all organizations is not taken.
DispatchUnlocked == TRUE
DispatchLockFree == dispatch = None

DispatchLock(t) ==
  /\ desk[t].phase = "asked" /\ DispatchLockFree
  /\ dispatch' = t
  /\ desk' = [desk EXCEPT ![t].phase = "locked"]
  /\ UNCHANGED <<now, policy, qualified, tool, batch, slots>>

Configured(t, plan) ==
  /\ policy[t].version > 0
  /\ \A p \in Team(plan) : qualified[<<t, p>>] >= plan.end
  /\ tool[plan.tool].active
Occupied(t, b, plan) ==
  LET w == Buffered(t, plan)
  IN {s \in slots : s.batch # b /\ s.start < w[2] /\ s.end > w[1]}

ReadConflicts(t) ==
  /\ desk[t].phase = "locked"
  /\ LET b == desk[t].batch
         plan == desk[t].plan
         taken == Occupied(t, b, plan)
         available == {u \in 0..(tool[plan.tool].capacity - 1) :
                         ~\E s \in taken : s.tool = plan.tool /\ s.unit = u}
         refused == \/ ~Configured(t, plan)
                    \/ \E s \in taken : s.person \in Team(plan)
                    \/ Cardinality(available) < plan.units
     IN IF refused
        THEN /\ desk' = [desk EXCEPT ![t] = Free]
             /\ dispatch' = None
        ELSE /\ desk' = [desk EXCEPT ![t].phase = "read", ![t].units =
                  {u \in available : Cardinality({v \in available : v < u}) < plan.units}]
             /\ UNCHANGED dispatch
  /\ UNCHANGED <<now, policy, qualified, tool, batch, slots>>

\* Mutant: the slots of the batch's previous schedule stay.
KeepOwn(b) == slots
WithoutOwn(b) == {s \in slots : s.batch # b}

WriteSchedule(t) ==
  /\ desk[t].phase = "read"
  /\ LET b == desk[t].batch
         plan == desk[t].plan
         w == Buffered(t, plan)
     IN /\ slots' = WithoutOwn(b)
                    \cup {PersonSlot(b, p, w) : p \in Team(plan)}
                    \cup {UnitSlot(b, plan.tool, u, w) : u \in desk[t].units}
        /\ batch' = [batch EXCEPT ![b].status = "confirmed", ![b].plan = plan]
  /\ desk' = [desk EXCEPT ![t] = Free]
  /\ dispatch' = None
  /\ UNCHANGED <<now, policy, qualified, tool>>

\* The review and the publication of the batch are ReportDelivery's.
Deliver(b) ==
  /\ Idle(OwnerOf[b]) /\ batch[b].status = "confirmed"
  /\ batch' = [batch EXCEPT ![b].status = "delivered", ![b].published = TRUE]
  /\ UNCHANGED <<now, policy, qualified, tool, slots, desk, dispatch>>

ReopenBatch(b) ==
  /\ Idle(OwnerOf[b]) /\ batch[b].status = "delivered"
  /\ batch' = [batch EXCEPT ![b].status = "preparing"]
  /\ UNCHANGED <<now, policy, qualified, tool, slots, desk, dispatch>>

CancelBatch(b) ==
  /\ Idle(OwnerOf[b]) /\ ~batch[b].published
  /\ batch' = [batch EXCEPT ![b].status = "cancelled"]
  /\ slots' = WithoutOwn(b)
  /\ UNCHANGED <<now, policy, qualified, tool, desk, dispatch>>

Tick ==
  /\ now < Horizon /\ now' = now + 1
  /\ UNCHANGED <<policy, qualified, tool, batch, slots, desk, dispatch>>

Init ==
  /\ now = 0 /\ slots = {} /\ dispatch = None
  /\ policy = [t \in Tenant |-> IF t \in Settled THEN [buffer |-> 1, version |-> MaxPolicies]
                                                    ELSE NoPolicy]
  /\ qualified = [x \in Tenant \X Person |-> IF x \in Untrained THEN 0 ELSE Horizon]
  /\ tool = [k \in Tool |-> IF k \in Settled
                          THEN [capacity |-> MaxCapacity, active |-> TRUE, version |-> 1]
                          ELSE NoTool]
  /\ batch = [b \in Batch |-> NewBatch]
  /\ desk = [t \in Tenant |-> Free]

Next ==
  \/ Tick
  \/ \E t \in Tenant : \/ ConfigurePolicy(t) \/ DispatchLock(t) \/ ReadConflicts(t)
                       \/ WriteSchedule(t)
                       \/ \E p \in Person : ConfigureQualification(t, p)
  \/ \E k \in Tool : ConfigureTool(k)
  \/ \E b \in Batch : ScheduleBatch(b) \/ Deliver(b) \/ ReopenBatch(b) \/ CancelBatch(b)
Spec == Init /\ [][Next]_vars

-----------------------------------------------------------------------------
\* Nobody and no unit of a tool is promised to two batches at one time, of one
\* organization or of two, travel time included, however the two bookings
\* interleave (reserve_schedule under dispatch_lock).
NoDoubleBooking ==
  \A s, r \in slots : s.batch # r.batch /\ SameResource(s, r) => ~Overlap(s, r)

Own(b) == {s \in slots : s.batch = b}
AsPlanned(b, own) ==
  IF batch[b].plan = None \/ batch[b].status = "cancelled" THEN own = {}
  ELSE /\ {s.person : s \in own} \ {None} = Team(batch[b].plan)
       /\ Cardinality({s \in own : s.tool = batch[b].plan.tool}) = batch[b].plan.units
       /\ \A s \in own : s.start <= batch[b].plan.start /\ s.end >= batch[b].plan.end

\* The slots of a batch are those of its present schedule: after it was moved,
\* reopened or cancelled nobody is kept busy by an earlier one, and the people and
\* units of a batch that is still planned are all booked for its whole window.
BookedAsPlanned == \A b \in Batch : AsPlanned(b, Own(b))

\* A unit that is booked for a time still to come exists: its tool is active and
\* has that many units, although capacities are configured at any time
\* (configure_tool reads the bookings of other requests).
UnitsExist ==
  \A k \in Tool : \A s \in Upcoming(k) : tool[k].active /\ s.unit < tool[k].capacity

\* Bookings are what the schedules say and what the tools can give, after any sequence
\* of schedules and configurations (project_execution.py:481-516).
BookingsHold == BookedAsPlanned /\ UnitsExist
===============================================================================
