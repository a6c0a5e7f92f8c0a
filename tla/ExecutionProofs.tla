---------------------------- MODULE ExecutionProofs ----------------------------
(***************************************************************************)
(* Proofs about the parts of project execution: the tasks of a project,    *)
(* the bookings, the connector, the questionnaire and the ticket, and      *)
(* change orders.                                                          *)
(* The parts share no state: each theorem is about the specification of    *)
(* its own part.                                                           *)
(***************************************************************************)
EXTENDS Execution, SumFacts, TLAPS

-----------------------------------------------------------------------------
(***************************************************************************)
(* The tasks, for any tasks, editors and number of edits.  Creating and    *)
(* editing are the same change of one row, so what validation promises     *)
(* about it is proved once, of an edited row, and used for both.           *)
(***************************************************************************)
Row == [status : Status \cup {"none"}, needs : SUBSET Task, version : Nat]

\* Task t is given a row that validation accepted.
Edited(t, r) ==
  /\ r \in Row /\ r.status # "none"
  /\ Valid(t, r.needs, r.status)
  /\ task' = [task EXCEPT ![t] = r]

\* What an open form shows is a state the task was in: the present one when the
\* versions agree, an earlier one otherwise.
FormsAreRead ==
  \A e \in Editor, t \in Task : form[e].open /\ form[e].id = {t} =>
    /\ t \in Existing
    /\ form[e].task.version <= task[t].version
    /\ form[e].task.version = task[t].version => form[e].task = task[t]

-----------------------------------------------------------------------------
\* A step leaves the rows alone or edits one.
LEMMA StepsEdit ==
  ASSUME TypeOK, [Next]_vars
  PROVE  task' = task \/ \E t \in Task, r \in Row : Edited(t, r)
<1>1. CASE UNCHANGED vars
  BY <1>1 DEF vars
<1>2. ASSUME NEW t \in Task, CreateTask(t) PROVE \E r \in Row : Edited(t, r)
  <2>1. PICK needs \in SUBSET Task, s \in Status :
          /\ Valid(t, needs, s)
          /\ task' = [task EXCEPT ![t] = [status |-> s, needs |-> needs, version |-> 1]]
    BY <1>2 DEF CreateTask
  <2>2. [status |-> s, needs |-> needs, version |-> 1] \in Row
    BY DEF Row
  <2> QED BY <2>1, <2>2 DEF Edited, Status
<1>3. ASSUME NEW e \in Editor, NEW t \in Task, UpdateTask(e, t)
      PROVE  task' = task \/ \E r \in Row : Edited(t, r)
  <2>1. PICK needs \in SUBSET Task, s \in Status :
          task' = IF Current(e, t) /\ Valid(t, needs, s)
                  THEN [task EXCEPT ![t] = [status |-> s, needs |-> needs,
                                            version |-> task[t].version + 1]]
                  ELSE task
    BY <1>3 DEF UpdateTask
  <2>2. [status |-> s, needs |-> needs, version |-> task[t].version + 1] \in Row
    BY DEF Row, TypeOK
  <2> QED BY <2>1, <2>2 DEF Edited, Status
<1> QED BY <1>1, <1>2, <1>3 DEF Next, OpenForm

\* What an edit does not reach keeps its edited task: some set of tasks holds the
\* new dependencies and all of theirs, and not the task.
LEMMA UnreachedIsOutside ==
  ASSUME NEW t \in Task, NEW needs \in SUBSET Task, t \notin Reached(needs)
  PROVE  \E C \in SUBSET Task : /\ needs \subseteq C /\ t \notin C
                                /\ \A u \in C : task[u].needs \subseteq C
  BY DEF Reached

\* An edited task still has its neighbours, and no circle is closed.  A set with
\* the task either misses all that the edit reaches, and then the task itself
\* waits for none of it, or the part that is reached has such a task already.
LEMMA EditsStayAcyclic ==
  ASSUME TypeOK, Acyclic, NEW t \in Task, NEW r \in Row, Edited(t, r)
  PROVE  Acyclic'
<1> SUFFICES ASSUME NEW S \in SUBSET Task, S # {}
             PROVE  \E u \in S : task'[u].needs \cap S = {}
  BY DEF Acyclic
<1>0. /\ \A u \in Task : u # t => task'[u] = task[u]
      /\ task'[t] = r
  BY DEF Edited, TypeOK
<1>1. CASE t \notin S
  <2>1. PICK u \in S : task[u].needs \cap S = {}
    BY DEF Acyclic
  <2> QED BY <1>0, <1>1, <2>1
<1>2. CASE t \in S
  <2>1. PICK C \in SUBSET Task : /\ r.needs \subseteq C /\ t \notin C
                                 /\ \A u \in C : task[u].needs \subseteq C
    <3>1. r.needs \in SUBSET Task /\ t \notin Reached(r.needs)
      BY DEF Edited, Valid, Row
    <3> QED BY <3>1, UnreachedIsOutside
  <2>2. CASE S \cap C = {}
    BY <1>0, <1>2, <2>1, <2>2
  <2>3. CASE S \cap C # {}
    <3>1. PICK u \in S \cap C : task[u].needs \cap (S \cap C) = {}
      BY <2>3 DEF Acyclic
    <3>2. task[u].needs \subseteq C /\ u # t
      BY <2>1, <3>1
    <3> QED BY <1>0, <3>1, <3>2
  <2> QED BY <2>2, <2>3
<1> QED BY <1>1, <1>2

\* An edited task is completed only after what it needs, and is not reopened
\* under a completed one.
LEMMA EditsKeepDone ==
  ASSUME TypeOK, DoneAfterDependencies, NEW t \in Task, NEW r \in Row, Edited(t, r)
  PROVE  DoneAfterDependencies'
<1> SUFFICES ASSUME NEW w \in Task, Done(w)', NEW u \in task'[w].needs
             PROVE  Done(u)'
  BY DEF DoneAfterDependencies
<1>0. /\ \A v \in Task : v # t => task'[v] = task[v]
      /\ task'[t] = r
  BY DEF Edited, TypeOK
<1>1. CASE w = t
  <2>1. u \in r.needs /\ r.status = "done"
    BY <1>0, <1>1 DEF Done
  <2>2. Done(u) /\ u \in Task
    BY <2>1 DEF Edited, Valid, Existing
  <2>3. CASE u = t
    BY <1>0, <2>1, <2>3 DEF Done
  <2>4. CASE u # t
    BY <1>0, <2>2, <2>4 DEF Done
  <2> QED BY <2>3, <2>4
<1>2. CASE w # t
  <2>1. Done(w) /\ u \in task[w].needs /\ u \in Task
    BY <1>0, <1>2 DEF Done, TypeOK
  <2>2. CASE u = t
    <3>1. r.status = "done"
      BY <2>1, <2>2 DEF Edited, Valid, KeepsDone
    <3> QED BY <1>0, <2>2, <3>1 DEF Done
  <2>3. CASE u # t
    BY <1>0, <2>1, <2>3 DEF Done, DoneAfterDependencies
  <2> QED BY <2>2, <2>3
<1> QED BY <1>1, <1>2

-----------------------------------------------------------------------------
\* Tasks and forms have their types, for any numbers of them.
THEOREM TasksTypeCorrect == Spec => []TypeOK
<1>1. Init => TypeOK
  BY DEF Init, TypeOK, NoTask, NoForm, Status
<1>2. TypeOK /\ [Next]_vars => TypeOK'
  <2> SUFFICES ASSUME TypeOK, [Next]_vars PROVE TypeOK'
    OBVIOUS
  <2>1. task' \in [Task -> Row]
    <3>1. task \in [Task -> Row]
      BY DEF TypeOK, Row
    <3>2. task' = task \/ \E t \in Task, r \in Row : Edited(t, r)
      BY StepsEdit
    <3> QED BY <3>1, <3>2 DEF Edited
  <2>2. form' \in [Editor -> [task : Row, id : SUBSET Task, open : BOOLEAN]]
    <3>0. form \in [Editor -> [task : Row, id : SUBSET Task, open : BOOLEAN]]
          /\ task \in [Task -> Row]
      BY DEF TypeOK, Row
    <3>1. NoForm \in [task : Row, id : SUBSET Task, open : BOOLEAN]
      BY DEF NoForm, NoTask, Row, Status
    <3>2. ASSUME NEW e \in Editor, NEW t \in Task, OpenForm(e, t)
          PROVE  form' \in [Editor -> [task : Row, id : SUBSET Task, open : BOOLEAN]]
      BY <3>0, <3>2 DEF OpenForm
    <3>3. ASSUME NEW e \in Editor, NEW t \in Task, UpdateTask(e, t)
          PROVE  form' \in [Editor -> [task : Row, id : SUBSET Task, open : BOOLEAN]]
      BY <3>0, <3>1, <3>3 DEF UpdateTask
    <3> QED BY <3>0, <3>2, <3>3 DEF Next, CreateTask, vars
  <2> QED BY <2>1, <2>2 DEF TypeOK, Row
<1> QED BY <1>1, <1>2, PTL DEF Spec

\* No sequence of edits closes a circle of dependencies, although each of them
\* looks only at what one task can reach (validate_task).
THEOREM NeverCircular == Spec => []Acyclic
<1>1. Init => Acyclic
  <2> SUFFICES ASSUME Init, NEW S \in SUBSET Task, S # {}
               PROVE  \E t \in S : task[t].needs \cap S = {}
    BY DEF Acyclic
  <2>1. \A t \in S : task[t].needs = {}
    BY DEF Init, NoTask
  <2> QED BY <2>1
<1>2. TypeOK /\ Acyclic /\ [Next]_vars => Acyclic'
  <2> SUFFICES ASSUME TypeOK, Acyclic, [Next]_vars PROVE Acyclic'
    OBVIOUS
  <2>1. CASE task' = task
    BY <2>1 DEF Acyclic
  <2>2. CASE \E t \in Task, r \in Row : Edited(t, r)
    BY <2>2, EditsStayAcyclic
  <2> QED BY <2>1, <2>2, StepsEdit
<1> QED BY <1>1, <1>2, TasksTypeCorrect, PTL DEF Spec

\* A completed task waits for none that is open, whichever was edited last.
THEOREM DoneInOrder == Spec => []DoneAfterDependencies
<1>1. Init => DoneAfterDependencies
  BY DEF Init, DoneAfterDependencies, Done, NoTask
<1>2. TypeOK /\ DoneAfterDependencies /\ [Next]_vars => DoneAfterDependencies'
  <2> SUFFICES ASSUME TypeOK, DoneAfterDependencies, [Next]_vars PROVE DoneAfterDependencies'
    OBVIOUS
  <2>1. CASE task' = task
    BY <2>1 DEF DoneAfterDependencies, Done
  <2>2. CASE \E t \in Task, r \in Row : Edited(t, r)
    BY <2>2, EditsKeepDone
  <2> QED BY <2>1, <2>2, StepsEdit
<1> QED BY <1>1, <1>2, TasksTypeCorrect, PTL DEF Spec

\* Both at once, as the run checks them: whatever is edited by whom, work can go on in an
\* order that never returns to a task.
THEOREM TasksStayOrdered == Spec => []DependenciesHold
<1>1. Acyclic /\ DoneAfterDependencies => DependenciesHold
  BY DEF DependenciesHold
<1> QED BY <1>1, NeverCircular, DoneInOrder, PTL

-----------------------------------------------------------------------------
\* An edit raises the version, so a form never catches up with a task that was
\* edited after the form was opened.
LEMMA FormsStayRead ==
  ASSUME TypeOK, FormsAreRead, [Next]_vars
  PROVE  FormsAreRead'
<1> SUFFICES ASSUME NEW e \in Editor, NEW t \in Task, form'[e].open, form'[e].id = {t}
             PROVE  /\ task'[t] # NoTask
                    /\ form'[e].task.version <= task'[t].version
                    /\ form'[e].task.version = task'[t].version => form'[e].task = task'[t]
  BY DEF FormsAreRead, Existing
<1> DEFINE Kept == /\ task'[t] # NoTask
                   /\ form'[e].task.version <= task'[t].version
                   /\ form'[e].task.version = task'[t].version => form'[e].task = task'[t]
<1>1. CASE UNCHANGED vars
  BY <1>1 DEF FormsAreRead, Existing, vars
<1>2. ASSUME NEW u \in Task, CreateTask(u)
      PROVE  Kept
  <2>1. form' = form /\ t \in Existing
    BY <1>2 DEF CreateTask, FormsAreRead
  <2>2. task'[t] = task[t]
    BY <1>2, <2>1 DEF CreateTask, Existing, TypeOK
  <2> QED BY <2>1, <2>2 DEF FormsAreRead, Existing
<1>3. ASSUME NEW d \in Editor, NEW u \in Task, OpenForm(d, u)
      PROVE  Kept
  <2>1. CASE d = e
    <3>1. form'[e].task = task[u] /\ form'[e].id = {u} /\ task' = task /\ u \in Existing
      BY <1>3, <2>1 DEF OpenForm, TypeOK
    <3>2. u = t /\ task[t].version \in Nat
      BY <3>1 DEF TypeOK
    <3> QED BY <3>1, <3>2 DEF Existing
  <2>2. CASE d # e
    <3>1. form'[e] = form[e] /\ task' = task
      BY <1>3, <2>2 DEF OpenForm, TypeOK
    <3> QED BY <3>1 DEF FormsAreRead, Existing
  <2> QED BY <2>1, <2>2
<1>4. ASSUME NEW d \in Editor, NEW u \in Task, UpdateTask(d, u)
      PROVE  Kept
  <2>1. d # e /\ form'[e] = form[e]
    BY <1>4 DEF UpdateTask, NoForm, TypeOK
  <2>2. t \in Existing /\ form[e].task.version <= task[t].version
        /\ (form[e].task.version = task[t].version => form[e].task = task[t])
    BY <2>1 DEF FormsAreRead
  <2>3. task'[t] = task[t] \/ task'[t].version = task[t].version + 1
    BY <1>4 DEF UpdateTask, TypeOK
  <2>4. form[e].task.version \in Nat /\ task[t].version \in Nat
    BY DEF TypeOK
  <2>5. CASE task'[t] = task[t]
    BY <2>1, <2>2, <2>5 DEF Existing
  <2>6. CASE task'[t].version = task[t].version + 1
    BY <2>1, <2>2, <2>4, <2>6 DEF NoTask
  <2> QED BY <2>3, <2>5, <2>6
<1> QED BY <1>1, <1>2, <1>3, <1>4 DEF Next

\* Of two forms opened on one task, only the one sent first can change it.
THEOREM EditsNeverBuildOnOld == Spec => EditsBuildOnRead
<1>1. Init => FormsAreRead
  BY DEF Init, FormsAreRead, NoForm
<1>2. TypeOK /\ FormsAreRead /\ [Next]_vars => FormsAreRead'
  BY FormsStayRead
<1>3. TypeOK /\ FormsAreRead /\ [Next]_vars =>
        [\A e \in Editor, t \in Task :
           form[e].open /\ ~form'[e].open /\ task'[t] # task[t] => form[e].task = task[t]]_vars
  <2> SUFFICES ASSUME TypeOK, FormsAreRead, Next, NEW e \in Editor, NEW t \in Task,
                      form[e].open, ~form'[e].open, task'[t] # task[t]
               PROVE  form[e].task = task[t]
    OBVIOUS
  <2>1. ASSUME NEW u \in Task, CreateTask(u) PROVE FALSE
    BY <2>1 DEF CreateTask
  <2>2. ASSUME NEW d \in Editor, NEW u \in Task, OpenForm(d, u) PROVE FALSE
    BY <2>2 DEF OpenForm
  <2>3. ASSUME NEW d \in Editor, NEW u \in Task, UpdateTask(d, u)
        PROVE  form[e].task = task[t]
    <3>1. d = e
      BY <2>3 DEF UpdateTask, TypeOK
    <3>2. u = t /\ Current(d, u)
      BY <2>3 DEF UpdateTask, TypeOK
    <3> QED BY <2>3, <3>1, <3>2 DEF UpdateTask, Current, FormsAreRead
  <2> QED BY <2>1, <2>2, <2>3 DEF Next
<1> QED BY <1>1, <1>2, <1>3, TasksTypeCorrect, PTL DEF Spec, EditsBuildOnRead

-----------------------------------------------------------------------------
(***************************************************************************)
(* The bookings.                                                           *)
(***************************************************************************)
\* The cardinality the module of the bookings speaks of.
LEMMA SameCardinality == ASSUME NEW S PROVE Slots!Cardinality(S) = Cardinality(S)
BY DEF Slots!Cardinality, Cardinality

SlotRow == [batch : Batch, person : Person \cup {None}, tool : Tool \cup {None}, unit : Nat,
            start : Int, end : Int]
BatchStatus == {"draft", "confirmed", "delivered", "preparing", "cancelled"}
SlotTypes ==
  /\ clock \in Nat
  /\ policy \in [Tenant -> [buffer : Nat, version : Nat]]
  /\ tool \in [Tool -> [capacity : Nat, active : BOOLEAN, version : Nat]]
  /\ batch \in [Batch -> [status : BatchStatus, plan : Plan \cup {None}, published : BOOLEAN]]
  /\ slots \subseteq SlotRow
  /\ desk \in [Tenant -> [phase : {"free", "asked", "locked", "read"}, batch : Batch \cup {None},
                          plan : Plan \cup {None}, units : SUBSET Nat]]
  /\ dispatch \in Tenant \cup {None}

\* What a request under way has in hand, and who holds the lock common to all.
Asked(t) ==
  /\ desk[t].phase # "free" => desk[t].batch \in Batch /\ desk[t].plan \in Plan
  /\ desk[t].phase \in {"locked", "read"} <=> dispatch = t

\* The resources a request has found free still are.
StillFree(t) ==
  LET b == desk[t].batch
      plan == desk[t].plan
      units == desk[t].units
  IN /\ \A s \in Slots!Occupied(t, b, plan) :
          s.person \notin Slots!Team(plan) /\ (s.tool = plan.tool => s.unit \notin units)
     /\ tool[plan.tool].active /\ \A u \in units : u < tool[plan.tool].capacity
     /\ IsFiniteSet(units) /\ Cardinality(units) = plan.units

SlotInv ==
  /\ SlotTypes
  /\ \A t \in Tenant : Asked(t)
  /\ \A t \in Tenant : desk[t].phase = "read" => StillFree(t)
  /\ Slots!NoDoubleBooking
  /\ Slots!BookedAsPlanned
  /\ Slots!UnitsExist

LEMMA SlotInit == Slots!Init => SlotInv
<1> SUFFICES ASSUME Slots!Init PROVE SlotInv
  OBVIOUS
<1> USE BookingConstants DEF Slots!Init
<1>1. SlotTypes
  <2>1. policy \in [Tenant -> [buffer : Nat, version : Nat]]
    BY DEF Slots!NoPolicy
  <2>2. tool \in [Tool -> [capacity : Nat, active : BOOLEAN, version : Nat]]
    BY DEF Slots!NoTool
  <2>3. batch \in [Batch -> [status : BatchStatus, plan : Plan \cup {None}, published : BOOLEAN]]
    BY DEF Slots!NewBatch, BatchStatus
  <2>4. desk \in [Tenant -> [phase : {"free", "asked", "locked", "read"}, batch : Batch \cup {None},
                             plan : Plan \cup {None}, units : SUBSET Nat]]
    BY DEF Slots!Free
  <2>5. clock \in Nat /\ slots \subseteq SlotRow /\ dispatch \in Tenant \cup {None}
    OBVIOUS
  <2> QED
    BY <2>1, <2>2, <2>3, <2>4, <2>5 DEF SlotTypes
<1>2. \A t \in Tenant : Asked(t) /\ desk[t].phase # "read"
  BY DEF Asked, Slots!Free
<1>3. Slots!NoDoubleBooking /\ Slots!UnitsExist
  BY DEF Slots!NoDoubleBooking, Slots!UnitsExist, Slots!Upcoming
<1>4. Slots!BookedAsPlanned
  BY DEF Slots!BookedAsPlanned, Slots!AsPlanned, Slots!Own, Slots!NewBatch
<1> QED
  BY <1>1, <1>2, <1>3, <1>4 DEF SlotInv

\* A batch whose row and whose bookings stay is booked as before.
LEMMA BookingsStay ==
  ASSUME Slots!BookedAsPlanned, NEW b \in Batch, batch'[b] = batch[b], Slots!Own(b)' = Slots!Own(b)
  PROVE  Slots!AsPlanned(b, Slots!Own(b))'
<1> DEFINE own == Slots!Own(b)
           old == batch[b]
<1>1. Slots!AsPlanned(b, own)
  BY DEF Slots!BookedAsPlanned
<1>2. own' = own /\ batch'[b] = old
  OBVIOUS
<1> HIDE DEF own
<1>3. Slots!AsPlanned(b, own)'
  BY <1>1, <1>2 DEF Slots!AsPlanned
<1> QED
  BY <1>3 DEF own

\* Nothing is added to what is booked, no request finds anything new and no tool in use
\* loses units: what was free stays free.
LEMMA LessIsBooked ==
  ASSUME SlotInv, slots' \subseteq slots, UNCHANGED <<policy, dispatch>>,
         clock' \in Nat, clock' >= clock,
         SlotTypes', \A t \in Tenant : Asked(t)',
         \A t \in Tenant : desk'[t].phase = "read" =>
            /\ desk'[t] = desk[t] /\ UNCHANGED tool[desk[t].plan.tool],
         \A k \in Tool : \/ UNCHANGED tool[k]
                         \/ Slots!Upcoming(k) = {}
                         \/ tool'[k].active /\ tool'[k].capacity >= tool[k].capacity,
         Slots!BookedAsPlanned'
  PROVE  SlotInv'
<1>1. \A t \in Tenant : desk'[t].phase = "read" => StillFree(t)'
  <2> SUFFICES ASSUME NEW t \in Tenant, desk'[t].phase = "read" PROVE StillFree(t)'
    OBVIOUS
  <2>1. desk[t].phase = "read" /\ StillFree(t)
    BY DEF SlotInv
  <2>2. \A b, plan : Slots!Occupied(t, b, plan)' \subseteq Slots!Occupied(t, b, plan)
    BY DEF Slots!Occupied, Slots!Buffered
  <2> QED
    BY <2>1, <2>2 DEF StillFree
<1>2. Slots!NoDoubleBooking'
  BY DEF SlotInv, Slots!NoDoubleBooking
<1>3. Slots!UnitsExist'
  <2> SUFFICES ASSUME NEW k \in Tool, NEW s \in Slots!Upcoming(k)'
               PROVE  tool'[k].active /\ s.unit < tool'[k].capacity
    BY DEF Slots!UnitsExist
  <2>1. s \in Slots!Upcoming(k) /\ s.unit \in Nat
    BY DEF SlotInv, SlotTypes, SlotRow, Slots!Upcoming
  <2>2. tool[k].active /\ s.unit < tool[k].capacity
    BY <2>1 DEF SlotInv, Slots!UnitsExist
  <2>3. tool[k].capacity \in Nat /\ tool'[k].capacity \in Nat
    BY DEF SlotInv, SlotTypes
  <2> QED
    BY <2>1, <2>2, <2>3
<1> QED
  BY <1>1, <1>2, <1>3 DEF SlotInv

\* A step that changes a configuration or a request, not the bookings.
LEMMA ConfigurationKeeps ==
  ASSUME SlotInv,
         \/ \E t \in Tenant : \/ Slots!ConfigurePolicy(t)
                              \/ \E p \in Person : Slots!ConfigureQualification(t, p)
         \/ \E k \in Tool : Slots!ConfigureTool(k)
         \/ Slots!Tick
  PROVE  SlotInv'
<1> USE BookingConstants
<1>1. ASSUME NEW t \in Tenant, Slots!ConfigurePolicy(t) PROVE SlotInv'
  <2>1. desk[t] = Slots!Free /\ UNCHANGED <<clock, tool, batch, slots, desk, dispatch>>
    BY <1>1 DEF Slots!ConfigurePolicy, Slots!Idle
  <2>2. PICK n \in Buffer : policy' = [policy EXCEPT ![t] = [buffer |-> n, version |-> policy[t].version + 1]]
    BY <1>1 DEF Slots!ConfigurePolicy
  <2>3. SlotTypes' /\ \A o \in Tenant : Asked(o)' /\ (o # t => policy'[o] = policy[o])
    BY <2>1, <2>2 DEF SlotInv, SlotTypes, Asked
  <2>4. \A o \in Tenant : desk'[o].phase = "read" => StillFree(o)'
    <3> SUFFICES ASSUME NEW o \in Tenant, desk[o].phase = "read" PROVE StillFree(o)'
      BY <2>1
    <3>1. o # t /\ policy'[o] = policy[o]
      BY <2>1, <2>3 DEF Slots!Free
    <3>2. \A b, plan : Slots!Occupied(o, b, plan)' = Slots!Occupied(o, b, plan)
      BY <2>1, <3>1 DEF Slots!Occupied, Slots!Buffered
    <3>3. StillFree(o)
      BY DEF SlotInv
    <3> QED
      BY <2>1, <3>2, <3>3 DEF StillFree
  <2>5. Slots!NoDoubleBooking' /\ Slots!UnitsExist'
    BY <2>1 DEF SlotInv, Slots!NoDoubleBooking, Slots!UnitsExist, Slots!Upcoming
  <2>6. Slots!BookedAsPlanned'
    BY <2>1 DEF SlotInv, Slots!BookedAsPlanned, Slots!AsPlanned, Slots!Own
  <2> QED
    BY <2>3, <2>4, <2>5, <2>6 DEF SlotInv
<1>2. ASSUME NEW t \in Tenant, NEW p \in Person, Slots!ConfigureQualification(t, p) PROVE SlotInv'
  <2>1. UNCHANGED <<clock, policy, tool, batch, slots, desk, dispatch>>
    BY <1>2 DEF Slots!ConfigureQualification
  <2>2. SlotTypes' /\ \A o \in Tenant : Asked(o)'
    BY <2>1 DEF SlotInv, SlotTypes, Asked
  <2>3. Slots!BookedAsPlanned'
    BY <2>1 DEF SlotInv, Slots!BookedAsPlanned, Slots!AsPlanned, Slots!Own
  <2>4. clock' \in Nat /\ clock' >= clock
    BY <2>1 DEF SlotInv, SlotTypes
  <2> QED
    BY <2>1, <2>2, <2>3, <2>4, LessIsBooked
<1>3. ASSUME NEW k \in Tool, Slots!ConfigureTool(k) PROVE SlotInv'
  <2>1. dispatch = None /\ UNCHANGED <<clock, policy, batch, slots, desk, dispatch>>
    BY <1>3 DEF Slots!ConfigureTool
  <2>2. PICK n \in 1..MaxCapacity, active \in BOOLEAN :
          /\ Slots!Upcoming(k) # {} => ~Slots!Shrinks(k, n, active)
          /\ tool' = [tool EXCEPT ![k] = [capacity |-> n, active |-> active,
                                          version |-> tool[k].version + 1]]
    BY <1>3 DEF Slots!ConfigureTool
  <2>3. tool' \in [Tool -> [capacity : Nat, active : BOOLEAN, version : Nat]]
    BY <2>2 DEF SlotInv, SlotTypes
  <2>4. SlotTypes' /\ \A o \in Tenant : Asked(o)'
    BY <2>1, <2>3 DEF SlotInv, SlotTypes, Asked
  <2>5. \A o \in Tenant : desk'[o].phase # "read"
    BY <2>1 DEF SlotInv, Asked
  <2>6. \A o \in Tool : \/ UNCHANGED tool[o]
                        \/ Slots!Upcoming(o) = {}
                        \/ tool'[o].active /\ tool'[o].capacity >= tool[o].capacity
    BY <2>2 DEF SlotInv, SlotTypes, Slots!Shrinks
  <2>7. Slots!BookedAsPlanned'
    BY <2>1 DEF SlotInv, Slots!BookedAsPlanned, Slots!AsPlanned, Slots!Own
  <2>8. clock' \in Nat /\ clock' >= clock
    BY <2>1 DEF SlotInv, SlotTypes
  <2> QED
    BY <2>1, <2>4, <2>5, <2>6, <2>7, <2>8, LessIsBooked
<1>4. CASE Slots!Tick
  <2>1. UNCHANGED <<policy, tool, batch, slots, desk, dispatch>> /\ clock' = clock + 1
    BY <1>4 DEF Slots!Tick
  <2>2. SlotTypes' /\ \A o \in Tenant : Asked(o)'
    BY <2>1 DEF SlotInv, SlotTypes, Asked
  <2>3. Slots!BookedAsPlanned'
    BY <2>1 DEF SlotInv, Slots!BookedAsPlanned, Slots!AsPlanned, Slots!Own
  <2>4. clock' \in Nat /\ clock' >= clock
    BY <2>1 DEF SlotInv, SlotTypes
  <2> QED
    BY <2>1, <2>2, <2>3, <2>4, LessIsBooked
<1> QED
  BY <1>1, <1>2, <1>3, <1>4

\* The status of a batch that is neither cancelled nor planned anew.
LEMMA StatusKeeps ==
  ASSUME SlotInv, NEW b \in Batch,
         Slots!Deliver(b) \/ Slots!ReopenBatch(b) \/ Slots!CancelBatch(b)
  PROVE  SlotInv'
<1>1. UNCHANGED <<clock, policy, tool, desk, dispatch>>
  BY DEF Slots!Deliver, Slots!ReopenBatch, Slots!CancelBatch
<1>2. /\ batch' \in [Batch -> [status : BatchStatus, plan : Plan \cup {None}, published : BOOLEAN]]
      /\ batch'[b].plan = batch[b].plan
      /\ \A o \in Batch \ {b} : batch'[o] = batch[o]
  <2>1. batch[b] \in [status : BatchStatus, plan : Plan \cup {None}, published : BOOLEAN]
    BY DEF SlotInv, SlotTypes
  <2>2. PICK new \in [status : BatchStatus, plan : Plan \cup {None}, published : BOOLEAN] :
          new.plan = batch[b].plan /\ batch' = [batch EXCEPT ![b] = new]
    <3>1. CASE Slots!Deliver(b)
      <4> DEFINE changed == [batch[b] EXCEPT !.status = "delivered", !.published = TRUE]
      <4>1. changed \in [status : BatchStatus, plan : Plan \cup {None}, published : BOOLEAN] /\ changed.plan = batch[b].plan
        BY <2>1 DEF BatchStatus
      <4> QED
        BY <4>1, <3>1 DEF Slots!Deliver, SlotInv, SlotTypes
    <3>2. CASE Slots!ReopenBatch(b)
      <4> DEFINE changed == [batch[b] EXCEPT !.status = "preparing"]
      <4>1. changed \in [status : BatchStatus, plan : Plan \cup {None}, published : BOOLEAN] /\ changed.plan = batch[b].plan
        BY <2>1 DEF BatchStatus
      <4> QED
        BY <4>1, <3>2 DEF Slots!ReopenBatch, SlotInv, SlotTypes
    <3>3. CASE Slots!CancelBatch(b)
      <4> DEFINE changed == [batch[b] EXCEPT !.status = "cancelled"]
      <4>1. changed \in [status : BatchStatus, plan : Plan \cup {None}, published : BOOLEAN] /\ changed.plan = batch[b].plan
        BY <2>1 DEF BatchStatus
      <4> QED
        BY <4>1, <3>3 DEF Slots!CancelBatch, SlotInv, SlotTypes
    <3> QED
      BY <3>1, <3>2, <3>3
  <2> QED
    BY <2>2 DEF SlotInv, SlotTypes
<1>3. /\ slots' \subseteq slots
      /\ \A o \in Batch \ {b} : Slots!Own(o)' = Slots!Own(o)
  BY DEF Slots!Deliver, Slots!ReopenBatch, Slots!CancelBatch, Slots!WithoutOwn, Slots!Own
<1>4. SlotTypes' /\ \A o \in Tenant : Asked(o)'
  BY <1>1, <1>2, <1>3 DEF SlotInv, SlotTypes, Asked
<1>5. Slots!AsPlanned(b, Slots!Own(b))'
  <2>1. CASE Slots!CancelBatch(b)
    <3>1. batch'[b].status = "cancelled" /\ Slots!Own(b)' = {}
      BY <2>1 DEF SlotInv, SlotTypes, Slots!CancelBatch, Slots!WithoutOwn, Slots!Own
    <3> QED
      BY <3>1 DEF Slots!AsPlanned
  <2>2. CASE Slots!Deliver(b) \/ Slots!ReopenBatch(b)
    <3>1. /\ batch[b].status # "cancelled" /\ batch'[b].status # "cancelled"
          /\ batch'[b].plan = batch[b].plan /\ Slots!Own(b)' = Slots!Own(b)
      BY <1>2, <2>2 DEF SlotInv, SlotTypes, Slots!Deliver, Slots!ReopenBatch, Slots!Own
    <3>2. Slots!AsPlanned(b, Slots!Own(b))
      BY DEF SlotInv, Slots!BookedAsPlanned
    <3> DEFINE own == Slots!Own(b)
    <3> HIDE DEF own
    <3>3. Slots!AsPlanned(b, own)'
      BY <3>1, <3>2 DEF Slots!AsPlanned, own
    <3> QED
      BY <3>3 DEF own
  <2> QED
    BY <2>1, <2>2
<1>6. Slots!BookedAsPlanned'
  <2>1. ASSUME NEW o \in Batch PROVE Slots!AsPlanned(o, Slots!Own(o))'
    BY <1>2, <1>3, <1>5, BookingsStay DEF SlotInv
  <2> QED
    BY <2>1 DEF Slots!BookedAsPlanned
<1>7. clock' \in Nat /\ clock' >= clock
  BY <1>1 DEF SlotInv, SlotTypes
<1> QED
  BY <1>1, <1>3, <1>4, <1>6, <1>7, LessIsBooked

\* A request begins and takes the lock common to all organizations.
LEMMA RequestsKeep ==
  ASSUME SlotInv,
         (\E b \in Batch : Slots!ScheduleBatch(b)) \/ (\E t \in Tenant : Slots!DispatchLock(t))
  PROVE  SlotInv'
<1> USE BookingConstants
<1>1. UNCHANGED <<clock, policy, tool, batch, slots>>
  BY DEF Slots!ScheduleBatch, Slots!DispatchLock
<1>2. SlotTypes' /\ (\A o \in Tenant : Asked(o)')
      /\ \A o \in Tenant : desk'[o].phase = "read" => desk'[o] = desk[o] /\ UNCHANGED dispatch
  <2>1. ASSUME NEW b \in Batch, Slots!ScheduleBatch(b)
        PROVE  SlotTypes' /\ (\A o \in Tenant : Asked(o)')
               /\ \A o \in Tenant : desk'[o].phase = "read" => desk'[o] = desk[o] /\ UNCHANGED dispatch
    <3> DEFINE t == OwnerOf[b]
    <3>1. t \in Tenant /\ desk[t] = Slots!Free /\ UNCHANGED dispatch
      BY <2>1 DEF Slots!ScheduleBatch, Slots!Idle
    <3>2. PICK plan \in Plan : desk' = [desk EXCEPT ![t] = [Slots!Free EXCEPT !.phase = "asked", !.batch = b,
                                                      !.plan = plan]]
      BY <2>1 DEF Slots!ScheduleBatch
    <3> HIDE DEF t
    <3>3. desk'[t] = [phase |-> "asked", batch |-> b, plan |-> plan, units |-> {}]
      BY <3>1, <3>2 DEF SlotInv, SlotTypes, Slots!Free
    <3>4. desk[t].phase = "free" /\ \A o \in Tenant \ {t} : desk'[o] = desk[o]
      BY <3>1, <3>2 DEF SlotInv, SlotTypes, Slots!Free
    <3>5. desk' \in [Tenant -> [phase : {"free", "asked", "locked", "read"}, batch : Batch \cup {None},
                          plan : Plan \cup {None}, units : SUBSET Nat]]
      BY <3>1, <3>2, <3>3 DEF SlotInv, SlotTypes
    <3>6. \A o \in Tenant : Asked(o)'
      BY <3>1, <3>3, <3>4 DEF SlotInv, Asked
    <3> QED
      BY <1>1, <3>1, <3>3, <3>4, <3>5, <3>6 DEF SlotInv, SlotTypes
  <2>2. ASSUME NEW t \in Tenant, Slots!DispatchLock(t)
        PROVE  SlotTypes' /\ (\A o \in Tenant : Asked(o)')
               /\ \A o \in Tenant : desk'[o].phase = "read" => desk'[o] = desk[o] /\ UNCHANGED dispatch
    <3>1. /\ dispatch = None /\ dispatch' = t /\ desk[t].phase = "asked"
          /\ desk' = [desk EXCEPT ![t].phase = "locked"]
      BY <2>2 DEF Slots!DispatchLock, Slots!DispatchLockFree
    <3>2. desk' \in [Tenant -> [phase : {"free", "asked", "locked", "read"}, batch : Batch \cup {None},
                          plan : Plan \cup {None}, units : SUBSET Nat]]
      BY <3>1, ZenonT(40) DEF SlotInv, SlotTypes
    <3>3. desk'[t].phase = "locked" /\ desk'[t].batch = desk[t].batch /\ desk'[t].plan = desk[t].plan
      BY <3>1 DEF SlotInv, SlotTypes
    <3>4. \A o \in Tenant \ {t} : desk'[o] = desk[o] /\ desk[o].phase \notin {"locked", "read"}
      BY <3>1 DEF SlotInv, SlotTypes, Asked
    <3>5. \A o \in Tenant : Asked(o)'
      BY <3>1, <3>3, <3>4 DEF SlotInv, Asked
    <3> QED
      BY <1>1, <3>1, <3>2, <3>3, <3>4, <3>5 DEF SlotInv, SlotTypes
  <2> QED
    BY <2>1, <2>2
<1>3. \A o \in Tenant : desk'[o].phase = "read" => StillFree(o)'
  <2> SUFFICES ASSUME NEW o \in Tenant, desk'[o].phase = "read" PROVE StillFree(o)'
    OBVIOUS
  <2>1. desk'[o] = desk[o] /\ StillFree(o)
    BY <1>2 DEF SlotInv
  <2>2. \A b, plan : Slots!Occupied(o, b, plan)' = Slots!Occupied(o, b, plan)
    BY <1>1 DEF Slots!Occupied, Slots!Buffered
  <2> QED
    BY <1>1, <2>1, <2>2 DEF StillFree
<1>4. Slots!NoDoubleBooking' /\ Slots!UnitsExist'
  BY <1>1 DEF SlotInv, Slots!NoDoubleBooking, Slots!UnitsExist, Slots!Upcoming
<1>5. Slots!BookedAsPlanned'
  BY <1>1 DEF SlotInv, Slots!BookedAsPlanned, Slots!AsPlanned, Slots!Own
<1> QED
  BY <1>2, <1>3, <1>4, <1>5 DEF SlotInv

\* The conflicts are read under the common lock; the request gives up or keeps units that
\* are free.
LEMMA ReadKeeps ==
  ASSUME SlotInv, NEW t \in Tenant, Slots!ReadConflicts(t) PROVE SlotInv'
<1> USE BookingConstants
<1> DEFINE b == desk[t].batch
           plan == desk[t].plan
           taken == Slots!Occupied(t, b, plan)
           available == {u \in 0..(tool[plan.tool].capacity - 1) :
                           ~\E s \in taken : s.tool = plan.tool /\ s.unit = u}
           refused == \/ ~Slots!Configured(t, plan)
                      \/ \E s \in taken : s.person \in Slots!Team(plan)
                      \/ Cardinality(available) < plan.units
           first == {u \in available : Cardinality(Below(available, u)) < plan.units}
<1>1. /\ desk[t].phase = "locked" /\ UNCHANGED <<clock, policy, tool, batch, slots>>
      /\ IF refused THEN desk' = [desk EXCEPT ![t] = Slots!Free] /\ dispatch' = None
         ELSE /\ desk' = [desk EXCEPT ![t].phase = "read", ![t].units = first]
              /\ UNCHANGED dispatch
  <2>1. desk[t].phase = "locked" /\ UNCHANGED <<clock, policy, tool, batch, slots>>
    BY DEF Slots!ReadConflicts
  <2>2. IF refused THEN desk' = [desk EXCEPT ![t] = Slots!Free] /\ dispatch' = None
        ELSE /\ desk' = [desk EXCEPT ![t].phase = "read", ![t].units = first]
             /\ UNCHANGED dispatch
    <3>1. CASE refused
      BY <3>1, SameCardinality DEF Slots!ReadConflicts
    <3>2. CASE ~refused
      BY <3>2, SameCardinality DEF Slots!ReadConflicts, Below
    <3> QED
      BY <3>1, <3>2
  <2> QED
    BY <2>1, <2>2
<1>2. b \in Batch /\ plan \in Plan /\ dispatch = t /\ plan.units \in Nat /\ plan.tool \in Tool
  BY <1>1 DEF SlotInv, Asked
<1>3. tool[plan.tool].capacity \in Nat
  BY <1>2 DEF SlotInv, SlotTypes
<1>4. /\ first \subseteq available /\ available \subseteq 0..(tool[plan.tool].capacity - 1)
      /\ available \subseteq Nat
  BY <1>3
<1>5. IsFiniteSet(available)
  BY <1>3, <1>4, NumbersBelow, FS_Subset
<1>6. \A o \in Tenant \ {t} : desk'[o] = desk[o] /\ desk[o].phase \notin {"locked", "read"}
  BY <1>1, <1>2 DEF SlotInv, SlotTypes, Asked
<1>7. Slots!NoDoubleBooking' /\ Slots!UnitsExist'
  BY <1>1 DEF SlotInv, Slots!NoDoubleBooking, Slots!UnitsExist, Slots!Upcoming
<1>8. Slots!BookedAsPlanned'
  BY <1>1 DEF SlotInv, Slots!BookedAsPlanned, Slots!AsPlanned, Slots!Own
<1>9. CASE refused
  <2>1. desk' = [desk EXCEPT ![t] = Slots!Free] /\ dispatch' = None
    BY <1>1, <1>9
  <2>2. SlotTypes'
    BY <1>1, <2>1 DEF SlotInv, SlotTypes, Slots!Free
  <2>3. \A o \in Tenant : Asked(o)' /\ desk'[o].phase # "read"
    BY <1>2, <1>6, <2>1 DEF SlotInv, SlotTypes, Asked, Slots!Free
  <2> QED
    BY <1>7, <1>8, <2>2, <2>3 DEF SlotInv
<1>10. CASE ~refused
  <2>1. desk' = [desk EXCEPT ![t].phase = "read", ![t].units = first] /\ UNCHANGED dispatch
    BY <1>1, <1>10
  <2>2. /\ tool[plan.tool].active /\ \A s \in taken : s.person \notin Slots!Team(plan)
        /\ ~(Cardinality(available) < plan.units)
    BY <1>10 DEF Slots!Configured
  <2>3. Cardinality(available) \in Nat
    BY <1>5, FS_CardinalityType
  <2>4. IsFiniteSet(first) /\ Cardinality(first) = plan.units
    <3> HIDE DEF available
    <3>1. available \in SUBSET Nat /\ plan.units \in Nat /\ plan.units <= Cardinality(available)
      BY <1>2, <1>4, <2>2, <2>3
    <3> QED
      BY ONLY <1>5, <3>1, FirstOnesCount
  <2>5. \A s \in taken : s.tool = plan.tool => s.unit \notin first
    OBVIOUS
  <2>6. \A u \in first : u < tool[plan.tool].capacity
    BY <1>3, <1>4
  <2> HIDE DEF first, refused, available
  <2>7. /\ desk'[t].phase = "read" /\ desk'[t].units = first /\ desk'[t].batch = b /\ desk'[t].plan = plan
    BY <2>1 DEF SlotInv, SlotTypes
  <2>8. SlotTypes'
    <3>1. desk[t] \in [phase : {"free", "asked", "locked", "read"}, batch : Batch \cup {None},
                       plan : Plan \cup {None}, units : SUBSET Nat]
      BY DEF SlotInv, SlotTypes
    <3>2. desk' = [desk EXCEPT ![t] = [desk[t] EXCEPT !.phase = "read", !.units = first]]
      BY <2>1 DEF SlotInv, SlotTypes
    <3>3. first \in SUBSET Nat
      BY <1>4
    <3>4. desk' \in [Tenant -> [phase : {"free", "asked", "locked", "read"}, batch : Batch \cup {None},
                                plan : Plan \cup {None}, units : SUBSET Nat]]
      BY <3>1, <3>2, <3>3 DEF SlotInv, SlotTypes
    <3> QED
      BY <1>1, <2>1, <3>4 DEF SlotInv, SlotTypes
  <2>9. \A o \in Tenant : Asked(o)'
    BY <1>2, <1>6, <2>1, <2>7 DEF SlotInv, Asked
  <2>10. \A x, y : Slots!Occupied(t, x, y)' = Slots!Occupied(t, x, y)
    BY <1>1 DEF Slots!Occupied, Slots!Buffered
  <2>11. StillFree(t)'
    <3> PICK x, y, units : x = b /\ y = plan /\ units = first
      OBVIOUS
    <3>1. Slots!Occupied(t, x, y)' = taken
      BY <2>10
    <3>2. /\ \A s \in Slots!Occupied(t, x, y)' :
               s.person \notin Slots!Team(y) /\ (s.tool = y.tool => s.unit \notin units)
          /\ tool'[y.tool].active /\ \A u \in units : u < tool'[y.tool].capacity
          /\ IsFiniteSet(units) /\ Cardinality(units) = y.units
      BY <1>1, <2>2, <2>4, <2>5, <2>6, <3>1
    <3>3. desk'[t].batch = x /\ desk'[t].plan = y /\ desk'[t].units = units
      BY <2>7
    <3> QED
      BY <3>2, <3>3 DEF StillFree, Slots!Team
  <2>12. \A o \in Tenant : desk'[o].phase = "read" => StillFree(o)'
    BY <1>6, <2>11
  <2> QED
    BY <1>7, <1>8, <2>8, <2>9, <2>12 DEF SlotInv
<1> QED
  BY <1>9, <1>10

\* What a request writes are rows of its batch, of its team and of the units it found free.
Written(s, t, b, plan, units) ==
  /\ s.batch = b /\ s.start = Slots!Buffered(t, plan)[1] /\ s.end = Slots!Buffered(t, plan)[2]
  /\ \/ s.person \in Slots!Team(plan) /\ s.tool = None
     \/ s.person = None /\ s.tool = plan.tool /\ s.unit \in units

LEMMA WhatIsWritten ==
  ASSUME SlotInv, NEW t \in Tenant, NEW b \in Batch, NEW plan \in Plan, NEW units \in SUBSET Nat,
         NEW s, LET w == Slots!Buffered(t, plan)
                IN s \in {Slots!PersonSlot(b, p, w) : p \in Slots!Team(plan)}
                         \cup {Slots!UnitSlot(b, plan.tool, u, w) : u \in units}
  PROVE  Written(s, t, b, plan, units) /\ s \in SlotRow
<1> USE BookingConstants
<1> DEFINE w == Slots!Buffered(t, plan)
<1>1. w[1] \in Int /\ w[2] \in Int
  BY DEF SlotInv, SlotTypes, Slots!Buffered
<1> HIDE DEF w
<1>2. \/ \E p \in Slots!Team(plan) : s = Slots!PersonSlot(b, p, w)
      \/ \E u \in units : s = Slots!UnitSlot(b, plan.tool, u, w)
  BY DEF w
<1>3. ASSUME NEW p \in Slots!Team(plan), s = Slots!PersonSlot(b, p, w)
      PROVE  Written(s, t, b, plan, units) /\ s \in SlotRow
  BY <1>1, <1>3 DEF Slots!PersonSlot, Slots!Team, Written, SlotRow, w
<1>4. ASSUME NEW u \in units, s = Slots!UnitSlot(b, plan.tool, u, w)
      PROVE  Written(s, t, b, plan, units) /\ s \in SlotRow
  BY <1>1, <1>4 DEF Slots!UnitSlot, Written, SlotRow, w
<1> QED
  BY <1>2, <1>3, <1>4

\* The units that are written are as many as the plan asks for.
LEMMA UnitsAreCounted ==
  ASSUME NEW b, NEW k, NEW w, NEW units, IsFiniteSet(units),
         NEW rows, rows = {Slots!UnitSlot(b, k, u, w) : u \in units}
  PROVE  Cardinality(rows) = Cardinality(units)
<1> DEFINE f == [u \in units |-> Slots!UnitSlot(b, k, u, w)]
<1>1. f \in [units -> rows] /\ \A s \in rows : \E u \in units : f[u] = s
  OBVIOUS
<1>2. \A u, v \in units : f[u] = f[v] => u = v
  BY DEF Slots!UnitSlot
<1>3. f \in Injection(units, rows) /\ f \in Surjection(units, rows)
  BY <1>1, <1>2 DEF Injection, IsInjective, Surjection
<1> QED
  BY <1>3, FS_Surjection

LEMMA WriteKeeps ==
  ASSUME SlotInv, NEW t \in Tenant, Slots!WriteSchedule(t) PROVE SlotInv'
<1> USE BookingConstants
<1>1. PICK b \in Batch, plan \in Plan, units \in SUBSET Nat :
        b = desk[t].batch /\ plan = desk[t].plan /\ units = desk[t].units
  BY DEF SlotInv, SlotTypes, Asked, Slots!WriteSchedule
<1> DEFINE w == Slots!Buffered(t, plan)
           persons == {Slots!PersonSlot(b, p, w) : p \in Slots!Team(plan)}
           booked == {Slots!UnitSlot(b, plan.tool, u, w) : u \in units}
<1>2. /\ desk[t].phase = "read" /\ UNCHANGED <<clock, policy, tool>>
      /\ slots' = Slots!WithoutOwn(b) \cup persons \cup booked
      /\ batch' = [batch EXCEPT ![b].status = "confirmed", ![b].plan = plan]
      /\ desk' = [desk EXCEPT ![t] = Slots!Free] /\ dispatch' = None
  BY <1>1 DEF Slots!WriteSchedule
<1>3. StillFree(t) /\ dispatch = t
  BY <1>2 DEF SlotInv, Asked
<1>4. /\ \A s \in Slots!Occupied(t, b, plan) :
           s.person \notin Slots!Team(plan) /\ (s.tool = plan.tool => s.unit \notin units)
      /\ tool[plan.tool].active /\ \A u \in units : u < tool[plan.tool].capacity
      /\ IsFiniteSet(units) /\ Cardinality(units) = plan.units
  BY <1>1, <1>3 DEF StillFree
<1>5. \A s \in persons \cup booked : Written(s, t, b, plan, units) /\ s \in SlotRow
  BY WhatIsWritten
<1>6. \A s \in slots' : \/ s \in slots /\ s.batch # b
                        \/ s \in persons \cup booked
  BY <1>2 DEF Slots!WithoutOwn
<1>7. batch' \in [Batch -> [status : BatchStatus, plan : Plan \cup {None}, published : BOOLEAN]]
      /\ batch'[b].plan = plan /\ batch'[b].status = "confirmed"
      /\ \A o \in Batch \ {b} : batch'[o] = batch[o]
  <2>1. batch[b] \in [status : BatchStatus, plan : Plan \cup {None}, published : BOOLEAN]
    BY DEF SlotInv, SlotTypes
  <2>2. batch' = [batch EXCEPT ![b] = [batch[b] EXCEPT !.status = "confirmed", !.plan = plan]]
    BY <1>2 DEF SlotInv, SlotTypes
  <2>3. [batch[b] EXCEPT !.status = "confirmed", !.plan = plan]
          \in [status : BatchStatus, plan : Plan \cup {None}, published : BOOLEAN]
    BY <2>1 DEF BatchStatus
  <2> QED
    BY <2>1, <2>2, <2>3 DEF SlotInv, SlotTypes
<1>8. SlotTypes'
  <2>1. slots' \subseteq SlotRow
    BY <1>5, <1>6 DEF SlotInv, SlotTypes
  <2>2. desk' \in [Tenant -> [phase : {"free", "asked", "locked", "read"}, batch : Batch \cup {None},
                              plan : Plan \cup {None}, units : SUBSET Nat]]
    BY <1>2 DEF SlotInv, SlotTypes, Slots!Free
  <2> QED
    BY <1>2, <1>7, <2>1, <2>2 DEF SlotInv, SlotTypes
<1>9. \A o \in Tenant : Asked(o)' /\ desk'[o].phase # "read"
  BY <1>2, <1>3 DEF SlotInv, SlotTypes, Asked, Slots!Free
<1>10. Slots!NoDoubleBooking'
  <2>1. ASSUME NEW s \in slots, s.batch # b, NEW r \in persons \cup booked, Slots!SameResource(s, r)
        PROVE  ~Slots!Overlap(s, r) /\ ~Slots!Overlap(r, s)
    <3>1. Written(r, t, b, plan, units) /\ s \in SlotRow
      BY <1>5 DEF SlotInv, SlotTypes
    <3>2. s \notin Slots!Occupied(t, b, plan)
      BY <1>4, <2>1, <3>1 DEF Written, Slots!SameResource
    <3>3. ~(s.start < w[2] /\ s.end > w[1])
      BY <2>1, <3>2 DEF Slots!Occupied
    <3>4. w[1] \in Int /\ w[2] \in Int /\ s.start \in Int /\ s.end \in Int
      BY <3>1 DEF SlotInv, SlotTypes, Slots!Buffered, SlotRow
    <3> HIDE DEF w
    <3>5. r.start = w[1] /\ r.end = w[2]
      BY <3>1 DEF Written, w
    <3> QED
      BY <3>3, <3>4, <3>5 DEF Slots!Overlap
  <2> SUFFICES ASSUME NEW s \in slots', NEW r \in slots', s.batch # r.batch, Slots!SameResource(s, r)
               PROVE  ~Slots!Overlap(s, r)
    BY DEF Slots!NoDoubleBooking
  <2>2. CASE s \in slots /\ r \in slots
    BY <2>2 DEF SlotInv, Slots!NoDoubleBooking
  <2>3. \A x \in persons \cup booked : x.batch = b
    BY <1>5 DEF Written
  <2>4. Slots!SameResource(r, s)
    BY DEF Slots!SameResource
  <2> QED
    BY <1>6, <2>1, <2>2, <2>3, <2>4
<1>11. Slots!UnitsExist'
  <2> SUFFICES ASSUME NEW k \in Tool, NEW s \in Slots!Upcoming(k)'
               PROVE  tool'[k].active /\ s.unit < tool'[k].capacity
    BY DEF Slots!UnitsExist
  <2>1. s \in slots' /\ s.tool = k /\ s.end > clock
    BY <1>2 DEF Slots!Upcoming
  <2>2. CASE s \in slots
    BY <1>2, <2>1, <2>2 DEF SlotInv, Slots!UnitsExist, Slots!Upcoming
  <2>3. CASE s \in persons \cup booked
    BY <1>2, <1>4, <1>5, <2>1, <2>3 DEF Written
  <2> QED
    BY <1>6, <2>1, <2>2, <2>3
<1>12. Slots!AsPlanned(b, Slots!Own(b))'
  <2> DEFINE own == persons \cup booked
  <2>1. Slots!Own(b)' = own
    BY <1>2, <1>5, <1>6 DEF Slots!Own, Written
  <2>2. {s.person : s \in own} \ {None} = Slots!Team(plan)
    <3>1. \A s \in own : s.person \in Slots!Team(plan) \cup {None}
      BY <1>5 DEF Written
    <3>2. ASSUME NEW p \in Slots!Team(plan) PROVE \E s \in own : s.person = p
      <4>1. Slots!PersonSlot(b, p, w) \in own
        OBVIOUS
      <4>2. Slots!PersonSlot(b, p, w).person = p
        BY DEF Slots!PersonSlot
      <4> QED
        BY <4>1, <4>2, Zenon
    <3>3. None \notin Slots!Team(plan)
      BY DEF Slots!Team
    <3> HIDE DEF own
    <3> QED
      BY <3>1, <3>2, <3>3
  <2>3. {s \in own : s.tool = plan.tool} = booked
    BY DEF Slots!PersonSlot, Slots!UnitSlot
  <2>4. Cardinality(booked) = plan.units
    <3> HIDE DEF w
    <3>1. IsFiniteSet(units)
      BY <1>4
    <3>2. Cardinality(booked) = Cardinality(units)
      BY <3>1, UnitsAreCounted
    <3> QED
      BY <1>4, <3>2
  <2>5. \A s \in own : s.start <= plan.start /\ s.end >= plan.end
    <3>1. w[1] <= plan.start /\ w[2] >= plan.end
      BY DEF SlotInv, SlotTypes, Slots!Buffered
    <3> QED
      BY <1>5, <3>1 DEF Written
  <2> HIDE DEF own, booked
  <2>6. PICK rows : rows = own
    OBVIOUS
  <2>7. batch'[b].plan # None /\ Slots!AsPlanned(b, rows)'
    BY <1>7, <2>2, <2>3, <2>4, <2>5, <2>6, SameCardinality DEF Slots!AsPlanned, Slots!Team
  <2> QED
    BY <2>1, <2>6, <2>7
<1>13. Slots!BookedAsPlanned'
  <2>1. ASSUME NEW o \in Batch, o # b PROVE Slots!Own(o)' = Slots!Own(o)
    BY <1>2, <1>5, <2>1 DEF Slots!Own, Written, Slots!WithoutOwn
  <2>2. ASSUME NEW o \in Batch PROVE Slots!AsPlanned(o, Slots!Own(o))'
    BY <1>7, <1>12, <2>1, BookingsStay DEF SlotInv
  <2> QED
    BY <2>2 DEF Slots!BookedAsPlanned
<1> QED
  BY <1>8, <1>9, <1>10, <1>11, <1>13 DEF SlotInv

LEMMA SlotStep == SlotInv /\ [Slots!Next]_(Slots!vars) => SlotInv'
<1> SUFFICES ASSUME SlotInv, [Slots!Next]_(Slots!vars) PROVE SlotInv'
  OBVIOUS
<1>1. CASE UNCHANGED Slots!vars
  <2>1. UNCHANGED <<clock, policy, tool, batch, slots, desk, dispatch>>
    BY <1>1 DEF Slots!vars
  <2>2. SlotTypes' /\ (\A t \in Tenant : Asked(t)')
    BY <2>1 DEF SlotInv, SlotTypes, Asked
  <2>3. Slots!BookedAsPlanned'
    BY <2>1 DEF SlotInv, Slots!BookedAsPlanned, Slots!AsPlanned, Slots!Own
  <2>4. clock' \in Nat /\ clock' >= clock
    BY <2>1 DEF SlotInv, SlotTypes
  <2> QED
    BY <2>1, <2>2, <2>3, <2>4, LessIsBooked
<1>2. CASE Slots!Next
  BY <1>2, ConfigurationKeeps, StatusKeeps, RequestsKeep, ReadKeeps, WriteKeeps DEF Slots!Next
<1> QED
  BY <1>1, <1>2

LEMMA SlotInvHolds == Slots!Spec => []SlotInv
BY SlotInit, SlotStep, PTL DEF Slots!Spec

(* Nobody and no unit of a tool is promised to two batches at one time, of  *)
(* one organization or of two, for any people, tools, plans and buffers:   *)
(* what a request reads stays free until it writes, because the lock it    *)
(* holds is common to all.                                                 *)
THEOREM NobodyIsBookedTwice == Slots!Spec => []NoDoubleBooking
<1>1. SlotInv => NoDoubleBooking
  BY DEF SlotInv, NoDoubleBooking
<1> QED
  BY <1>1, SlotInvHolds, PTL

(* The bookings of a batch are those of its present plan, all of them, and *)
(* the units that are booked for a time to come exist.                     *)
THEOREM BookingsAlwaysHold == Slots!Spec => []BookingsHold
<1>1. SlotInv => BookingsHold
  BY DEF SlotInv, BookingsHold, Slots!BookingsHold
<1> QED
  BY <1>1, SlotInvHolds, PTL

-----------------------------------------------------------------------------
(***************************************************************************)
(* The connector.  Figures are only ever those of a refresh that ended     *)
(* well; while one is under way the owner's requests wait for it.          *)
(***************************************************************************)
ConnectorRow ==
  [status : {"disconnected", "connected", "revoked", "error", "stale"},
   figures : Grant \cup {None}, binding : Grant \cup {None}, until : Nat]

ConnectorInv ==
  /\ now \in Nat /\ grant \in Grant \cup {None}
  /\ row \in ConnectorRow
  /\ fetching \in [grant : Grant \cup {None}, at : Nat]
  /\ row.figures # None =>
       /\ row.status = "connected" /\ row.figures = row.binding
       /\ row.until <= now + Ttl
       /\ ~disabled
  /\ fetching # Portfolio!Idle => fetching.grant \in Grant /\ fetching.at <= now /\ ~disabled

LEMMA FailedRow ==
  ASSUME ConnectorInv, NEW status \in {"disconnected", "revoked", "error", "stale"}
  PROVE  Portfolio!Failed(status) \in ConnectorRow /\ Portfolio!Failed(status).figures = None
BY DEF ConnectorInv, ConnectorRow, Portfolio!Failed, Portfolio!NoRow

LEMMA ConnectorStep == ConnectorInv /\ [Portfolio!Next]_(Portfolio!vars) => ConnectorInv'
<1> SUFFICES ASSUME ConnectorInv, [Portfolio!Next]_(Portfolio!vars) PROVE ConnectorInv'
  OBVIOUS
<1> USE PortfolioConstants
<1>1. CASE UNCHANGED Portfolio!vars
  BY <1>1 DEF ConnectorInv, Portfolio!vars
<1>2. ASSUME NEW g \in Grant \cup {None}, Portfolio!Configure(g) PROVE ConnectorInv'
  BY <1>2 DEF ConnectorInv, Portfolio!Configure
<1>3. ASSUME NEW g \in Grant, NEW to \in {"refused", "lapsed"}, Portfolio!Withdraw(g, to) PROVE ConnectorInv'
  BY <1>3 DEF ConnectorInv, Portfolio!Withdraw
<1>4. CASE Portfolio!Tick
  BY <1>4 DEF ConnectorInv, Portfolio!Tick, ConnectorRow
<1>5. CASE Portfolio!Refresh
  BY <1>5 DEF ConnectorInv, Portfolio!Refresh, Portfolio!Usable, Portfolio!world
<1>6. CASE Portfolio!FetchQidaigo
  <2>1. /\ fetching' = Portfolio!Idle /\ UNCHANGED <<now, grant, disabled>> /\ ~disabled
        /\ fetching.grant \in Grant /\ fetching.at \in Nat /\ fetching.at <= now
    BY <1>6 DEF ConnectorInv, Portfolio!FetchQidaigo, Portfolio!world
  <2>2. Portfolio!Idle \in [grant : Grant \cup {None}, at : Nat]
    BY DEF Portfolio!Idle
  <2>3. CASE row' = Portfolio!Fetched
    BY <2>1, <2>2, <2>3 DEF ConnectorInv, Portfolio!Fetched, ConnectorRow
  <2>4. ASSUME NEW status \in {"revoked", "error", "stale"}, row' = Portfolio!Failed(status)
        PROVE  ConnectorInv'
    BY <2>1, <2>2, <2>4, FailedRow DEF ConnectorInv
  <2> QED
    BY <1>6, <2>3, <2>4 DEF Portfolio!FetchQidaigo
<1>7. CASE Portfolio!RefreshUnusable
  <2>1. PICK status \in {"disconnected", "revoked"} : row' = Portfolio!Failed(status)
    BY <1>7 DEF Portfolio!RefreshUnusable
  <2>2. UNCHANGED <<now, grant, fetching>> /\ fetching = Portfolio!Idle
    BY <1>7 DEF Portfolio!RefreshUnusable, Portfolio!TenantLockFree, Portfolio!world
  <2> QED
    BY <2>1, <2>2, FailedRow DEF ConnectorInv
<1>8. CASE Portfolio!DisableConnector
  <2>1. row' \in ConnectorRow /\ row'.figures = None
    BY <1>8 DEF Portfolio!DisableConnector, ConnectorInv, ConnectorRow, Portfolio!NoRow
  <2>2. UNCHANGED <<now, grant, fetching>> /\ fetching = Portfolio!Idle
    BY <1>8 DEF Portfolio!DisableConnector, Portfolio!TenantLockFree, Portfolio!world
  <2> QED
    BY <2>1, <2>2 DEF ConnectorInv
<1>9. CASE Portfolio!PruneExpiredProjections
  <2>1. row' \in ConnectorRow /\ row'.figures = None
    BY <1>9 DEF Portfolio!PruneExpiredProjections, ConnectorInv, ConnectorRow
  <2>2. UNCHANGED <<now, grant, fetching, disabled>>
    BY <1>9 DEF Portfolio!PruneExpiredProjections, Portfolio!world
  <2> QED
    BY <2>1, <2>2 DEF ConnectorInv
<1> QED
  BY <1>1, <1>2, <1>3, <1>4, <1>5, <1>6, <1>7, <1>8, <1>9 DEF Portfolio!Next

(* What the owner is shown comes from the grant that is configured, from a *)
(* refresh that ended well, and is not shown past its deadline or after    *)
(* the connector was disabled: for any grants, deadlines and clocks.       *)
THEOREM FiguresAreCurrent == Portfolio!Spec => []ShownIsCurrent
<1>1. Portfolio!Init => ConnectorInv
  BY PortfolioConstants DEF Portfolio!Init, ConnectorInv, ConnectorRow, Portfolio!NoRow, Portfolio!Idle
<1>2. ConnectorInv => ShownIsCurrent
  BY DEF ConnectorInv, ShownIsCurrent, Portfolio!ShownIsCurrent, Portfolio!Shown
<1> QED
  BY <1>1, <1>2, ConnectorStep, PTL DEF Portfolio!Spec

-----------------------------------------------------------------------------
(***************************************************************************)
(* The questionnaire and the ticket.                                       *)
(***************************************************************************)
AnswerRow == [content : Content \cup {None}, review : Desk!Review]

\* What a request that was sent may name.
Sendable(q) ==
  /\ q.key \in Desk!Key
  /\ q.kind \in {"answer", "review"} => q.of \in Answer
  /\ q.kind = "answer" => q.content \in Content
  /\ q.kind = "review" => q.decision \in Desk!Review

DeskInv ==
  /\ answer \in [Answer -> AnswerRow]
  /\ approved \in [Answer -> Content \cup {None}]
  /\ messages \in [Desk!Key -> Nat] /\ notified \in [Desk!Key -> Nat]
  /\ \A q \in sent : Sendable(q)
  /\ \A a \in Answer : answer[a].review = "reviewed" =>
       approved[a] = answer[a].content /\ answer[a].content \in Documented
  /\ questionnaire = "reviewed" <=> \A a \in Answer : answer[a].review = "reviewed"
  /\ \A k \in Desk!Key : /\ messages[k] <= 1 /\ notified[k] <= messages[k]
                         /\ k \notin receipts => messages[k] = 0

\* What a request does to one answer: the questionnaire follows all of them.
LEMMA AnswerChanges ==
  ASSUME DeskInv, NEW a \in Answer, NEW new \in AnswerRow,
         answer' = [answer EXCEPT ![a] = new],
         questionnaire' = Desk!StatusOf(answer'),
         approved' \in [Answer -> Content \cup {None}],
         \A z \in Answer \ {a} : approved'[z] = approved[z],
         new.review = "reviewed" => approved'[a] = new.content /\ new.content \in Documented,
         UNCHANGED <<messages, notified, sent>>, receipts \subseteq receipts'
  PROVE  DeskInv'
<1>1. /\ answer' \in [Answer -> AnswerRow] /\ answer'[a] = new
      /\ \A z \in Answer \ {a} : answer'[z] = answer[z]
  BY DEF DeskInv
<1>2. questionnaire' = "reviewed" <=> \A z \in Answer : answer'[z].review = "reviewed"
  BY DEF Desk!StatusOf
<1>3. \A z \in Answer : answer'[z].review = "reviewed" =>
        approved'[z] = answer'[z].content /\ answer'[z].content \in Documented
  BY <1>1 DEF DeskInv
<1>4. \A k \in Desk!Key : /\ messages'[k] <= 1 /\ notified'[k] <= messages'[k]
                          /\ k \notin receipts' => messages'[k] = 0
  BY DEF DeskInv
<1> QED
  BY <1>1, <1>2, <1>3, <1>4 DEF DeskInv

LEMMA DeskStep == DeskInv /\ [Desk!Next]_(Desk!vars) => DeskInv'
<1> SUFFICES ASSUME DeskInv, [Desk!Next]_(Desk!vars) PROVE DeskInv'
  OBVIOUS
<1>1. CASE UNCHANGED Desk!vars
  BY <1>1 DEF DeskInv, Desk!vars
<1>2. ASSUME NEW q, Sendable(q), Desk!Send(q) PROVE DeskInv'
  BY <1>2 DEF DeskInv, Desk!Send
<1>3. ASSUME NEW who, Desk!Read(who) PROVE DeskInv'
  BY <1>3 DEF DeskInv, Desk!Read
<1>4. ASSUME NEW q \in sent, Desk!Serve(q) PROVE DeskInv'
  <2>1. /\ Sendable(q) /\ q.key \notin receipts /\ receipts' = receipts \cup {q.key} /\ sent' = sent
    BY <1>4 DEF DeskInv, Desk!Serve, Desk!Remembered
  <2>2. CASE Desk!AnswerQuestion(q)
    <3> DEFINE new == [content |-> q.content, review |-> "unreviewed"]
    <3>1. q.of \in Answer /\ new \in AnswerRow
      BY <2>1, <2>2 DEF Sendable, Desk!AnswerQuestion, AnswerRow, Desk!Review
    <3>2. /\ answer' = [answer EXCEPT ![q.of] = new] /\ questionnaire' = Desk!StatusOf(answer')
          /\ UNCHANGED <<messages, notified, approved>>
      BY <2>2 DEF Desk!AnswerQuestion, Desk!ChangeAnswer
    <3>3. new.review # "reviewed" /\ approved' \in [Answer -> Content \cup {None}]
      BY <3>2 DEF DeskInv
    <3> HIDE DEF new
    <3> QED
      BY <2>1, <3>1, <3>2, <3>3, AnswerChanges
  <2>3. CASE Desk!ReviewAnswer(q)
    <3> DEFINE a == q.of
    <3> DEFINE new == [answer[a] EXCEPT !.review = q.decision]
    <3>1. a \in Answer /\ q.decision \in Desk!Review
      BY <2>1, <2>3 DEF Sendable, Desk!ReviewAnswer
    <3>2. new \in AnswerRow /\ new.review = q.decision /\ new.content = answer[a].content
      BY <3>1 DEF DeskInv, AnswerRow
    <3>3. /\ answer' = [answer EXCEPT ![a] = new] /\ questionnaire' = Desk!StatusOf(answer')
          /\ UNCHANGED <<messages, notified>>
          /\ q.decision = "reviewed" => answer[a].content \in Documented
          /\ approved' = IF q.decision = "reviewed" THEN [approved EXCEPT ![a] = q.expected.content]
                         ELSE approved
      BY <2>3 DEF Desk!ReviewAnswer, Desk!ChangeAnswer
    <3>4. q.expected.content = answer[a].content
      BY <2>3 DEF Desk!ReviewAnswer, Desk!ChangeAnswer, Desk!Matches, Desk!Revision
    <3>5. answer[a].content \in Content \cup {None}
      BY <3>1 DEF DeskInv, AnswerRow
    <3>6. /\ approved' \in [Answer -> Content \cup {None}]
          /\ \A z \in Answer \ {a} : approved'[z] = approved[z]
          /\ q.decision = "reviewed" => approved'[a] = answer[a].content
      BY <3>1, <3>3, <3>4, <3>5 DEF DeskInv
    <3> HIDE DEF new, a
    <3> QED
      BY <2>1, <3>1, <3>2, <3>3, <3>6, AnswerChanges
  <2>4. CASE Desk!SendTicketMessage(q)
    <3>1. /\ messages' = [messages EXCEPT ![q.key] = @ + 1]
          /\ notified' = notified \/ notified' = [notified EXCEPT ![q.key] = @ + 1]
          /\ UNCHANGED <<answer, questionnaire, approved>>
      BY <2>4 DEF Desk!SendTicketMessage
    <3>2. q.key \in Desk!Key /\ messages[q.key] = 0 /\ notified[q.key] = 0
      BY <2>1 DEF DeskInv, Sendable
    <3>3. messages' \in [Desk!Key -> Nat] /\ notified' \in [Desk!Key -> Nat]
      BY <3>1, <3>2 DEF DeskInv
    <3>4. ASSUME NEW k \in Desk!Key
          PROVE  /\ messages'[k] <= 1 /\ notified'[k] <= messages'[k]
                 /\ k \notin receipts' => messages'[k] = 0
      <4>1. CASE k = q.key
        BY <2>1, <3>1, <3>2, <4>1 DEF DeskInv
      <4>2. CASE k # q.key
        BY <2>1, <3>1, <3>2, <4>2 DEF DeskInv
      <4> QED
        BY <4>1, <4>2
    <3> QED
      BY <2>1, <3>1, <3>3, <3>4 DEF DeskInv
  <2>5. CASE Desk!ChangeTicketStatus(q)
    BY <2>1, <2>5 DEF DeskInv, Desk!ChangeTicketStatus
  <2> QED
    BY <1>4, <2>2, <2>3, <2>4, <2>5 DEF Desk!Serve
<1>5. Desk!Fresh \subseteq Desk!Key
  BY DEF Desk!Fresh
<1>6. ASSUME NEW key \in Desk!Key, NEW a \in Answer, NEW content \in Content, Desk!AskAnswer(key, a, content)
      PROVE  DeskInv'
  <2> DEFINE q == [kind |-> "answer", key |-> key, of |-> a, expected |-> seen["author"].answer[a],
                   content |-> content]
  <2>1. Desk!Send(q) /\ Sendable(q)
    BY <1>6 DEF Desk!AskAnswer, Sendable
  <2> HIDE DEF q
  <2> QED
    BY <1>2, <2>1
<1>7. ASSUME NEW key \in Desk!Key, NEW a \in Answer, NEW decision \in Desk!Review, Desk!AskReview(key, a, decision)
      PROVE  DeskInv'
  <2> DEFINE q == [kind |-> "review", key |-> key, of |-> a, expected |-> seen["reviewer"].answer[a],
                   decision |-> decision]
  <2>1. Desk!Send(q) /\ Sendable(q)
    BY <1>7 DEF Desk!AskReview, Sendable
  <2> HIDE DEF q
  <2> QED
    BY <1>2, <2>1
<1>8. ASSUME NEW key \in Desk!Key, NEW internal, NEW visibility, Desk!AskReply(key, internal, visibility)
      PROVE  DeskInv'
  <2> DEFINE q == [kind |-> "reply", key |-> key, internal |-> internal, visibility |-> visibility]
  <2>1. Desk!Send(q) /\ Sendable(q)
    BY <1>8 DEF Desk!AskReply, Sendable
  <2> HIDE DEF q
  <2> QED
    BY <1>2, <2>1
<1>9. ASSUME NEW key \in Desk!Key, NEW status, Desk!AskStatus(key, status)
      PROVE  DeskInv'
  <2> DEFINE q == [kind |-> "status", key |-> key, expected |-> seen["reviewer"].ticket, status |-> status]
  <2>1. Desk!Send(q) /\ Sendable(q)
    BY <1>9 DEF Desk!AskStatus, Sendable
  <2> HIDE DEF q
  <2> QED
    BY <1>2, <2>1
<1> QED
  BY <1>1, <1>3, <1>4, <1>5, <1>6, <1>7, <1>8, <1>9 DEF Desk!Next, Desk!People

LEMMA DeskInvHolds == Desk!Spec => []DeskInv
<1>1. Desk!Init => DeskInv
  <2> SUFFICES ASSUME Desk!Init PROVE DeskInv
    OBVIOUS
  <2>1. PICK a \in Answer : TRUE
    BY DeskConstants
  <2>2. answer \in [Answer -> AnswerRow] /\ answer[a].review # "reviewed"
    BY <2>1 DEF Desk!Init, AnswerRow, Desk!Review
  <2> QED
    BY <2>1, <2>2 DEF Desk!Init, DeskInv
<1> QED
  BY <1>1, DeskStep, PTL DEF Desk!Spec

(* An answer counts as reviewed only as the reviewer had read it, however  *)
(* late requests arrive and however often, for any questions and answers.  *)
THEOREM ReviewsAreOfWhatWasRead == Desk!Spec => []ReviewedAsRead
<1>1. DeskInv => ReviewedAsRead
  BY DEF DeskInv, ReviewedAsRead, Desk!ReviewedAsRead
<1> QED
  BY <1>1, DeskInvHolds, PTL

(* A request that is repeated, for as long as its key is remembered, adds  *)
(* one message and one notification at most.                               *)
THEOREM RepliesAreOnce == Desk!Spec => []RepliesOnce
<1>1. DeskInv => RepliesOnce
  BY DEF DeskInv, RepliesOnce, Desk!RepliesOnce
<1> QED
  BY <1>1, DeskInvHolds, PTL

-----------------------------------------------------------------------------
(***************************************************************************)
(* What was agreed: change orders, the scope of batches, what was imported *)
(* against it and what is tested again.                                    *)
(***************************************************************************)
OrderRow ==
  [status : {"none", "requested", "offered", "confirmed", "applied"}, batch : Scoped \cup {None},
   kind : {"scope", "reschedule", None}, assets : SUBSET Asset, amount : Amount \cup {None},
   version : Nat]

\* A version of an order names one set of terms, whatever form it is read from.
OrdersInv ==
  /\ order \in [Order -> OrderRow] /\ shown \in [Order -> SUBSET OrderRow]
  /\ agreed \in [Order -> OrderRow]
  /\ \A c \in Order : order[c].status = "none" => shown[c] = {}
  /\ \A c \in Order : \A view \in shown[c] :
       /\ view.version <= order[c].version
       /\ view.version = order[c].version => Changes!Terms(view) = Changes!Terms(order[c])
  /\ Changes!ConfirmedAsSeen

ScopeTypes ==
  /\ scoped \in [Scoped -> [status : {"none", "preparing", "confirmed", "awaiting_review",
                                      "approved", "delivered", "cancelled"},
                            scope : SUBSET Asset, assigned : BOOLEAN, published : BOOLEAN,
                            baseline : Scoped \cup {None}]]
  /\ created \in [Scoped -> SUBSET Asset]
  /\ imports \in [Import -> [status : {"none", "preview", "invalid", "committed"},
                             batch : Scoped \cup {None}, scope : SUBSET Asset]]
  /\ request \in [Request -> [status : {"none", "requested", "approved"},
                              batch : Scoped \cup {None}]]

Extends(c, b) == order[c].status = "applied" /\ order[c].kind = "scope" /\ order[c].batch = b
Covered(b, x) ==
  x \in scoped[b].scope <=>
    x \in created[b] \/ \E c \in Order : Extends(c, b) /\ x \in order[c].assets

\* Imports are of batches whose scope no order changes any more; only such batches are
\* published, requests are for published ones, and so are the baselines of retests.
ScopeInv ==
  /\ ScopeTypes
  /\ \A b \in Scoped : scoped[b].status = "none" => scoped[b] = Changes!NoBatch
  /\ \A c \in Order : order[c].status # "none" => order[c].batch \in Changes!Existing
  /\ \A b \in Changes!Existing : \A x \in Asset : Covered(b, x)
  /\ \A i \in Import : imports[i] # Changes!NoImport =>
       imports[i].batch \in Changes!Existing /\ imports[i].scope = scoped[imports[i].batch].scope
  /\ \A b \in Scoped : scoped[b].published => \E i \in Import : imports[i].batch = b
  /\ \A r \in Request : request[r].status # "none" =>
       request[r].batch \in Scoped /\ scoped[request[r].batch].published
  /\ \A b \in Changes!Existing : scoped[b].baseline # None =>
       /\ scoped[b].baseline \in Scoped /\ scoped[scoped[b].baseline].published
       /\ created[b] = scoped[scoped[b].baseline].scope

-----------------------------------------------------------------------------
\* An order that is given another row keeps what its forms say, when the row either has a
\* version of its own or the terms of the present one.
LEMMA OrderChanges ==
  ASSUME OrdersInv, NEW c \in Order, NEW new \in OrderRow, Changes!SetOrder(c, new),
         new.status # "none",
         \/ new.version > order[c].version
         \/ new.version = order[c].version /\ Changes!Terms(new) = Changes!Terms(order[c]),
         agreed' \in [Order -> OrderRow], \A d \in Order \ {c} : agreed'[d] = agreed[d],
         new.status \in {"confirmed", "applied"} => Changes!Terms(agreed'[c]) = Changes!Terms(new)
  PROVE  OrdersInv'
<1>1. /\ order' \in [Order -> OrderRow] /\ order'[c] = new
      /\ \A d \in Order \ {c} : order'[d] = order[d]
  BY DEF OrdersInv, Changes!SetOrder
<1>2. /\ shown' \in [Order -> SUBSET OrderRow] /\ shown'[c] = shown[c] \cup {new}
      /\ \A d \in Order \ {c} : shown'[d] = shown[d]
  BY DEF OrdersInv, Changes!SetOrder
<1>3. ASSUME NEW view \in shown'[c]
      PROVE  /\ view.version <= new.version
             /\ view.version = new.version => Changes!Terms(view) = Changes!Terms(new)
  <2>1. view \in OrderRow /\ order[c] \in OrderRow
    BY <1>2 DEF OrdersInv
  <2>2. view.version \in Nat /\ new.version \in Nat /\ order[c].version \in Nat
    BY <2>1 DEF OrderRow
  <2>3. CASE view = new
    BY <2>2, <2>3
  <2>4. CASE view \in shown[c]
    <3>1. /\ view.version <= order[c].version
          /\ view.version = order[c].version => Changes!Terms(view) = Changes!Terms(order[c])
      BY <2>4 DEF OrdersInv
    <3> QED
      BY <2>2, <3>1
  <2> QED
    BY <1>2, <2>3, <2>4
<1>4. \A d \in Order : \A view \in shown'[d] :
        /\ view.version <= order'[d].version
        /\ view.version = order'[d].version => Changes!Terms(view) = Changes!Terms(order'[d])
  BY <1>1, <1>2, <1>3 DEF OrdersInv
<1>5. \A d \in Order : order'[d].status \in {"confirmed", "applied"} =>
        Changes!Terms(agreed'[d]) = Changes!Terms(order'[d])
  BY <1>1 DEF OrdersInv, Changes!ConfirmedAsSeen
<1>6. \A d \in Order : order'[d].status = "none" => shown'[d] = {}
  BY <1>1, <1>2 DEF OrdersInv
<1>7. Changes!ConfirmedAsSeen'
  BY <1>5 DEF Changes!ConfirmedAsSeen, Changes!Terms
<1> QED
  BY <1>1, <1>2, <1>4, <1>6, <1>7 DEF OrdersInv, Changes!Terms

LEMMA OrdersStep == OrdersInv /\ [Changes!Next]_(Changes!vars) => OrdersInv'
<1> SUFFICES ASSUME OrdersInv, [Changes!Next]_(Changes!vars) PROVE OrdersInv'
  OBVIOUS
<1>1. ASSUME UNCHANGED <<order, shown, agreed>> PROVE OrdersInv'
  BY <1>1 DEF OrdersInv, Changes!ConfirmedAsSeen, Changes!Terms
<1>2. CASE UNCHANGED Changes!vars
  BY <1>1, <1>2 DEF Changes!vars
<1>3. CASE Changes!Batches \/ \E i \in Import : Changes!CommitImport(i)
  BY <1>1, <1>3 DEF Changes!Batches, Changes!CreateBatch, Changes!ScheduleBatch,
    Changes!ReviewBatch, Changes!SubmitReview, Changes!Publish, Changes!ReopenBatch,
    Changes!CancelBatch, Changes!PreviewImport, Changes!RequestRetest, Changes!ApproveRetest,
    Changes!CommitImport
<1>4. ASSUME NEW c \in Order PROVE order[c] \in OrderRow /\ agreed[c] \in OrderRow
  BY DEF OrdersInv
<1>5. ASSUME NEW c \in Order, NEW b \in Scoped, NEW kind \in {"scope", "reschedule"},
             NEW assets \in SUBSET Asset, Changes!RequestChange(c, b, kind, assets)
      PROVE  OrdersInv'
  <2> DEFINE new == [status |-> "requested", batch |-> b, kind |-> kind, assets |-> assets,
                     amount |-> None, version |-> 1]
  <2>1. new \in OrderRow /\ new.status = "requested" /\ new.version = 1
    BY DEF OrderRow
  <2>2. Changes!SetOrder(c, new) /\ agreed' = agreed /\ order[c].status = "none"
    BY <1>5 DEF Changes!RequestChange
  <2> HIDE DEF new
  <2>3. shown[c] = {}
    BY <2>2 DEF OrdersInv
  <2>4. /\ order' \in [Order -> OrderRow] /\ order'[c] = new
        /\ \A d \in Order \ {c} : order'[d] = order[d]
    BY <2>1, <2>2 DEF OrdersInv, Changes!SetOrder
  <2>5. /\ shown' \in [Order -> SUBSET OrderRow] /\ shown'[c] = {new}
        /\ \A d \in Order \ {c} : shown'[d] = shown[d]
    BY <2>1, <2>2, <2>3 DEF OrdersInv, Changes!SetOrder
  <2>6. \A d \in Order : \A view \in shown'[d] :
          /\ view.version <= order'[d].version
          /\ view.version = order'[d].version => Changes!Terms(view) = Changes!Terms(order'[d])
    BY <2>1, <2>4, <2>5 DEF OrdersInv
  <2>7. \A d \in Order : order'[d].status \in {"confirmed", "applied"} =>
          Changes!Terms(agreed'[d]) = Changes!Terms(order'[d])
    BY <2>1, <2>2, <2>4 DEF OrdersInv, Changes!ConfirmedAsSeen
  <2>8. Changes!ConfirmedAsSeen'
    BY <2>7 DEF Changes!ConfirmedAsSeen, Changes!Terms
  <2>9. \A d \in Order : order'[d].status = "none" => shown'[d] = {}
    BY <2>1, <2>4, <2>5 DEF OrdersInv
  <2> QED
    BY <2>2, <2>4, <2>5, <2>6, <2>8, <2>9 DEF OrdersInv, Changes!Terms
<1>6. ASSUME NEW c \in Order, NEW view \in shown[c], NEW amount \in Amount,
             Changes!OfferChange(c, view, amount)
      PROVE  OrdersInv'
  <2>1. PICK new : new = [order[c] EXCEPT !.status = "offered", !.amount = amount,
                                          !.version = order[c].version + 1]
    OBVIOUS
  <2> DEFINE old == order[c]
  <2>4. old \in OrderRow /\ old.version \in Nat /\ old.version + 1 \in Nat
    BY <1>4 DEF OrderRow
  <2>5. new = [old EXCEPT !.status = "offered", !.amount = amount, !.version = old.version + 1]
    BY <2>1
  <2> HIDE DEF old
  <2>6. new \in OrderRow /\ new.version = old.version + 1 /\ new.status = "offered"
    BY <2>4, <2>5 DEF OrderRow
  <2>2. new \in OrderRow /\ new.version > order[c].version /\ new.status = "offered"
    BY <2>4, <2>6 DEF old
  <2>3. Changes!SetOrder(c, new) /\ agreed' = agreed
    BY <1>6, <2>1 DEF Changes!OfferChange
  <2> QED
    BY <2>2, <2>3, OrderChanges DEF OrdersInv
<1>7. ASSUME NEW c \in Order, NEW view \in shown[c], Changes!ConfirmChange(c, view)
      PROVE  OrdersInv'
  <2>1. PICK new : new = [order[c] EXCEPT !.status = "confirmed"]
    OBVIOUS
  <2>2. new \in OrderRow /\ new.version = order[c].version /\ new.status = "confirmed"
    BY <1>4, <2>1 DEF OrderRow
  <2>3. Changes!Terms(new) = Changes!Terms(order[c])
    BY <1>4, <2>1 DEF OrderRow, Changes!Terms
  <2>4. Changes!SetOrder(c, new) /\ agreed' = [agreed EXCEPT ![c] = view]
    BY <1>7, <2>1 DEF Changes!ConfirmChange
  <2>5. view \in OrderRow /\ Changes!Terms(view) = Changes!Terms(order[c])
    BY <1>7 DEF OrdersInv, Changes!ConfirmChange, Changes!Latest
  <2>6. /\ agreed' \in [Order -> OrderRow] /\ agreed'[c] = view
        /\ \A d \in Order \ {c} : agreed'[d] = agreed[d]
    BY <2>4, <2>5 DEF OrdersInv
  <2> QED
    BY <2>2, <2>3, <2>4, <2>5, <2>6, OrderChanges
<1>8. ASSUME NEW c \in Order, order[c].status = "confirmed", Changes!Applied(c), agreed' = agreed
      PROVE  OrdersInv'
  <2>1. PICK new : new = [order[c] EXCEPT !.status = "applied"]
    OBVIOUS
  <2>2. new \in OrderRow /\ new.version = order[c].version /\ new.status = "applied"
    BY <1>4, <2>1 DEF OrderRow
  <2>3. Changes!Terms(new) = Changes!Terms(order[c])
    BY <1>4, <2>1 DEF OrderRow, Changes!Terms
  <2>4. Changes!SetOrder(c, new)
    BY <1>8, <2>1 DEF Changes!Applied
  <2>5. Changes!Terms(agreed'[c]) = Changes!Terms(new)
    BY <1>8, <2>3 DEF OrdersInv, Changes!ConfirmedAsSeen
  <2> QED
    BY <1>8, <2>2, <2>3, <2>4, <2>5, OrderChanges DEF OrdersInv
<1>9. CASE Changes!Orders
  <2>1. ASSUME NEW c \in Order, NEW view \in shown[c],
               Changes!ApplyScope(c, view) \/ Changes!ApplyReschedule(c, view)
        PROVE  OrdersInv'
    BY <1>8, <2>1 DEF Changes!ApplyScope, Changes!ApplyReschedule, Changes!Applicable
  <2> QED
    BY <1>5, <1>6, <1>7, <1>9, <2>1 DEF Changes!Orders
<1> QED
  BY <1>2, <1>3, <1>9 DEF Changes!Next

LEMMA OrdersInvHolds == Changes!Spec => []OrdersInv
<1>1. Changes!Init => OrdersInv
  <2> SUFFICES ASSUME Changes!Init PROVE OrdersInv
    OBVIOUS
  <2>1. Changes!NoOrder \in OrderRow /\ Changes!NoOrder.status = "none"
    BY DEF Changes!NoOrder, OrderRow
  <2>2. \A c \in Order : order[c] = Changes!NoOrder /\ shown[c] = {}
    BY DEF Changes!Init
  <2>3. /\ order \in [Order -> OrderRow] /\ shown \in [Order -> SUBSET OrderRow]
        /\ agreed \in [Order -> OrderRow]
    BY <2>1 DEF Changes!Init
  <2> QED
    BY <2>1, <2>2, <2>3 DEF OrdersInv, Changes!ConfirmedAsSeen
<1> QED
  BY <1>1, OrdersStep, PTL DEF Changes!Spec

-----------------------------------------------------------------------------
\* A step that changes no scope: what exists stays, with its scope, and a new batch is
\* created with the scope it has.
LEMMA ScopeKept ==
  ASSUME ScopeInv, ScopeTypes',
         \A b \in Scoped : scoped'[b].status = "none" => scoped'[b] = Changes!NoBatch,
         \A b \in Changes!Existing :
           /\ scoped'[b].status # "none" /\ created'[b] = created[b]
           /\ scoped'[b].scope = scoped[b].scope /\ scoped'[b].baseline = scoped[b].baseline
           /\ scoped[b].published => scoped'[b].published
           /\ scoped'[b].published => \E i \in Import : imports[i].batch = b,
         \A b \in Scoped \ Changes!Existing : scoped'[b].status # "none" =>
           /\ scoped'[b].scope = created'[b] /\ ~scoped'[b].published
           /\ scoped'[b].baseline # None =>
                /\ scoped'[b].baseline \in Changes!Existing
                /\ scoped[scoped'[b].baseline].published
                /\ created'[b] = scoped[scoped'[b].baseline].scope,
         \A c \in Order : /\ order'[c].status # "none" => order'[c].batch \in Changes!Existing
                          /\ \A b \in Scoped : Extends(c, b)' <=> Extends(c, b)
                          /\ \A b \in Scoped : Extends(c, b) => order'[c].assets = order[c].assets,
         \A i \in Import :
           /\ imports'[i] # Changes!NoImport =>
                /\ imports'[i].batch \in Changes!Existing
                /\ imports'[i].scope = scoped[imports'[i].batch].scope
           /\ imports[i].batch \in Scoped => imports'[i].batch = imports[i].batch,
         \A r \in Request : request'[r].status # "none" =>
           request'[r].batch \in Changes!Existing /\ scoped[request'[r].batch].published
  PROVE  ScopeInv'
<1>1. Changes!Existing = {b \in Scoped : scoped[b].status # "none"}
  BY DEF Changes!Existing
<1>2. Changes!Existing' = {b \in Scoped : scoped'[b].status # "none"}
  BY DEF Changes!Existing
<1>3. Changes!Existing \subseteq Changes!Existing'
  BY <1>1, <1>2
<1>4. \A b \in Changes!Existing : \A x \in Asset : Covered(b, x)
  BY DEF ScopeInv
<1>5. ASSUME NEW b \in Changes!Existing', NEW x \in Asset PROVE Covered(b, x)'
  <2>1. CASE b \in Changes!Existing
    <3>1. /\ scoped'[b].scope = scoped[b].scope /\ created'[b] = created[b] /\ b \in Scoped
      BY <1>1, <2>1
    <3>2. (\E c \in Order : Extends(c, b)' /\ x \in order'[c].assets)
            <=> (\E c \in Order : Extends(c, b) /\ x \in order[c].assets)
      BY <3>1
    <3> QED
      BY <1>4, <2>1, <3>1, <3>2 DEF Covered
  <2>2. CASE b \notin Changes!Existing
    <3>1. scoped'[b].scope = created'[b] /\ b \in Scoped
      BY <1>2, <2>2
    <3>2. ASSUME NEW c \in Order PROVE ~Extends(c, b)'
      BY <2>2, <3>1 DEF ScopeInv, Extends
    <3> QED
      BY <3>1, <3>2 DEF Covered
  <2> QED
    BY <2>1, <2>2
<1>6. \A i \in Import : imports'[i] # Changes!NoImport =>
        imports'[i].batch \in Changes!Existing' /\ imports'[i].scope = scoped'[imports'[i].batch].scope
  BY <1>3
<1>7. \A b \in Scoped : scoped'[b].published => \E i \in Import : imports'[i].batch = b
  <2> SUFFICES ASSUME NEW b \in Scoped, scoped'[b].published
               PROVE  \E i \in Import : imports'[i].batch = b
    OBVIOUS
  <2>1. b \in Changes!Existing
    BY <1>1 DEF Changes!NoBatch
  <2> QED
    BY <2>1
<1>8. \A r \in Request : request'[r].status # "none" =>
        request'[r].batch \in Scoped /\ scoped'[request'[r].batch].published
  BY <1>1
<1>9. ASSUME NEW b \in Changes!Existing', scoped'[b].baseline # None
      PROVE  /\ scoped'[b].baseline \in Scoped /\ scoped'[scoped'[b].baseline].published
             /\ created'[b] = scoped'[scoped'[b].baseline].scope
  <2>1. PICK o : o = scoped'[b].baseline
    OBVIOUS
  <2>2. o \in Changes!Existing /\ scoped[o].published /\ created'[b] = scoped[o].scope
    <3>1. CASE b \in Changes!Existing
      <4>1. scoped[b].baseline = o /\ created'[b] = created[b]
        BY <2>1, <3>1
      <4>2. o \in Scoped /\ scoped[o].published /\ created[b] = scoped[o].scope
        BY <1>9, <2>1, <3>1, <4>1 DEF ScopeInv
      <4>3. scoped[o].status # "none"
        BY <4>2 DEF ScopeInv, Changes!NoBatch
      <4> QED
        BY <1>1, <4>1, <4>2, <4>3
    <3>2. CASE b \notin Changes!Existing
      BY <1>2, <1>9, <2>1, <3>2
    <3> QED
      BY <3>1, <3>2
  <2> QED
    BY <1>1, <2>1, <2>2
<1>10. \A c \in Order : order'[c].status # "none" => order'[c].batch \in Changes!Existing'
  BY <1>3
<1> QED
  BY <1>5, <1>6, <1>7, <1>8, <1>9, <1>10 DEF ScopeInv

\* A batch that exists is given another row with the same scope; an import may change its
\* status, an order that adds nothing may change too.
LEMMA BatchChanges ==
  ASSUME ScopeInv, NEW b \in Changes!Existing, NEW new, scoped' = [scoped EXCEPT ![b] = new],
         new \in [status : {"preparing", "confirmed", "awaiting_review", "approved", "delivered",
                            "cancelled"},
                  scope : SUBSET Asset, assigned : BOOLEAN, published : BOOLEAN,
                  baseline : Scoped \cup {None}],
         new.scope = scoped[b].scope, new.baseline = scoped[b].baseline,
         scoped[b].published => new.published,
         new.published => \E i \in Import : imports[i].batch = b,
         imports' \in [Import -> [status : {"none", "preview", "invalid", "committed"},
                                  batch : Scoped \cup {None}, scope : SUBSET Asset]],
         \A i \in Import : \/ imports'[i] = imports[i]
                           \/ /\ imports[i] # Changes!NoImport
                              /\ imports'[i].batch = imports[i].batch
                              /\ imports'[i].scope = imports[i].scope,
         \A c \in Order : \/ order'[c] = order[c]
                          \/ /\ order[c].status # "none" /\ order'[c].batch = order[c].batch
                             /\ order[c].kind # "scope" /\ order'[c].kind # "scope",
         UNCHANGED <<created, request>>
  PROVE  ScopeInv'
<1>1. b \in Scoped /\ scoped[b].status # "none"
  BY DEF Changes!Existing
<1>2. /\ scoped'[b] = new /\ new.status # "none"
      /\ \A z \in Scoped \ {b} : scoped'[z] = scoped[z]
  BY <1>1 DEF ScopeInv, ScopeTypes
<1>3. ScopeTypes'
  BY DEF ScopeInv, ScopeTypes
<1>4. \A z \in Scoped : scoped'[z].status = "none" => scoped'[z] = Changes!NoBatch
  BY <1>2 DEF ScopeInv
<1>5. \A z \in Changes!Existing :
           /\ scoped'[z].status # "none" /\ created'[z] = created[z]
           /\ scoped'[z].scope = scoped[z].scope /\ scoped'[z].baseline = scoped[z].baseline
           /\ scoped[z].published => scoped'[z].published
           /\ scoped'[z].published => \E i \in Import : imports[i].batch = z
  BY <1>2 DEF ScopeInv, Changes!Existing
<1>6. \A z \in Scoped \ Changes!Existing : scoped'[z].status = "none"
  BY <1>2 DEF Changes!Existing
<1>7. ASSUME NEW c \in Order
      PROVE  /\ order'[c].status # "none" => order'[c].batch \in Changes!Existing
             /\ \A z \in Scoped : Extends(c, z)' <=> Extends(c, z)
             /\ \A z \in Scoped : Extends(c, z) => order'[c].assets = order[c].assets
  BY DEF ScopeInv, Extends
<1>8. ASSUME NEW i \in Import
      PROVE  /\ imports'[i] # Changes!NoImport =>
                  /\ imports'[i].batch \in Changes!Existing
                  /\ imports'[i].scope = scoped[imports'[i].batch].scope
             /\ imports[i].batch \in Scoped => imports'[i].batch = imports[i].batch
  BY DEF ScopeInv
<1>9. ASSUME NEW r \in Request, request'[r].status # "none"
      PROVE  request'[r].batch \in Changes!Existing /\ scoped[request'[r].batch].published
  BY <1>9 DEF ScopeInv, Changes!Existing, Changes!NoBatch
<1> QED
  BY <1>3, <1>4, <1>5, <1>6, <1>7, <1>8, <1>9, ScopeKept

\* An applied order adds its assets to a batch nothing was imported for yet: no import and
\* no retest refers to the scope that grows.
LEMMA ScopeGrows ==
  ASSUME ScopeInv, OrdersInv, NEW c \in Order, NEW view \in shown[c], Changes!ApplyScope(c, view)
  PROVE  ScopeInv'
<1> DEFINE b == order[c].batch
<1> DEFINE old == scoped[b]
<1> DEFINE more == order[c].assets
<1>1. /\ order[c].status = "confirmed" /\ order[c].kind = "scope" /\ order[c] \in OrderRow
      /\ UNCHANGED <<imports, request, created>>
  BY DEF Changes!ApplyScope, Changes!Applicable, OrdersInv
<1>2. b \in Changes!Existing /\ b \in Scoped /\ old.status # "none" /\ more \subseteq Asset
  BY <1>1 DEF ScopeInv, Changes!Existing, OrderRow
<1>3. \A i \in Import : imports[i].batch # b
  BY DEF Changes!ApplyScope, Changes!Applicable, Changes!NotExecuted, Changes!Imports
<1>4. ~old.published /\ ~scoped[b].published
  BY <1>2, <1>3 DEF ScopeInv
<1>5. PICK new : new = [old EXCEPT !.scope = old.scope \cup more]
  OBVIOUS
<1>6. scoped' = [scoped EXCEPT ![b] = new]
  BY <1>5 DEF Changes!ApplyScope
<1>7. old \in [status : {"none", "preparing", "confirmed", "awaiting_review", "approved",
                         "delivered", "cancelled"},
               scope : SUBSET Asset, assigned : BOOLEAN, published : BOOLEAN,
               baseline : Scoped \cup {None}]
  BY <1>2 DEF ScopeInv, ScopeTypes
<1>8. PICK applied : applied = [order[c] EXCEPT !.status = "applied"]
  OBVIOUS
<1>9. order' = [order EXCEPT ![c] = applied]
  BY <1>8 DEF Changes!ApplyScope, Changes!Applied, Changes!SetOrder
<1>10. /\ applied.status = "applied" /\ applied.kind = "scope" /\ applied.batch = b /\ applied.assets = more
       /\ order'[c] = applied /\ \A d \in Order \ {c} : order'[d] = order[d]
  BY <1>1, <1>8, <1>9 DEF OrdersInv, OrderRow
<1> HIDE DEF old, b, more
<1>11. /\ new.scope = old.scope \cup more /\ new.status = old.status /\ ~new.published
       /\ new.baseline = old.baseline
  BY <1>4, <1>5, <1>7
<1>12. new \in [status : {"none", "preparing", "confirmed", "awaiting_review", "approved",
                          "delivered", "cancelled"},
                scope : SUBSET Asset, assigned : BOOLEAN, published : BOOLEAN,
                baseline : Scoped \cup {None}]
  BY <1>2, <1>5, <1>7
<1>13. ScopeTypes' /\ scoped'[b] = new /\ \A z \in Scoped \ {b} : scoped'[z] = scoped[z]
  BY <1>1, <1>2, <1>6, <1>12 DEF ScopeInv, ScopeTypes
<1>14. scoped[b] = old /\ new.status # "none"
  BY <1>2, <1>11 DEF old
<1>15. /\ \A z \in Scoped : scoped'[z].status = scoped[z].status
       /\ \A z \in Scoped : scoped'[z].published = scoped[z].published
       /\ \A z \in Scoped : scoped'[z].baseline = scoped[z].baseline
       /\ \A z \in Scoped : scoped[z].published => z # b
  <2>1. scoped[b].published = FALSE /\ new.published = FALSE
    BY <1>4, <1>7, <1>11, <1>12, <1>14
  <2> QED
    BY <1>11, <1>13, <1>14, <2>1
<1>16. Changes!Existing' = Changes!Existing
  BY <1>15 DEF Changes!Existing
<1>17. ASSUME NEW z \in Changes!Existing, NEW x \in Asset PROVE Covered(z, x)'
  <2>1. Covered(z, x) /\ z \in Scoped
    BY DEF ScopeInv, Changes!Existing
  <2>2. \A d \in Order \ {c} : Extends(d, z)' <=> Extends(d, z)
    BY <1>10 DEF Extends
  <2>3. ~Extends(c, z) /\ (Extends(c, z)' <=> z = b)
    BY <1>1, <1>10 DEF Extends
  <2>4. (\E d \in Order : Extends(d, z)' /\ x \in order'[d].assets)
           <=> \/ \E d \in Order : Extends(d, z) /\ x \in order[d].assets
               \/ z = b /\ x \in more
    BY <1>10, <2>2, <2>3
  <2>5. x \in scoped'[z].scope <=> x \in scoped[z].scope \/ (z = b /\ x \in more)
    BY <1>11, <1>13, <1>14, <2>1
  <2> QED
    BY <1>1, <2>1, <2>4, <2>5 DEF Covered
<1>18. \A d \in Order : order'[d].status # "none" => order'[d].batch \in Changes!Existing
  BY <1>2, <1>10 DEF ScopeInv
<1>19. \A z \in Scoped : scoped'[z].status = "none" => scoped'[z] = Changes!NoBatch
  BY <1>13, <1>14, <1>15 DEF ScopeInv
<1>20. \A i \in Import : imports'[i] # Changes!NoImport =>
         imports'[i].batch \in Changes!Existing /\ imports'[i].scope = scoped'[imports'[i].batch].scope
  BY <1>1, <1>3, <1>13 DEF ScopeInv, Changes!Existing
<1>21. \A z \in Changes!Existing : scoped'[z].baseline # None =>
         /\ scoped'[z].baseline \in Scoped /\ scoped'[scoped'[z].baseline].published
         /\ created'[z] = scoped'[scoped'[z].baseline].scope
  <2> SUFFICES ASSUME NEW z \in Changes!Existing, scoped'[z].baseline # None
               PROVE  /\ scoped'[z].baseline \in Scoped /\ scoped'[scoped'[z].baseline].published
                      /\ created'[z] = scoped'[scoped'[z].baseline].scope
    OBVIOUS
  <2>1. PICK o : o = scoped[z].baseline
    OBVIOUS
  <2>2. scoped'[z].baseline = o /\ o # None
    BY <1>15, <2>1 DEF Changes!Existing
  <2>3. o \in Scoped /\ scoped[o].published /\ created[z] = scoped[o].scope
    BY <2>1, <2>2 DEF ScopeInv
  <2>4. o # b
    BY <1>15, <2>3
  <2> QED
    BY <1>1, <1>13, <2>2, <2>3, <2>4
<1>22. \A z \in Scoped : scoped'[z].published => \E i \in Import : imports'[i].batch = z
  BY <1>1, <1>15 DEF ScopeInv
<1>23. \A r \in Request : request'[r].status # "none" =>
         request'[r].batch \in Scoped /\ scoped'[request'[r].batch].published
  BY <1>1, <1>15 DEF ScopeInv
<1> QED
  BY <1>13, <1>16, <1>17, <1>18, <1>19, <1>20, <1>21, <1>22, <1>23 DEF ScopeInv

\* A batch that is created, new or as a retest, has the scope it is created with.
LEMMA BatchIsAdded ==
  ASSUME ScopeInv, NEW b \in Scoped \ Changes!Existing, NEW new, scoped' = [scoped EXCEPT ![b] = new],
         new \in [status : {"preparing"}, scope : SUBSET Asset, assigned : BOOLEAN,
                  published : {FALSE}, baseline : Scoped \cup {None}],
         new.baseline # None =>
           /\ new.baseline \in Changes!Existing /\ scoped[new.baseline].published
           /\ new.scope = scoped[new.baseline].scope,
         created' = [created EXCEPT ![b] = new.scope],
         request' \in [Request -> [status : {"none", "requested", "approved"},
                                   batch : Scoped \cup {None}]],
         \A r \in Request : request'[r].status # "none" =>
           request'[r].batch = request[r].batch /\ request[r].status # "none",
         UNCHANGED <<order, imports>>
  PROVE  ScopeInv'
<1>1. /\ scoped'[b] = new /\ created'[b] = new.scope /\ new.status = "preparing" /\ ~new.published
      /\ \A z \in Scoped \ {b} : scoped'[z] = scoped[z] /\ created'[z] = created[z]
      /\ \A z \in Scoped : z \in Changes!Existing <=> scoped[z].status # "none"
  <2>1. new.status = "preparing" /\ new.published = FALSE
    OBVIOUS
  <2>2. scoped'[b] = new /\ \A z \in Scoped \ {b} : scoped'[z] = scoped[z]
    BY DEF ScopeInv, ScopeTypes
  <2>3. created'[b] = new.scope /\ \A z \in Scoped \ {b} : created'[z] = created[z]
    BY DEF ScopeInv, ScopeTypes
  <2> QED
    BY <2>1, <2>2, <2>3 DEF Changes!Existing
<1>2. ScopeTypes'
  BY DEF ScopeInv, ScopeTypes
<1>3. \A z \in Scoped : scoped'[z].status = "none" => scoped'[z] = Changes!NoBatch
  BY <1>1 DEF ScopeInv
<1>4. \A z \in Changes!Existing :
           /\ scoped'[z].status # "none" /\ created'[z] = created[z]
           /\ scoped'[z].scope = scoped[z].scope /\ scoped'[z].baseline = scoped[z].baseline
           /\ scoped[z].published => scoped'[z].published
           /\ scoped'[z].published => \E i \in Import : imports[i].batch = z
  BY <1>1 DEF ScopeInv, Changes!Existing
<1>5. \A z \in Scoped \ Changes!Existing : scoped'[z].status # "none" =>
           /\ scoped'[z].scope = created'[z] /\ ~scoped'[z].published
           /\ scoped'[z].baseline # None =>
                /\ scoped'[z].baseline \in Changes!Existing
                /\ scoped[scoped'[z].baseline].published
                /\ created'[z] = scoped[scoped'[z].baseline].scope
  BY <1>1
<1>6. \A c \in Order : /\ order'[c].status # "none" => order'[c].batch \in Changes!Existing
                       /\ \A z \in Scoped : Extends(c, z)' <=> Extends(c, z)
                       /\ \A z \in Scoped : Extends(c, z) => order'[c].assets = order[c].assets
  BY DEF ScopeInv, Extends
<1>7. \A i \in Import :
           /\ imports'[i] # Changes!NoImport =>
                /\ imports'[i].batch \in Changes!Existing
                /\ imports'[i].scope = scoped[imports'[i].batch].scope
           /\ imports[i].batch \in Scoped => imports'[i].batch = imports[i].batch
  BY DEF ScopeInv
<1>8. ASSUME NEW r \in Request, request'[r].status # "none"
      PROVE  request'[r].batch \in Changes!Existing /\ scoped[request'[r].batch].published
  BY <1>8 DEF ScopeInv, Changes!Existing, Changes!NoBatch
<1> QED
  BY <1>2, <1>3, <1>4, <1>5, <1>6, <1>7, <1>8, ScopeKept

LEMMA ScopeStep == OrdersInv /\ ScopeInv /\ [Changes!Next]_(Changes!vars) => ScopeInv'
<1> SUFFICES ASSUME OrdersInv, ScopeInv, [Changes!Next]_(Changes!vars) PROVE ScopeInv'
  OBVIOUS
<1> USE ChangeConstants
<1> DEFINE Rows == [status : {"preparing", "confirmed", "awaiting_review", "approved", "delivered",
                              "cancelled"},
                    scope : SUBSET Asset, assigned : BOOLEAN, published : BOOLEAN,
                    baseline : Scoped \cup {None}]
<1> DEFINE Uploads == [status : {"none", "preview", "invalid", "committed"},
                       batch : Scoped \cup {None}, scope : SUBSET Asset]
<1>1. CASE UNCHANGED Changes!vars
  BY <1>1 DEF ScopeInv, ScopeTypes, Covered, Extends, Changes!Existing, Changes!vars
<1>2. ASSUME NEW b \in Changes!Existing
      PROVE  /\ scoped[b] \in Rows /\ b \in Scoped
             /\ scoped[b].published => \E i \in Import : imports[i].batch = b
  BY DEF ScopeInv, ScopeTypes, Changes!Existing
<1>3. imports \in [Import -> Uploads] /\ created \in [Scoped -> SUBSET Asset]
  BY DEF ScopeInv, ScopeTypes
\* Only the status of a batch changes.
<1>4. ASSUME NEW b \in Changes!Existing, NEW status \in {"preparing", "confirmed", "awaiting_review",
                                                         "approved", "delivered", "cancelled"},
             Changes!Status(b, status), UNCHANGED <<order, imports, created, request>>
      PROVE  ScopeInv'
  <2>1. PICK new : new = [scoped[b] EXCEPT !.status = status]
    OBVIOUS
  <2>2. /\ new \in Rows /\ new.scope = scoped[b].scope /\ new.baseline = scoped[b].baseline
        /\ new.published = scoped[b].published
    BY <1>2, <2>1
  <2>3. scoped' = [scoped EXCEPT ![b] = new]
    BY <1>4, <2>1 DEF Changes!Status
  <2> QED
    BY <1>2, <1>3, <1>4, <2>2, <2>3, BatchChanges
<1>5. ASSUME NEW b \in Changes!Existing, Changes!Scheduled(b), UNCHANGED <<imports, created, request>>,
             \A c \in Order : \/ order'[c] = order[c]
                              \/ /\ order[c].status # "none" /\ order'[c].batch = order[c].batch
                                 /\ order[c].kind # "scope" /\ order'[c].kind # "scope"
      PROVE  ScopeInv'
  <2>1. PICK new : new = [[scoped[b] EXCEPT !.status = "confirmed"] EXCEPT !.assigned = TRUE]
    OBVIOUS
  <2>2. /\ new \in Rows /\ new.scope = scoped[b].scope /\ new.baseline = scoped[b].baseline
        /\ new.published = scoped[b].published
    BY <1>2, <2>1
  <2>3. scoped' = [scoped EXCEPT ![b] = new]
    <3>1. scoped' = [scoped EXCEPT ![b].status = "confirmed", ![b].assigned = TRUE]
      BY <1>5 DEF Changes!Scheduled
    <3>2. b \in Scoped /\ scoped = [z \in Scoped |-> scoped[z]] /\ scoped[b] \in Rows
      BY <1>2 DEF ScopeInv, ScopeTypes
    <3> QED
      BY <2>1, <3>1, <3>2
  <2> QED
    BY <1>2, <1>3, <1>5, <2>2, <2>3, BatchChanges
<1>6. ASSUME NEW b \in Scoped, NEW assets \in SUBSET Asset, Changes!CreateBatch(b, assets)
      PROVE  ScopeInv'
  <2>1. PICK new : new = [[Changes!NoBatch EXCEPT !.status = "preparing"] EXCEPT !.scope = assets]
    OBVIOUS
  <2>2. /\ new \in [status : {"preparing"}, scope : SUBSET Asset, assigned : BOOLEAN,
                    published : {FALSE}, baseline : Scoped \cup {None}]
        /\ new.baseline = None /\ new.scope = assets
    BY <2>1 DEF Changes!NoBatch
  <2>3. /\ b \notin Changes!Existing /\ scoped' = [scoped EXCEPT ![b] = new]
        /\ created' = [created EXCEPT ![b] = assets] /\ UNCHANGED <<order, imports, request>>
    BY <1>6, <2>1 DEF Changes!CreateBatch
  <2> QED
    BY <2>2, <2>3, BatchIsAdded DEF ScopeInv, ScopeTypes
<1>7. ASSUME NEW b \in Scoped, NEW r \in Request, Changes!ApproveRetest(r, b)
      PROVE  ScopeInv'
  <2> DEFINE o == request[r].batch
  <2>1. /\ request[r].status = "requested" /\ b \notin Changes!Existing
        /\ request' = [request EXCEPT ![r].status = "approved"]
        /\ created' = [created EXCEPT ![b] = scoped[o].scope]
        /\ UNCHANGED <<order, imports>>
    BY <1>7 DEF Changes!ApproveRetest
  <2>2. o \in Scoped /\ scoped[o].published
    BY <2>1 DEF ScopeInv
  <2>3. o \in Changes!Existing
    BY <2>2 DEF ScopeInv, Changes!Existing, Changes!NoBatch
  <2>4. PICK new : new = [Changes!NoBatch EXCEPT !.status = "preparing", !.scope = scoped[o].scope,
                            !.assigned = scoped[o].assigned, !.baseline = o]
    OBVIOUS
  <2>5. scoped' = [scoped EXCEPT ![b] = new]
    BY <1>7, <2>4 DEF Changes!ApproveRetest
  <2> HIDE DEF o
  <2>6. scoped[o] \in Rows
    BY <1>2, <2>3
  <2>7. /\ new \in [status : {"preparing"}, scope : SUBSET Asset, assigned : BOOLEAN,
                    published : {FALSE}, baseline : Scoped \cup {None}]
        /\ new.baseline = o /\ new.scope = scoped[o].scope
    BY <2>2, <2>4, <2>6 DEF Changes!NoBatch
  <2>8. /\ request' \in [Request -> [status : {"none", "requested", "approved"},
                                     batch : Scoped \cup {None}]]
        /\ \A s \in Request : request'[s].status # "none" =>
             request'[s].batch = request[s].batch /\ request[s].status # "none"
    BY <2>1 DEF ScopeInv, ScopeTypes
  <2> QED
    BY <2>1, <2>2, <2>3, <2>5, <2>7, <2>8, BatchIsAdded
<1>8. ASSUME NEW b \in Scoped, scoped[b].status # "none" PROVE b \in Changes!Existing
  BY <1>8 DEF Changes!Existing
<1>9. ASSUME NEW b \in Scoped, Changes!Committed(b) # {} PROVE \E i \in Import : imports[i].batch = b
  BY <1>9 DEF Changes!Committed, Changes!Imports
<1>10. ASSUME NEW b \in Scoped, Changes!ScheduleBatch(b) PROVE ScopeInv'
  BY <1>5, <1>10 DEF Changes!ScheduleBatch
<1>11. ASSUME NEW b \in Scoped,
              \/ Changes!ReviewBatch(b) \/ Changes!SubmitReview(b) \/ Changes!ReopenBatch(b)
              \/ Changes!CancelBatch(b)
       PROVE  ScopeInv'
  <2>1. PICK status \in {"preparing", "awaiting_review", "approved", "cancelled"} :
          Changes!Status(b, status)
    BY <1>11 DEF Changes!ReviewBatch, Changes!SubmitReview, Changes!ReopenBatch, Changes!CancelBatch
  <2>2. b \in Changes!Existing /\ UNCHANGED <<order, imports, created, request>>
    BY <1>8, <1>11 DEF Changes!ReviewBatch, Changes!SubmitReview, Changes!ReopenBatch,
      Changes!CancelBatch
  <2> QED
    BY <1>4, <2>1, <2>2
<1>12. ASSUME NEW b \in Scoped, Changes!Publish(b) PROVE ScopeInv'
  <2>1. /\ b \in Changes!Existing /\ UNCHANGED <<order, imports, created, request>>
        /\ \E i \in Import : imports[i].batch = b
    BY <1>8, <1>9, <1>12 DEF Changes!Publish
  <2>2. PICK new : new = [[scoped[b] EXCEPT !.status = "delivered"] EXCEPT !.published = TRUE]
    OBVIOUS
  <2>3. /\ new \in Rows /\ new.scope = scoped[b].scope /\ new.baseline = scoped[b].baseline
        /\ new.published = TRUE
    BY <1>2, <2>1, <2>2, ZenonT(40)
  <2>4. scoped' = [scoped EXCEPT ![b] = new]
    <3>1. scoped' = [scoped EXCEPT ![b].status = "delivered", ![b].published = TRUE]
      BY <1>12 DEF Changes!Publish
    <3>2. scoped = [z \in Scoped |-> scoped[z]] /\ scoped[b] \in Rows
      BY <1>2, <2>1 DEF ScopeInv, ScopeTypes
    <3> QED
      BY <2>2, <3>1, <3>2
  <2> QED
    BY <1>2, <1>3, <2>1, <2>3, <2>4, BatchChanges
<1>13. ASSUME NEW b \in Scoped, NEW i \in Import, NEW status \in {"preview", "invalid"},
              Changes!PreviewImport(i, b, status)
       PROVE  ScopeInv'
  <2>1. scoped[b].assigned /\ UNCHANGED <<scoped, order, created, request>> /\ imports[i] = Changes!NoImport
    BY <1>13 DEF Changes!PreviewImport
  <2>2. b \in Changes!Existing
    BY <2>1 DEF ScopeInv, Changes!Existing, Changes!NoBatch
  <2>3. PICK new : new = [status |-> status, batch |-> b, scope |-> scoped[b].scope]
    OBVIOUS
  <2>4. new \in Uploads /\ new.batch = b /\ new.scope = scoped[b].scope
    BY <1>2, <2>2, <2>3
  <2>5. imports' = [imports EXCEPT ![i] = new]
    BY <1>13, <2>3 DEF Changes!PreviewImport
  <2>6. /\ imports' \in [Import -> Uploads] /\ imports'[i] = new
        /\ \A j \in Import \ {i} : imports'[j] = imports[j]
    BY <1>3, <2>4, <2>5
  <2>7. imports[i].batch = None
    BY <2>1 DEF Changes!NoImport
  <2>8. ScopeTypes'
    BY <2>1, <2>6 DEF ScopeInv, ScopeTypes
  <2>9. \A z \in Scoped \ Changes!Existing : scoped'[z].status = "none"
    BY <2>1 DEF Changes!Existing
  <2>10. \A z \in Changes!Existing : scoped'[z].status # "none"
    BY <2>1 DEF Changes!Existing
  <2>11. \A c \in Order : /\ order'[c].status # "none" => order'[c].batch \in Changes!Existing
                          /\ \A z \in Scoped : Extends(c, z)' <=> Extends(c, z)
                          /\ \A z \in Scoped : Extends(c, z) => order'[c].assets = order[c].assets
    BY <2>1 DEF ScopeInv, Extends
  <2>12. \A j \in Import :
           /\ imports'[j] # Changes!NoImport =>
                /\ imports'[j].batch \in Changes!Existing
                /\ imports'[j].scope = scoped[imports'[j].batch].scope
           /\ imports[j].batch \in Scoped => imports'[j].batch = imports[j].batch
    BY <2>2, <2>4, <2>6, <2>7 DEF ScopeInv
  <2>13. \A r \in Request : request'[r].status # "none" =>
           request'[r].batch \in Changes!Existing /\ scoped[request'[r].batch].published
    BY <2>1 DEF ScopeInv, Changes!Existing, Changes!NoBatch
  <2>14. \A z \in Changes!Existing :
           /\ created'[z] = created[z]
           /\ scoped'[z].scope = scoped[z].scope /\ scoped'[z].baseline = scoped[z].baseline
           /\ scoped[z].published => scoped'[z].published
           /\ scoped'[z].published => \E j \in Import : imports[j].batch = z
    BY <1>2, <2>1
  <2>15. \A z \in Scoped : scoped'[z].status = "none" => scoped'[z] = Changes!NoBatch
    BY <2>1 DEF ScopeInv
  <2> QED
    BY <2>8, <2>9, <2>10, <2>11, <2>12, <2>13, <2>14, <2>15, ScopeKept
<1>14. ASSUME NEW i \in Import, Changes!CommitImport(i) PROVE ScopeInv'
  <2> DEFINE b == imports[i].batch
  <2>1. /\ imports[i].status = "preview" /\ imports' = [imports EXCEPT ![i].status = "committed"]
        /\ Changes!Status(b, "awaiting_review") /\ UNCHANGED <<order, created, request>>
    BY <1>14 DEF Changes!CommitImport
  <2>2. imports[i] # Changes!NoImport
    BY <2>1 DEF Changes!NoImport
  <2>3. b \in Changes!Existing
    BY <2>2 DEF ScopeInv
  <2>4. PICK new : new = [scoped[b] EXCEPT !.status = "awaiting_review"]
    OBVIOUS
  <2>5. scoped' = [scoped EXCEPT ![b] = new]
    BY <2>1, <2>4 DEF Changes!Status
  <2> HIDE DEF b
  <2>6. /\ new \in Rows /\ new.scope = scoped[b].scope /\ new.baseline = scoped[b].baseline
        /\ new.published = scoped[b].published
    BY <1>2, <2>3, <2>4
  <2>7. PICK up : up = [imports[i] EXCEPT !.status = "committed"]
    OBVIOUS
  <2>8. up \in Uploads /\ up.batch = imports[i].batch /\ up.scope = imports[i].scope
    BY <1>3, <2>7
  <2>9. imports' = [imports EXCEPT ![i] = up]
    BY <2>1, <2>7
  <2>10. imports' \in [Import -> Uploads] /\ imports'[i] = up /\ \A j \in Import \ {i} : imports'[j] = imports[j]
    BY <1>3, <2>8, <2>9
  <2> QED
    BY <1>2, <2>1, <2>2, <2>3, <2>5, <2>6, <2>8, <2>10, BatchChanges, ZenonT(40)
<1>15. ASSUME UNCHANGED <<scoped, imports, created>>,
              request' \in [Request -> [status : {"none", "requested", "approved"},
                                        batch : Scoped \cup {None}]],
              \A r \in Request : request'[r].status # "none" =>
                request'[r].batch \in Scoped /\ scoped[request'[r].batch].published,
              \A c \in Order : /\ order'[c].status # "none" => order'[c].batch \in Changes!Existing
                               /\ \A b \in Scoped : Extends(c, b)' <=> Extends(c, b)
                               /\ \A b \in Scoped : Extends(c, b) => order'[c].assets = order[c].assets
       PROVE  ScopeInv'
  <2>1. Changes!Existing' = Changes!Existing /\ Changes!Existing \subseteq Scoped
    BY <1>15 DEF Changes!Existing
  <2>2. ScopeTypes'
    BY <1>15 DEF ScopeInv, ScopeTypes
  <2>3. ASSUME NEW b \in Changes!Existing, NEW x \in Asset PROVE Covered(b, x)'
    <3>1. (\E c \in Order : Extends(c, b)' /\ x \in order'[c].assets)
             <=> (\E c \in Order : Extends(c, b) /\ x \in order[c].assets)
      BY <1>15, <2>1
    <3>2. Covered(b, x)
      BY DEF ScopeInv
    <3> QED
      BY <1>15, <3>1, <3>2 DEF Covered
  <2> QED
    BY <1>15, <2>1, <2>2, <2>3 DEF ScopeInv
<1>16. ASSUME NEW b \in Scoped, NEW r \in Request, Changes!RequestRetest(r, b) PROVE ScopeInv'
  <2>1. /\ UNCHANGED <<scoped, imports, created, order>> /\ scoped[b].published
        /\ request' = [request EXCEPT ![r] = [status |-> "requested", batch |-> b]]
    BY <1>16 DEF Changes!RequestRetest
  <2>2. request' \in [Request -> [status : {"none", "requested", "approved"}, batch : Scoped \cup {None}]]
    BY <2>1 DEF ScopeInv, ScopeTypes
  <2>3. \A s \in Request : request'[s].status # "none" =>
          request'[s].batch \in Scoped /\ scoped[request'[s].batch].published
    BY <2>1 DEF ScopeInv, ScopeTypes
  <2> QED
    BY <1>15, <2>1, <2>2, <2>3 DEF ScopeInv, Extends
\* An order that is not applied with its new row, and was not with its old one.
<1>17. ASSUME NEW c \in Order, NEW new, Changes!SetOrder(c, new), UNCHANGED <<scoped, imports, created, request>>,
              order[c].status # "applied", new.status # "applied", new.batch \in Changes!Existing
       PROVE  ScopeInv'
  <2>1. order'[c] = new /\ \A d \in Order \ {c} : order'[d] = order[d]
    BY <1>17 DEF OrdersInv, Changes!SetOrder
  <2>2. /\ request' \in [Request -> [status : {"none", "requested", "approved"}, batch : Scoped \cup {None}]]
        /\ \A r \in Request : request'[r].status # "none" =>
             request'[r].batch \in Scoped /\ scoped[request'[r].batch].published
    BY <1>17 DEF ScopeInv, ScopeTypes
  <2>3. \A d \in Order : order[d].status # "none" => order[d].batch \in Changes!Existing
    BY DEF ScopeInv
  <2>4. \A d \in Order : /\ order'[d].status # "none" => order'[d].batch \in Changes!Existing
                         /\ \A b \in Scoped : Extends(d, b)' <=> Extends(d, b)
                         /\ \A b \in Scoped : Extends(d, b) => order'[d].assets = order[d].assets
    BY <1>17, <2>1, <2>3 DEF Extends
  <2> QED
    BY <1>15, <1>17, <2>2, <2>4
<1>18. ASSUME NEW c \in Order, order[c].status # "none"
       PROVE  order[c].batch \in Changes!Existing /\ order[c] \in OrderRow
  BY <1>18 DEF ScopeInv, OrdersInv
<1>19. ASSUME NEW c \in Order, NEW b \in Scoped, NEW kind, NEW assets,
              Changes!RequestChange(c, b, kind, assets)
       PROVE  ScopeInv'
  BY <1>17, <1>19 DEF Changes!RequestChange
<1>20. ASSUME NEW c \in Order, NEW view, NEW amount, Changes!OfferChange(c, view, amount)
       PROVE  ScopeInv'
  <2>1. PICK new : new = [order[c] EXCEPT !.status = "offered", !.amount = amount,
                                          !.version = order[c].version + 1]
    OBVIOUS
  <2>2. /\ Changes!SetOrder(c, new) /\ order[c].status \in {"requested", "offered"}
        /\ UNCHANGED <<scoped, imports, request, created>>
    BY <1>20, <2>1 DEF Changes!OfferChange
  <2>3. order[c].batch \in Changes!Existing /\ order[c] \in OrderRow
    BY <1>18, <2>2
  <2>4. new.status = "offered" /\ new.batch = order[c].batch
    BY <2>1, <2>3 DEF OrderRow
  <2> QED
    BY <1>17, <2>2, <2>3, <2>4
<1>21. ASSUME NEW c \in Order, NEW view, Changes!ConfirmChange(c, view) PROVE ScopeInv'
  <2>1. PICK new : new = [order[c] EXCEPT !.status = "confirmed"]
    OBVIOUS
  <2>2. /\ Changes!SetOrder(c, new) /\ order[c].status = "offered"
        /\ UNCHANGED <<scoped, imports, request, created>>
    BY <1>21, <2>1 DEF Changes!ConfirmChange
  <2>3. order[c].batch \in Changes!Existing /\ order[c] \in OrderRow
    BY <1>18, <2>2
  <2>4. new.status = "confirmed" /\ new.batch = order[c].batch
    BY <2>1, <2>3 DEF OrderRow
  <2> QED
    BY <1>17, <2>2, <2>3, <2>4
<1>22. ASSUME NEW c \in Order, NEW view, Changes!ApplyReschedule(c, view) PROVE ScopeInv'
  <2>1. PICK new : new = [order[c] EXCEPT !.status = "applied"]
    OBVIOUS
  <2>2. /\ Changes!SetOrder(c, new) /\ order[c].status = "confirmed" /\ order[c].kind = "reschedule"
        /\ Changes!Scheduled(order[c].batch) /\ UNCHANGED <<imports, request, created>>
    BY <1>22, <2>1 DEF Changes!ApplyReschedule, Changes!Applicable, Changes!Applied
  <2>3. order[c].batch \in Changes!Existing /\ order[c] \in OrderRow
    BY <1>18, <2>2
  <2>4. new.kind = "reschedule" /\ new.batch = order[c].batch
    BY <2>1, <2>2, <2>3 DEF OrderRow
  <2>5. order'[c] = new /\ \A d \in Order \ {c} : order'[d] = order[d]
    BY <2>2 DEF OrdersInv, Changes!SetOrder
  <2> QED
    BY <1>5, <2>2, <2>3, <2>4, <2>5
<1>23. CASE Changes!Batches
  BY <1>6, <1>7, <1>10, <1>11, <1>12, <1>13, <1>16, <1>23 DEF Changes!Batches
<1>24. CASE Changes!Orders
  BY <1>19, <1>20, <1>21, <1>22, <1>24, ScopeGrows DEF Changes!Orders
<1> QED
  BY <1>1, <1>14, <1>23, <1>24 DEF Changes!Next

LEMMA ScopeInvHolds == Changes!Spec => []ScopeInv
<1>1. Changes!Init => ScopeInv
  <2> SUFFICES ASSUME Changes!Init PROVE ScopeInv
    OBVIOUS
  <2> USE ChangeConstants
  <2>1. /\ Changes!NoBatch.status = "none" /\ Changes!NoBatch.published = FALSE
        /\ Changes!NoOrder.status = "none" /\ Changes!NoRequest.status = "none"
    BY DEF Changes!NoBatch, Changes!NoOrder, Changes!NoRequest
  <2>2. /\ \A b \in Scoped : scoped[b] = Changes!NoBatch
        /\ \A c \in Order : order[c] = Changes!NoOrder
        /\ \A i \in Import : imports[i] = Changes!NoImport
        /\ \A r \in Request : request[r] = Changes!NoRequest
    BY DEF Changes!Init
  <2>3. Changes!Existing = {}
    BY <2>1, <2>2 DEF Changes!Existing
  <2>4. ScopeTypes
    BY DEF Changes!Init, ScopeTypes, Changes!NoBatch, Changes!NoImport, Changes!NoRequest
  <2> QED
    BY <2>1, <2>2, <2>3, <2>4 DEF ScopeInv
<1>2. OrdersInv /\ ScopeInv /\ [Changes!Next]_(Changes!vars) => ScopeInv'
  BY ScopeStep
<1> QED
  BY <1>1, <1>2, OrdersInvHolds, PTL DEF Changes!Spec

(* What was tested and reported is what the customer agreed to, for any    *)
(* batches, orders, imports and retests: nobody confirms or applies terms  *)
(* other than those on the screen, a scope holds what it was created with  *)
(* and what was confirmed, and no scope grows under an import or a retest. *)
THEOREM ScopeStaysAsAgreed == Changes!Spec => []ScopeAsAgreed
<1>1. OrdersInv /\ ScopeInv => ScopeAsAgreed
  <2> SUFFICES ASSUME OrdersInv, ScopeInv PROVE ScopeAsAgreed
    OBVIOUS
  <2>1. ASSUME NEW b \in Changes!Existing
        PROVE  scoped[b].scope = created[b] \cup
          UNION {order[c].assets : c \in {d \in Order : /\ order[d].status = "applied"
                                                        /\ order[d].kind = "scope"
                                                        /\ order[d].batch = b}}
    <3> DEFINE applied == {d \in Order : /\ order[d].status = "applied"
                                         /\ order[d].kind = "scope" /\ order[d].batch = b}
    <3>1. b \in Scoped /\ scoped[b].scope \subseteq Asset /\ created[b] \subseteq Asset
      BY DEF ScopeInv, ScopeTypes, Changes!Existing
    <3>2. \A c \in Order : order[c].assets \subseteq Asset
      BY DEF OrdersInv, OrderRow
    <3>3. \A x \in Asset : x \in scoped[b].scope <=>
            x \in created[b] \/ \E c \in applied : x \in order[c].assets
      BY DEF ScopeInv, Covered, Extends
    <3>4. \A x : x \in UNION {order[c].assets : c \in applied} <=> \E c \in applied : x \in order[c].assets
      OBVIOUS
    <3>5. applied \subseteq Order
      OBVIOUS
    <3> HIDE DEF applied
    <3>6. scoped[b].scope = created[b] \cup UNION {order[c].assets : c \in applied}
      BY <3>1, <3>2, <3>3, <3>4, <3>5
    <3> QED
      BY <3>6 DEF applied
  <2>2. Changes!ScopeIsAgreed
    BY <2>1 DEF Changes!ScopeIsAgreed
  <2>3. Changes!ScopeStands
    BY DEF ScopeInv, Changes!ScopeStands
  <2> QED
    BY <2>2, <2>3 DEF OrdersInv, ScopeAsAgreed, Changes!ScopeAsAgreed
<1> QED
  BY <1>1, OrdersInvHolds, ScopeInvHolds, PTL
===============================================================================
