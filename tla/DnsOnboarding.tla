----------------------------- MODULE DnsOnboarding -----------------------------
(***************************************************************************)
(* The reconciliation of a DNS zone (scripts/cloudflare_onboard.py): an    *)
(* inspection, a plan that is reviewed, its application record by record   *)
(* with a receipt on disk, and a rollback from the receipt.  Others edit   *)
(* the zone at any time, answers of the provider are lost, and the tool is *)
(* stopped between any two steps.                                          *)
(***************************************************************************)
EXTENDS Naturals, Sequences, FiniteSets

CONSTANTS
  Zone,                  \* the zone at the start: record numbers to records
  MaxId,                 \* bound: numbers the provider gives to records
  Config,                \* configurations: sequences of managed records
  Content,               \* targets a record may have
  MaxOutside,            \* bound: edits by others
  None

Id == 1..MaxId
Gone == [name |-> None, content |-> None, owner |-> None]

VARIABLES zone, next, outside, quiet, snapshot, plan, receipt, tool, undo
vars == <<zone, next, outside, quiet, snapshot, plan, receipt, tool, undo>>

Records == {i \in Id : zone[i] # Gone}
Idle == [phase |-> "idle", at |-> 1, expected |-> Zone, result |-> 0]
NoReceipt == [state |-> "none", operations |-> <<>>]

-----------------------------------------------------------------------------
\* The zone and its other editors.  `quiet': nobody else edited since the tool's last read.

OutsideEdit ==
  /\ outside < MaxOutside
  /\ \/ \E i \in Records, c \in Content \cup {None} :
          zone' = [zone EXCEPT ![i] = IF c = None THEN Gone ELSE [@ EXCEPT !.content = c]]
          /\ next' = next
     \/ \E i \in Records, c \in Content :
          /\ next <= MaxId
          /\ zone' = [zone EXCEPT ![next] = [name |-> zone[i].name, content |-> c, owner |-> None]]
          /\ next' = next + 1
  /\ zone' # zone
  /\ outside' = outside + 1 /\ quiet' = FALSE
  /\ UNCHANGED <<snapshot, plan, receipt, tool, undo>>

-----------------------------------------------------------------------------
\* Inspection and plan.

InspectBefore ==
  /\ tool.phase = "idle" /\ receipt = NoReceipt /\ plan = None /\ snapshot = None
  /\ tool' = [Idle EXCEPT !.phase = "exporting", !.expected = zone] /\ quiet' = TRUE
  /\ UNCHANGED <<zone, next, outside, snapshot, plan, receipt, undo>>

InspectAfter ==
  /\ tool.phase = "exporting"
  /\ snapshot' = IF zone = tool.expected THEN zone ELSE None
  /\ tool' = Idle /\ quiet' = TRUE
  /\ UNCHANGED <<zone, next, outside, plan, receipt, undo>>

Owned(z, key) == {i \in Id : z[i].owner = key /\ z[i] # Gone}
Before(z, item) ==
  IF Owned(z, item.key) # {} THEN CHOOSE i \in Owned(z, item.key) : TRUE ELSE item.adopt
Conflicts(z, item) ==
  \E i \in Id \ {Before(z, item)} : z[i] # Gone /\ z[i].name = item.name
Wanted(item) == [name |-> item.name, content |-> item.content, owner |-> item.key]

Plannable(z, item) ==
  /\ Cardinality(Owned(z, item.key)) <= 1
  /\ item.state = "present" =>
       /\ ~Conflicts(z, item)
       /\ Before(z, item) # 0 => z[Before(z, item)].name = item.name
       /\ item.adopt # 0 => IF Owned(z, item.key) = {}
                             THEN z[item.adopt] # Gone /\ z[item.adopt].owner = None
                             ELSE item.adopt \in Owned(z, item.key)
\* No two entries for one key, one record or one name.
Apart(z, item, other) ==
  /\ item.key # other.key /\ item.name # other.name
  /\ Before(z, item) # 0 => Before(z, item) # Before(z, other)

\* Nothing is done for an item that is as wanted.
ActionOf(z, item) ==
  LET i == Before(z, item)
  IN CASE item.state = "absent" /\ Owned(z, item.key) # {} ->
            [operation |-> "delete", id |-> i, before |-> z[i], after |-> Gone]
       [] item.state = "present" /\ i = 0 ->
            [operation |-> "create", id |-> 0, before |-> Gone, after |-> Wanted(item)]
       [] item.state = "present" /\ i # 0 /\ z[i] # Wanted(item) ->
            [operation |-> "update", id |-> i, before |-> z[i], after |-> Wanted(item)]
       [] OTHER -> None
\* The m-th number of a set.
Nth(S, m) == CHOOSE n \in S : Cardinality({k \in S : k < n}) = m - 1

BuildPlan(config) ==
  /\ snapshot # None /\ plan = None
  /\ \A n \in DOMAIN config :
       /\ Plannable(snapshot, config[n])
       /\ \A m \in 1..(n - 1) : Apart(snapshot, config[n], config[m])
  /\ LET acting == {n \in DOMAIN config : ActionOf(snapshot, config[n]) # None}
     IN plan' = [records |-> snapshot,
                 actions |-> [m \in 1..Cardinality(acting) |->
                                ActionOf(snapshot, config[Nth(acting, m)])]]
  /\ UNCHANGED <<zone, next, outside, quiet, snapshot, receipt, tool, undo>>

-----------------------------------------------------------------------------
\* One request to the provider, which carries it out or refuses it.

Carry(a) ==
  /\ IF a.operation = "create" THEN next <= MaxId ELSE zone[a.id] # Gone
  /\ zone' = CASE a.operation = "create" -> [zone EXCEPT ![next] = a.after]
               [] a.operation = "update" -> [zone EXCEPT ![a.id] = a.after]
               [] a.operation = "delete" -> [zone EXCEPT ![a.id] = Gone]
  /\ next' = IF a.operation = "create" THEN next + 1 ELSE next
Target(a) == IF a.operation = "create" THEN next ELSE a.id

Act == plan.actions[tool.at]
Apply(phase) == undo = NoReceipt /\ tool.phase = phase
Receipt(state) == [receipt EXCEPT !.state = state]

ApplyPlan ==
  /\ plan # None /\ receipt = NoReceipt /\ tool = Idle
  /\ zone = plan.records
  /\ receipt' = Receipt("running")
  /\ tool' = [Idle EXCEPT !.phase = "read", !.expected = plan.records] /\ quiet' = TRUE
  /\ UNCHANGED <<zone, next, outside, snapshot, plan, undo>>

\* Mutant: the operation is put on the receipt only when it is confirmed.
Unprepared == receipt
Prepared ==
  [receipt EXCEPT !.operations =
     Append(@, [action |-> Act, state |-> "prepared", result |-> 0])]

\* Mutant: the records are read once, when the plan is applied.
DriftIgnored == FALSE
Drift == zone # tool.expected

FreshRead ==
  /\ Apply("read") /\ tool.at <= Len(plan.actions)
  /\ IF Drift
     THEN receipt' = Receipt("needs_reconciliation") /\ tool' = Idle
     ELSE receipt' = Prepared /\ tool' = [tool EXCEPT !.phase = "prepared"]
  /\ quiet' = TRUE
  /\ UNCHANGED <<zone, next, outside, snapshot, plan, undo>>

Mutate ==
  /\ Apply("prepared") /\ Carry(Act)
  /\ tool' = [tool EXCEPT !.phase = "sent", !.result = Target(Act),
                          !.expected = [@ EXCEPT ![Target(Act)] = Act.after]]
  /\ UNCHANGED <<outside, quiet, snapshot, plan, receipt, undo>>

Confirm ==
  /\ Apply("sent")
  /\ receipt' = [receipt EXCEPT !.operations[tool.at].state = "confirmed",
                                !.operations[tool.at].result = tool.result]
  /\ tool' = [tool EXCEPT !.phase = "read", !.at = tool.at + 1]
  /\ UNCHANGED <<zone, next, outside, quiet, snapshot, plan, undo>>

\* No answer, or a refusal: the request may have been carried out or not.
Unanswered ==
  /\ Apply("prepared") \/ Apply("sent")
  /\ receipt' = Receipt("needs_reconciliation") /\ tool' = Idle
  /\ UNCHANGED <<zone, next, outside, quiet, snapshot, plan, undo>>

FinishApply ==
  /\ Apply("read") /\ tool.at > Len(plan.actions)
  /\ receipt' = Receipt(IF Drift THEN "needs_reconciliation" ELSE "succeeded")
  /\ tool' = Idle /\ quiet' = TRUE
  /\ UNCHANGED <<zone, next, outside, snapshot, plan, undo>>

\* The tool is stopped; what is on disk stays as it is.
Crash ==
  /\ tool.phase # "idle"
  /\ tool' = Idle
  /\ UNCHANGED <<zone, next, outside, quiet, snapshot, plan, receipt, undo>>

-----------------------------------------------------------------------------
\* Rollback, last operation first.

Operation(n) == receipt.operations[n]
AllConfirmed == \A n \in DOMAIN receipt.operations : Operation(n).state = "confirmed"
Unchanged(o) ==
  IF o.action.operation = "delete"
  THEN \A i \in Records : zone[i].name # o.action.before.name
  ELSE zone[o.result] = o.action.after

Rollback ==
  /\ receipt.operations # <<>> /\ tool = Idle
  /\ AllConfirmed /\ \A n \in DOMAIN receipt.operations : Unchanged(Operation(n))
  /\ undo' = [state |-> "running", operations |-> <<>>]
  /\ tool' = [Idle EXCEPT !.phase = "read", !.expected = zone,
                          !.at = Len(receipt.operations)] /\ quiet' = TRUE
  /\ UNCHANGED <<zone, next, outside, snapshot, plan, receipt>>

Undo(phase) == undo.state = "running" /\ tool.phase = phase
\* The request that takes an operation back.
Inverse(o) ==
  CASE o.action.operation = "create" ->
         [operation |-> "delete", id |-> o.result, before |-> o.action.after, after |-> Gone]
    [] o.action.operation = "update" ->
         [operation |-> "update", id |-> o.result, before |-> o.action.after,
          after |-> o.action.before]
    [] o.action.operation = "delete" ->
         [operation |-> "create", id |-> 0, before |-> Gone, after |-> o.action.before]

UndoRead ==
  /\ Undo("read") /\ tool.at > 0
  /\ IF Drift
     THEN undo' = [undo EXCEPT !.state = "needs_reconciliation"] /\ tool' = Idle
     ELSE undo' = undo /\ tool' = [tool EXCEPT !.phase = "prepared"]
  /\ quiet' = TRUE
  /\ UNCHANGED <<zone, next, outside, snapshot, plan, receipt>>

UndoMutate ==
  /\ Undo("prepared")
  /\ LET a == Inverse(Operation(tool.at))
     IN /\ Carry(a)
        /\ tool' = [tool EXCEPT !.phase = "read", !.at = tool.at - 1,
                                !.expected = [@ EXCEPT ![Target(a)] = a.after]]
  /\ UNCHANGED <<outside, quiet, snapshot, plan, receipt, undo>>

UndoUnanswered ==
  /\ Undo("prepared") \/ Undo("read")
  /\ undo' = [undo EXCEPT !.state = "needs_reconciliation"] /\ tool' = Idle
  /\ UNCHANGED <<zone, next, outside, quiet, snapshot, plan, receipt>>

FinishUndo ==
  /\ Undo("read") /\ tool.at = 0
  /\ undo' = [undo EXCEPT !.state = IF Drift THEN "needs_reconciliation" ELSE "succeeded"]
  /\ tool' = Idle /\ quiet' = TRUE
  /\ UNCHANGED <<zone, next, outside, snapshot, plan, receipt>>

Init ==
  /\ zone = Zone /\ next = Cardinality(Records) + 1 /\ outside = 0 /\ quiet = TRUE
  /\ snapshot = None /\ plan = None /\ receipt = NoReceipt /\ tool = Idle /\ undo = NoReceipt
Next ==
  \/ OutsideEdit \/ InspectBefore \/ InspectAfter \/ \E config \in Config : BuildPlan(config)
  \/ ApplyPlan \/ FreshRead \/ Mutate \/ Confirm \/ Unanswered \/ FinishApply \/ Crash
  \/ Rollback \/ UndoRead \/ UndoMutate \/ UndoUnanswered \/ FinishUndo
Spec == Init /\ [][Next]_vars

-----------------------------------------------------------------------------
\* What the tool did to the zone is on the receipt before it is done: whenever the
\* tool stops, each record it may have touched is named by an operation on disk.
NothingUnrecorded ==
  [][zone' # zone /\ outside' = outside /\ undo = NoReceipt
       => /\ receipt.operations # <<>>
          /\ LET a == receipt.operations[Len(receipt.operations)].action
             IN \A i \in Id : zone'[i] # zone[i] =>
                  (zone[i] = Gone /\ zone'[i] = a.after) \/ i = a.id]_vars

\* An edit by others stops the tool: it replaces or removes a record only in the state
\* that was reviewed, and takes back only what it wrote itself, unless the record was
\* edited after the tool's last read.
DriftStops ==
  [][outside' = outside /\ quiet =>
       \A i \in Id : zone'[i] # zone[i] =>
         IF undo = NoReceipt
         THEN zone[i] = plan.records[i]
         ELSE zone[i] = Gone \/ \E n \in DOMAIN receipt.operations :
                Operation(n).result = i /\ zone[i] = Operation(n).action.after]_vars

\* A rollback that reports success put back every record the plan had changed and
\* removed what it had created, whatever happened in between.
RollbackRestores ==
  [][undo.state # "succeeded" /\ undo'.state = "succeeded" =>
       \A n \in DOMAIN plan.actions :
         LET a == plan.actions[n]
         IN (n \in DOMAIN receipt.operations) =>
              CASE a.operation = "update" -> zone[a.id] = a.before
                [] a.operation = "delete" -> \E i \in Id : zone[i] = a.before
                [] a.operation = "create" -> zone[Operation(n).result] = Gone]_vars

\* The tool acts only on what was reviewed, and what it does can be found out afterwards
\* (cloudflare_onboard.py:452-473).
ActsAsReviewed == NothingUnrecorded /\ DriftStops
===============================================================================
