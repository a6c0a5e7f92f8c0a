------------------------------ MODULE MCExecution ------------------------------
(***************************************************************************)
(* Rows that several people change after having read them: the tasks of a  *)
(* project, bookings of people and tools, questionnaires and tickets,       *)
(* change orders, and the connector to another product.  They share        *)
(* nothing, so a behaviour exercises one of them and `part' says which.    *)
(*                                                                         *)
(* Bookings: organization north has two batches and a tool, south has one *)
(* of each, and the persons p and q work for both.                          *)
(***************************************************************************)
EXTENDS Execution, TLC

CONSTANTS north, south, p, q, a1, a2, b1, ka, kb
VARIABLE part

MCOwnerOf == a1 :> north @@ a2 :> north @@ b1 :> south @@ ka :> north @@ kb :> south
MCPlan ==
  {[engineer |-> p, reviewer |-> p, tool |-> ka, units |-> 1, start |-> 1, end |-> 2],
   [engineer |-> q, reviewer |-> q, tool |-> ka, units |-> 2, start |-> 2, end |-> 3],
   [engineer |-> p, reviewer |-> q, tool |-> kb, units |-> 1, start |-> 1, end |-> 2]}
MCUntrained == {<<north, q>>}
MCSettled == {south, ka, kb}

slotVars == <<clock, policy, qualified, tool, batch, slots, desk, dispatch>>
deskVars == <<answer, questionnaire, ticket, messages, notified, seen, sent, receipts, approved>>
changeVars == <<scoped, order, shown, imports, request, created, agreed>>
portfolioVars == <<now, grant, configured, standing, row, fetching, disabled>>
all == <<part, vars, slotVars, deskVars, changeVars, portfolioVars>>

EachInit ==
  /\ part \in {"tasks", "slots", "desk", "changes", "portfolio"}
  /\ Init /\ Slots!Init /\ Desk!Init /\ Changes!Init
  /\ Portfolio!Init /\ (part # "portfolio" => grant = None)
TasksNext ==
  part = "tasks" /\ Next /\ UNCHANGED <<part, slotVars, deskVars, changeVars, portfolioVars>>
SlotsNext ==
  part = "slots" /\ Slots!Next /\ UNCHANGED <<part, vars, deskVars, changeVars, portfolioVars>>
DeskNext ==
  part = "desk" /\ Desk!Next /\ UNCHANGED <<part, vars, slotVars, changeVars, portfolioVars>>
ChangesNext ==
  part = "changes" /\ Changes!Next /\ UNCHANGED <<part, vars, slotVars, deskVars, portfolioVars>>
PortfolioNext ==
  part = "portfolio" /\ Portfolio!Next /\ UNCHANGED <<part, vars, slotVars, deskVars, changeVars>>
EachSpec ==
  EachInit /\ [][TasksNext \/ SlotsNext \/ DeskNext \/ ChangesNext \/ PortfolioNext]_all

Symmetry == Permutations(Task) \cup Permutations({a1, a2})
===============================================================================
