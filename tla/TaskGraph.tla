------------------------------- MODULE TaskGraph -------------------------------
(***************************************************************************)
(* The tasks of one project and what they depend on                        *)
(* (project_execution.py).  Managers edit tasks from forms: a form carries *)
(* the version of the task it was opened with, and is sent after other     *)
(* forms may have been saved.  A request holds the organization's lock, so *)
(* one save is one step.                                                   *)
(***************************************************************************)
EXTENDS Naturals

CONSTANTS Task, Editor,
          MaxVersion           \* bound: how often a task is edited

VARIABLES task, form
vars == <<task, form>>

Status == {"open", "done"}             \* in_progress and blocked are open here
NoTask == [status |-> "none", needs |-> {}, version |-> 0]
NoForm == [task |-> NoTask, id |-> {}, open |-> FALSE]

Existing == {t \in Task : task[t] # NoTask}
Done(t) == task[t].status = "done"

\* Mutant: only the dependencies named by the form are looked at.
ReachedDirectly(first) == first
\* What the pending/seen loop visits: the least set with `first' that holds the
\* dependencies of each of its tasks.
Reached(first) ==
  {t \in Task : \A C \in SUBSET Task :
     first \subseteq C /\ (\A u \in C : task[u].needs \subseteq C) => t \in C}

KeepsDone(t, status) ==
  status # "done" => \A u \in Task : t \in task[u].needs => ~Done(u)

Valid(t, needs, status) ==
  /\ needs \subseteq Existing
  /\ t \notin Reached(needs)
  /\ status = "done" => \A u \in needs : Done(u)
  /\ KeepsDone(t, status)

CreateTask(t) ==
  /\ task[t] = NoTask
  /\ \E needs \in SUBSET Task, s \in Status :
       /\ Valid(t, needs, s)
       /\ task' = [task EXCEPT ![t] = [status |-> s, needs |-> needs, version |-> 1]]
  /\ UNCHANGED form

OpenForm(e, t) ==
  /\ ~form[e].open /\ t \in Existing /\ task[t].version < MaxVersion
  /\ form' = [form EXCEPT ![e] = [task |-> task[t], id |-> {t}, open |-> TRUE]]
  /\ UNCHANGED task

\* Mutant: the version sent with the form is not compared.
CurrentUnchecked(e, t) == TRUE
Current(e, t) == form[e].task.version = task[t].version

UpdateTask(e, t) ==
  /\ form[e].open /\ form[e].id = {t}
  /\ \E needs \in SUBSET Task, s \in Status :
       task' = IF Current(e, t) /\ Valid(t, needs, s)
               THEN [task EXCEPT ![t] = [status |-> s, needs |-> needs,
                                         version |-> task[t].version + 1]]
               ELSE task
  /\ form' = [form EXCEPT ![e] = NoForm]

Init == task = [t \in Task |-> NoTask] /\ form = [e \in Editor |-> NoForm]
Next == \/ \E t \in Task : CreateTask(t)
        \/ \E e \in Editor, t \in Task : OpenForm(e, t) \/ UpdateTask(e, t)
Spec == Init /\ [][Next]_vars

-----------------------------------------------------------------------------
\* The rows have their types.
TypeOK ==
  /\ task \in [Task -> [status : Status \cup {"none"}, needs : SUBSET Task, version : Nat]]
  /\ form \in [Editor -> [task : [status : Status \cup {"none"}, needs : SUBSET Task,
                                  version : Nat], id : SUBSET Task, open : BOOLEAN]]

\* Dependencies are edited one task at a time and each edit looks only at the
\* tasks it can reach (validate_task): together they never form a circle, so
\* every set of tasks has one that waits for none of the set.
Acyclic ==
  \A S \in SUBSET Task : S # {} => \E t \in S : task[t].needs \cap S = {}

\* A completed task never waits for one that is not completed, whichever of the
\* two was edited last, and whatever was reopened or added meanwhile.
DoneAfterDependencies == \A t \in Task : Done(t) => \A u \in task[t].needs : Done(u)

\* Both (validate_task, project_execution.py:181-207).
DependenciesHold == Acyclic /\ DoneAfterDependencies

\* An edit replaces the very task its editor was looking at: of two forms opened
\* on one task, the one sent second changes nothing (STALE_VERSION).
EditsBuildOnRead ==
  [][\A e \in Editor, t \in Task :
        form[e].open /\ ~form'[e].open /\ task'[t] # task[t] => form[e].task = task[t]]_vars
===============================================================================
