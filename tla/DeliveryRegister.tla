-------------------------- MODULE DeliveryRegister --------------------------
(***************************************************************************)
(* Report delivery as an implementation of PublicationRegister.            *)
(***************************************************************************)
EXTENDS ReportDelivery

\* What is approved is the content the batch has while its approval holds.
ApprovedContent(b) ==
  IF batch[b].status \in {"approved", "delivered"} THEN {batch[b].content} ELSE {}

RegisterOf(b) == {[version |-> report[r].version, content |-> report[r].content] : r \in Publications(b)}

Register == INSTANCE PublicationRegister WITH
  Content <- 1..MaxContent,
  Version <- 1..Cardinality(Report),
  approved <- [b \in Batch |-> ApprovedContent(b)],
  register <- [b \in Batch |-> RegisterOf(b)]

(* Customers only ever get what a reviewer approved: every version of the  *)
(* report of a batch holds the content approved when it was published,     *)
(* versions rise, and no publication is taken back, although a report is   *)
(* snapshotted, generated, retried and published in separate steps with    *)
(* corrections in between (project_routes.py, publish).                    *)
ImplementsRegister == Register!Spec
=============================================================================
