------------------------ MODULE PublicationRegister ------------------------
(***************************************************************************)
(* What the publication of reports promises a customer: every version of   *)
(* the report of a batch has the content that was approved when it was     *)
(* published, and versions only rise; what was published stays.            *)
(***************************************************************************)
EXTENDS Integers

CONSTANTS Batch, Content, Version

VARIABLES
  approved,  \* the content approved now: a set of at most one
  register   \* the versions published of each batch, with their content

Init ==
  /\ approved = [b \in Batch |-> {}]
  /\ register = [b \in Batch |-> {}]

\* A reviewer approves a content, which is not the case of one still approved.
Approve(b, c) ==
  /\ approved[b] = {}
  /\ approved' = [approved EXCEPT ![b] = {c}]
  /\ UNCHANGED register

\* An approval is withdrawn for a correction or when work on the batch ends.
Withdraw(bs) ==
  /\ approved' = [b \in Batch |-> IF b \in bs THEN {} ELSE approved[b]]
  /\ UNCHANGED register

Deliver(b, version) ==
  /\ \A v \in register[b] : v.version < version
  /\ \E c \in approved[b] :
       register' = [register EXCEPT ![b] = @ \cup {[version |-> version, content |-> c]}]
  /\ UNCHANGED approved

Next ==
  \/ \E b \in Batch, c \in Content : Approve(b, c)
  \/ \E bs \in SUBSET Batch : Withdraw(bs)
  \/ \E b \in Batch, version \in Version : Deliver(b, version)

Spec == Init /\ [][Next]_<<approved, register>>
=============================================================================
