------------------------------ MODULE ChangeOrders ------------------------------
(***************************************************************************)
(* What the customer agreed to: the scope of a batch, change orders that   *)
(* staff offer, the customer confirms and staff apply, the imports made    *)
(* against the scope, and retests of what was published                    *)
(* (project_routes.py).  Requests of one tenant are served one at a time;  *)
(* whoever sends one decides from a form that may be any age.              *)
(***************************************************************************)
EXTENDS Naturals

CONSTANTS
  Batch, Asset, Order, Import, Request,
  Amount,                \* prices that are offered
  MaxVersion,            \* bound: versions of a change order
  None

VARIABLES
  batch,                 \* batches with the assets of their present scope version
  order,                 \* change orders
  shown,                 \* the rows of each order that anybody may still have on a screen
  imports,               \* imports with the scope they were parsed against
  request,               \* requests for a retest
  created,               \* history: the assets each batch was created with
  agreed                 \* history: the row the customer saw when confirming
vars == <<batch, order, shown, imports, request, created, agreed>>

NoBatch == [status |-> "none", scope |-> {}, assigned |-> FALSE, published |-> FALSE,
            baseline |-> None]
NoOrder == [status |-> "none", batch |-> None, kind |-> None, assets |-> {}, amount |-> None, version |-> 0]
NoImport == [status |-> "none", batch |-> None, scope |-> {}]
NoRequest == [status |-> "none", batch |-> None]

Existing == {b \in Batch : batch[b].status # "none"}
Imports(b) == {i \in Import : imports[i].batch = b}
Committed(b) == {i \in Imports(b) : imports[i].status = "committed"}

SetOrder(c, row) ==
  /\ order' = [order EXCEPT ![c] = row]
  /\ shown' = [shown EXCEPT ![c] = @ \cup {row}]
Status(b, status) == batch' = [batch EXCEPT ![b].status = status]

-----------------------------------------------------------------------------
\* Batches, as far as scope and imports depend on them (their review and publication are
\* ReportDelivery's, their bookings DispatchSlots').

CreateBatch(b, assets) ==
  /\ b \notin Existing
  /\ batch' = [batch EXCEPT ![b] = [NoBatch EXCEPT !.status = "preparing", !.scope = assets]]
  /\ created' = [created EXCEPT ![b] = assets]
  /\ UNCHANGED <<order, shown, imports, request, agreed>>

Scheduled(b) == batch' = [batch EXCEPT ![b].status = "confirmed", ![b].assigned = TRUE]
ScheduleBatch(b) ==
  /\ b \in Existing /\ batch[b].status \notin {"delivered", "approved", "cancelled"}
  /\ Scheduled(b)
  /\ UNCHANGED <<order, shown, imports, request, created, agreed>>

\* Files of another hash than all before; one that cannot be read is kept as invalid.
PreviewImport(i, b, status) ==
  /\ imports[i] = NoImport
  /\ batch[b].assigned /\ batch[b].status \notin {"approved", "delivered", "cancelled"}
  /\ imports' = [imports EXCEPT ![i] = [status |-> status, batch |-> b, scope |-> batch[b].scope]]
  /\ UNCHANGED <<batch, order, shown, request, created, agreed>>

CommitImport(i) ==
  /\ imports[i].status = "preview"
  /\ batch[imports[i].batch].status \notin {"approved", "delivered", "cancelled"}
  /\ imports' = [imports EXCEPT ![i].status = "committed"]
  /\ Status(imports[i].batch, "awaiting_review")
  /\ UNCHANGED <<order, shown, request, created, agreed>>

ReviewBatch(b) ==
  /\ batch[b].status = "awaiting_review" /\ Committed(b) # {}
  /\ \E status \in {"approved", "preparing"} : Status(b, status)
  /\ UNCHANGED <<order, shown, imports, request, created, agreed>>
SubmitReview(b) ==
  /\ batch[b].status \in {"preparing", "confirmed"} /\ Committed(b) # {}
  /\ Status(b, "awaiting_review")
  /\ UNCHANGED <<order, shown, imports, request, created, agreed>>
\* A report is made of the committed imports, and of a retest only with a published baseline.
Publish(b) ==
  /\ batch[b].status \in {"approved", "delivered"} /\ Committed(b) # {}
  /\ batch' = [batch EXCEPT ![b].status = "delivered", ![b].published = TRUE]
  /\ UNCHANGED <<order, shown, imports, request, created, agreed>>
ReopenBatch(b) ==
  /\ batch[b].status \in {"approved", "delivered"}
  /\ Status(b, "preparing")
  /\ UNCHANGED <<order, shown, imports, request, created, agreed>>
CancelBatch(b) ==
  /\ b \in Existing /\ ~batch[b].published
  /\ Status(b, "cancelled")
  /\ UNCHANGED <<order, shown, imports, request, created, agreed>>

-----------------------------------------------------------------------------
\* Change orders.

RequestChange(c, b, kind, assets) ==
  /\ order[c].status = "none" /\ b \in Existing
  /\ SetOrder(c, [status |-> "requested", batch |-> b, kind |-> kind, assets |-> assets,
                  amount |-> None, version |-> 1])
  /\ UNCHANGED <<batch, imports, request, created, agreed>>

\* Mutant: the version that was seen is not compared.
AnyVersion(c, form) == TRUE
Latest(c, form) == form.version = order[c].version

OfferChange(c, form, amount) ==
  /\ order[c].status \in {"requested", "offered"} /\ Latest(c, form)
  /\ order[c].version < MaxVersion
  /\ SetOrder(c, [order[c] EXCEPT !.status = "offered", !.amount = amount,
                                  !.version = order[c].version + 1])
  /\ UNCHANGED <<batch, imports, request, created, agreed>>

ConfirmChange(c, form) ==
  /\ order[c].status = "offered" /\ Latest(c, form)
  /\ SetOrder(c, [order[c] EXCEPT !.status = "confirmed"])
  /\ agreed' = [agreed EXCEPT ![c] = form]
  /\ UNCHANGED <<batch, imports, request, created>>

NotExecuted(b) == Imports(b) = {}

Applicable(c, form) ==
  /\ order[c].status = "confirmed" /\ Latest(c, form)
  /\ batch[order[c].batch].status \in {"preparing", "confirmed"} /\ NotExecuted(order[c].batch)
Applied(c) == SetOrder(c, [order[c] EXCEPT !.status = "applied"])

ApplyScope(c, form) ==
  /\ Applicable(c, form) /\ order[c].kind = "scope" /\ order[c].assets # {}
  /\ batch' = [batch EXCEPT ![order[c].batch].scope = @ \cup order[c].assets]
  /\ Applied(c)
  /\ UNCHANGED <<imports, request, created, agreed>>
\* schedule_batch, to the start the customer confirmed.
ApplyReschedule(c, form) ==
  /\ Applicable(c, form) /\ order[c].kind = "reschedule"
  /\ Scheduled(order[c].batch)
  /\ Applied(c)
  /\ UNCHANGED <<imports, request, created, agreed>>

-----------------------------------------------------------------------------
\* Retests, of what has been published.  Until the deadline that is set with the batch they
\* are requested and approved, afterwards neither: either may stop at any time.

RequestRetest(r, b) ==
  /\ request[r].status = "none" /\ batch[b].published
  /\ request' = [request EXCEPT ![r] = [status |-> "requested", batch |-> b]]
  /\ UNCHANGED <<batch, order, shown, imports, created, agreed>>

ApproveRetest(r, b) ==
  LET original == batch[request[r].batch]
  IN /\ request[r].status = "requested" /\ b \notin Existing
     /\ request' = [request EXCEPT ![r].status = "approved"]
     /\ batch' = [batch EXCEPT ![b] =
          [NoBatch EXCEPT !.status = "preparing", !.scope = original.scope,
                          !.assigned = original.assigned, !.baseline = request[r].batch]]
     /\ created' = [created EXCEPT ![b] = original.scope]
     /\ UNCHANGED <<order, shown, imports, agreed>>

-----------------------------------------------------------------------------
Init ==
  /\ batch = [b \in Batch |-> NoBatch]
  /\ order = [c \in Order |-> NoOrder] /\ shown = [c \in Order |-> {}]
  /\ imports = [i \in Import |-> NoImport]
  /\ request = [r \in Request |-> NoRequest]
  /\ created = [b \in Batch |-> {}] /\ agreed = [c \in Order |-> NoOrder]

Batches ==
  \E b \in Batch :
    \/ \E assets \in SUBSET Asset : CreateBatch(b, assets)
    \/ ScheduleBatch(b) \/ ReviewBatch(b) \/ SubmitReview(b) \/ Publish(b) \/ ReopenBatch(b)
    \/ CancelBatch(b)
    \/ \E i \in Import, status \in {"preview", "invalid"} : PreviewImport(i, b, status)
    \/ \E r \in Request : RequestRetest(r, b) \/ ApproveRetest(r, b)
Orders ==
  \E c \in Order :
    \/ \E b \in Batch, kind \in {"scope", "reschedule"}, assets \in SUBSET Asset :
         RequestChange(c, b, kind, assets)
    \/ \E form \in shown[c] :
         \/ \E amount \in Amount : OfferChange(c, form, amount)
         \/ ConfirmChange(c, form) \/ ApplyScope(c, form) \/ ApplyReschedule(c, form)
Next == Batches \/ Orders \/ \E i \in Import : CommitImport(i)
Spec == Init /\ [][Next]_vars

-----------------------------------------------------------------------------
Terms(row) == <<row.batch, row.kind, row.assets, row.amount>>

\* What is confirmed and applied is what the customer saw, although staff may have made
\* another offer after it was shown.
ConfirmedAsSeen ==
  \A c \in Order : order[c].status \in {"confirmed", "applied"} => Terms(agreed[c]) = Terms(order[c])

\* A batch covers what it was created with and what was agreed since, nothing else.
ScopeIsAgreed ==
  \A b \in Existing :
    batch[b].scope = created[b] \cup
      UNION {order[c].assets : c \in {d \in Order : /\ order[d].status = "applied"
                                                    /\ order[d].kind = "scope" /\ order[d].batch = b}}

\* What was imported, and a retest was derived from, is measured against the scope that
\* holds today: it does not grow under them.
ScopeStands ==
  /\ \A i \in Import : imports[i] # NoImport => imports[i].scope = batch[imports[i].batch].scope
  /\ \A b \in Existing : batch[b].baseline # None => created[b] = batch[batch[b].baseline].scope

\* The scope that is tested and reported is the one the customer agreed to
\* (project_routes.py:1003-1028, and the parsing of imports at 357-360).
ScopeAsAgreed == ConfirmedAsSeen /\ ScopeIsAgreed /\ ScopeStands
===============================================================================
