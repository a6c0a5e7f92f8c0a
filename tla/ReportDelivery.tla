--------------------------- MODULE ReportDelivery ---------------------------
(***************************************************************************)
(* Assessment batches, their review, and the reports made and published    *)
(* for them: staff act in project_routes.py and api.py, workers make the   *)
(* files in worker.py, each delivered batch costs one service unit         *)
(* (entitlements.py).                                                      *)
(*                                                                         *)
(* One project of one tenant, whose requests and worker transactions hold  *)
(* the tenant's lock: each is one action.  A worker makes the files        *)
(* between two transactions, while a thread renews its lease; the model    *)
(* has no clock, since a lease is compared with nothing but the current    *)
(* time: it holds until Lapse, and renewing it is letting Lapse wait.      *)
(***************************************************************************)
EXTENDS Integers, FiniteSets

CONSTANTS
  Batch,       \* batches of one service in the project
  Report,      \* report_jobs, each with its snapshot and its row of jobs
  Worker,      \* worker processes
  BatchOf,     \* the batch of each report
  MaxUnits,    \* bound: service units granted
  MaxContent,  \* bound: imports committed to a batch
  MaxReviews,  \* bound: approvals of a batch
  MaxRetries   \* bound: retries of a report by hand

ASSUME DeliveryConstants ==
  /\ BatchOf \in [Report -> Batch]
  /\ IsFiniteSet(Report) /\ IsFiniteSet(Batch)
  /\ MaxUnits \in Nat /\ MaxContent \in Nat /\ MaxReviews \in Nat /\ MaxRetries \in Nat

VARIABLES
  tenant,     \* tenants.status
  granted,    \* units granted to the project (entitlement_ledger, kind grant)
  unit,       \* what the ledger says of the unit of each batch
  batch,      \* status, committed imports, and current approval (reviewed_at)
  reviews,    \* approvals given to each batch so far
  report,     \* report_jobs with the snapshot: approval, content and version
  job,        \* the jobs row of each report; lease: not yet over
  retries,    \* retries of each report by hand
  published,  \* reports that have a publication
  claims,     \* claim tokens handed out so far
  scan,       \* expired claims a worker has read and not yet recovered
  mine        \* the claim a worker holds, and whether it is making the files

staff == <<tenant, granted, unit, batch, reviews, retries, published>>
jobs == <<report, job, claims>>
workers == <<scan, mine>>
vars == <<tenant, granted, unit, batch, reviews, report, job, retries, published, claims, scan, mine>>

NoToken == 0
NoReport == [status |-> "none", approval |-> 0, content |-> 0, version |-> 0, output |-> NoToken]
Unclaimed(status, attempts) == [status |-> status, token |-> NoToken, lease |-> FALSE, attempts |-> attempts]
NoJob == Unclaimed("none", 0)
NoClaim == [report |-> "none", token |-> NoToken, making |-> FALSE]
RetryLimit == 3

Reports(b) == {r \in Report : BatchOf[r] = b}
Snapshots(b) == {r \in Reports(b) : report[r].status # "none"}
Publications(b) == Reports(b) \cap published

\* Batches of the first fixtures had no unit reserved (seed.py).
Init ==
  /\ tenant = "active"
  /\ granted = 0
  /\ unit = [b \in Batch |-> "none"]
  /\ batch \in [Batch -> [status : {"none", "preparing"}, content : {0}, approval : {0}]]
  /\ reviews = [b \in Batch |-> 0]
  /\ report = [r \in Report |-> NoReport]
  /\ job = [r \in Report |-> NoJob]
  /\ retries = [r \in Report |-> 0]
  /\ published = {}
  /\ claims = 0
  /\ scan = [w \in Worker |-> {}]
  /\ mine = [w \in Worker |-> NoClaim]

-----------------------------------------------------------------------------
(***************************************************************************)
(* Service units.  The units of a project are one pool: a reservation is   *)
(* of one unit and any grant with a free one will do.                      *)
(***************************************************************************)
InUse == {b \in Batch : unit[b] \in {"reserved", "consumed"}}

\* Mutant: only delivered batches count against the grants.
UnitFreeUnlessConsumed == Cardinality({b \in Batch : unit[b] = "consumed"}) < granted

UnitFree == Cardinality(InUse) < granted

\* finish(consume): a batch without a reservation takes a unit now.
ConsumeUnit(b) ==
  /\ unit[b] # "released"
  /\ unit[b] = "none" => UnitFree
  /\ unit' = [unit EXCEPT ![b] = "consumed"]

\* finish(release): nothing to do without a reservation, refused once consumed.
ReleaseUnit(b) ==
  /\ unit[b] # "consumed"
  /\ unit' = [unit EXCEPT ![b] = IF @ = "reserved" THEN "released" ELSE @]

GrantUnit ==
  /\ tenant = "active"
  /\ granted < MaxUnits
  /\ granted' = granted + 1
  /\ UNCHANGED <<tenant, unit, batch, reviews, retries, published, jobs, workers>>

-----------------------------------------------------------------------------
(***************************************************************************)
(* Staff.  Requests of a tenant that is not active are refused.            *)
(***************************************************************************)
SetBatch(b, status, approval) ==
  batch' = [batch EXCEPT ![b] = [status |-> status, content |-> batch[b].content, approval |-> approval]]

\* create_batch, and approve_retest for the batch of a retest.
CreateBatch(b) ==
  /\ tenant = "active"
  /\ batch[b].status = "none"
  /\ UnitFree
  /\ SetBatch(b, "preparing", 0)
  /\ unit' = [unit EXCEPT ![b] = "reserved"]
  /\ UNCHANGED <<tenant, granted, reviews, retries, published, jobs, workers>>

ScheduleBatch(b) ==
  /\ tenant = "active"
  /\ batch[b].status \in {"preparing", "confirmed", "awaiting_review"}
  /\ SetBatch(b, "confirmed", batch[b].approval)
  /\ UNCHANGED <<tenant, granted, unit, reviews, retries, published, jobs, workers>>

CommitImport(b) ==
  /\ tenant = "active"
  /\ batch[b].status \in {"preparing", "confirmed", "awaiting_review"}
  /\ batch[b].content < MaxContent
  /\ batch' = [batch EXCEPT ![b] = [status |-> "awaiting_review", content |-> batch[b].content + 1, approval |-> 0]]
  /\ UNCHANGED <<tenant, granted, unit, reviews, retries, published, jobs, workers>>

SubmitReview(b) ==
  /\ tenant = "active"
  /\ batch[b].status \in {"preparing", "confirmed"}
  /\ batch[b].content > 0
  /\ SetBatch(b, "awaiting_review", 0)
  /\ UNCHANGED <<tenant, granted, unit, reviews, retries, published, jobs, workers>>

\* review_batch: reviewed_at tells one approval from another.
Approve(b) ==
  /\ tenant = "active"
  /\ batch[b].status = "awaiting_review" /\ batch[b].content > 0
  /\ reviews[b] < MaxReviews
  /\ reviews' = [reviews EXCEPT ![b] = @ + 1]
  /\ SetBatch(b, "approved", reviews[b] + 1)
  /\ UNCHANGED <<tenant, granted, unit, retries, published, jobs, workers>>

Reject(b) ==
  /\ tenant = "active"
  /\ batch[b].status = "awaiting_review" /\ batch[b].content > 0
  /\ SetBatch(b, "preparing", 0)
  /\ UNCHANGED <<tenant, granted, unit, reviews, retries, published, jobs, workers>>

ReopenBatch(b) ==
  /\ tenant = "active"
  /\ batch[b].status \in {"approved", "delivered"}
  /\ SetBatch(b, "preparing", 0)
  /\ UNCHANGED <<tenant, granted, unit, reviews, retries, published, jobs, workers>>

\* Only a batch that was never delivered can be cancelled, in whatever status it is.
CancelBatch(b) ==
  /\ tenant = "active"
  /\ batch[b].status # "none"
  /\ Publications(b) = {}
  /\ ReleaseUnit(b)
  /\ SetBatch(b, "cancelled", 0)
  /\ UNCHANGED <<tenant, granted, reviews, retries, published, jobs, workers>>

\* create_report_job: the snapshot keeps the approval and what was approved.
\* Snapshots are numbered one by one and never deleted: counting them gives
\* the highest version.
CreateReport(r) ==
  LET b == BatchOf[r] IN
  /\ tenant = "active"
  /\ report[r].status = "none"
  /\ batch[b].status \in {"approved", "delivered"} /\ batch[b].content > 0
  /\ report' = [report EXCEPT ![r] =
       [status |-> "queued", approval |-> batch[b].approval, content |-> batch[b].content,
        version |-> Cardinality(Snapshots(b)) + 1, output |-> NoToken]]
  /\ job' = [job EXCEPT ![r] = Unclaimed("queued", 0)]
  /\ UNCHANGED <<staff, claims, workers>>

\* Only the job is queued again; the report keeps its status until a worker begins.
RetryJob(r) ==
  /\ tenant = "active"
  /\ job[r].status \in {"failed", "dead_letter"}
  /\ retries[r] < MaxRetries
  /\ retries' = [retries EXCEPT ![r] = @ + 1]
  /\ job' = [job EXCEPT ![r] = Unclaimed("queued", 0)]
  /\ UNCHANGED <<tenant, granted, unit, batch, reviews, published, report, claims, workers>>

\* Mutant: any approval will do.
ApprovedSomehow(r) == batch[BatchOf[r]].approval # 0

\* The report was made for the approval that holds now.  The scope, which the
\* code compares too, changes only before the first import (apply_change).
ApprovedNow(r) == batch[BatchOf[r]].approval # 0 /\ report[r].approval = batch[BatchOf[r]].approval

Newest(r) == \A p \in Publications(BatchOf[r]) : report[p].version < report[r].version

Publish(r) ==
  LET b == BatchOf[r] IN
  /\ tenant = "active"
  /\ r \notin published
  /\ report[r].status = "completed"
  /\ batch[b].status \in {"approved", "delivered"}
  /\ ApprovedNow(r)
  /\ Newest(r)
  /\ published' = published \cup {r}
  /\ ConsumeUnit(b)
  /\ SetBatch(b, "delivered", batch[b].approval)
  /\ UNCHANGED <<tenant, granted, reviews, retries, jobs, workers>>

(***************************************************************************)
(* The platform suspends and reactivates the tenant, or offboards it once  *)
(* no claim is running.  A delivered batch keeps its unit, even reopened.  *)
(***************************************************************************)
SetStatus(status) ==
  /\ {tenant, status} = {"active", "suspended"}
  /\ tenant' = status
  /\ UNCHANGED <<granted, unit, batch, reviews, retries, published, jobs, workers>>

Leaving == {b \in Batch : batch[b].status \notin {"none", "delivered", "cancelled"}}

\* Mutant: the unit of every batch that is not delivered now is freed.
FreedOnLeaving(b) == IF b \in Leaving /\ unit[b] # "none" THEN "released" ELSE unit[b]

AfterLeaving(b) == IF b \in Leaving /\ unit[b] = "reserved" THEN "released" ELSE unit[b]

Offboard ==
  /\ tenant = "active"
  /\ \A r \in Report : job[r].status # "running"
  /\ tenant' = "offboarding"
  /\ unit' = [b \in Batch |-> AfterLeaving(b)]
  /\ batch' = [b \in Batch |-> IF b \in Leaving THEN [batch[b] EXCEPT !.status = "cancelled"] ELSE batch[b]]
  /\ job' = [r \in Report |->
       IF job[r].status = "queued"
       THEN Unclaimed("cancelled", job[r].attempts)
       ELSE job[r]]
  /\ UNCHANGED <<granted, reviews, retries, published, report, claims, workers>>

-----------------------------------------------------------------------------
(***************************************************************************)
(* Workers.                                                                *)
(***************************************************************************)
Idle(w) == scan[w] = {} /\ mine[w] = NoClaim
Held(r) == \E w \in Worker : mine[w].report = r /\ mine[w].token = job[r].token

\* The lease of a claim ends: its worker is gone, hangs or cannot reach the database.
Lapse(r) ==
  /\ job[r].status = "running" /\ job[r].lease
  /\ job' = [job EXCEPT ![r].lease = FALSE]
  /\ UNCHANGED <<staff, report, claims, workers>>

\* Mutant: only claims whose worker has begun are looked for.
ExpiredBegun(r) == job[r].status = "running" /\ ~job[r].lease /\ report[r].status = "running"

Expired(r) == job[r].status = "running" /\ ~job[r].lease

ReadExpired(w) ==
  /\ Idle(w)
  /\ \E r \in Report : Expired(r)
  /\ scan' = [scan EXCEPT ![w] = {[report |-> r, token |-> job[r].token] : r \in {x \in Report : Expired(x)}}]
  /\ UNCHANGED <<staff, jobs, mine>>

Ended(r, status) == [job EXCEPT ![r] = Unclaimed(status, job[r].attempts)]
SetReport(r, status) == report' = [report EXCEPT ![r].status = status]

\* Mutant: what was read is trusted.
StillReadBefore(seen) == TRUE

StillExpired(seen) == Expired(seen.report) /\ job[seen.report].token = seen.token

\* Mutant: only the job is queued again.
RequeueJob(r) == UNCHANGED report

Requeue(r) == SetReport(r, "queued")

Recover(w, seen) ==
  /\ seen \in scan[w]
  /\ scan' = [scan EXCEPT ![w] = @ \ {seen}]
  /\ IF StillExpired(seen)
     THEN job' = Ended(seen.report, "queued") /\ Requeue(seen.report)
     ELSE UNCHANGED <<job, report>>
  /\ UNCHANGED <<staff, claims, mine>>

\* Mutant: attempts are counted and not limited.
TriesLeftAlways(r) == TRUE

TriesLeft(r) == job[r].attempts < RetryLimit

Claim(w, r) ==
  /\ Idle(w)
  /\ job[r].status = "queued"
  /\ IF tenant # "active"
     THEN /\ job' = Ended(r, "cancelled")
          /\ SetReport(r, "cancelled")
          /\ UNCHANGED <<claims, mine>>
     ELSE IF TriesLeft(r)
     THEN /\ claims' = claims + 1
          /\ job' = [job EXCEPT ![r] = [status |-> "running", token |-> claims + 1, lease |-> TRUE,
                                        attempts |-> job[r].attempts + 1]]
          /\ mine' = [mine EXCEPT ![w] = [report |-> r, token |-> claims + 1, making |-> FALSE]]
          /\ UNCHANGED report
     ELSE /\ job' = Ended(r, "dead_letter")
          /\ SetReport(r, "failed")
          /\ UNCHANGED <<claims, mine>>
  /\ UNCHANGED <<staff, scan>>

\* _renew_current and _finish_claim: the claim is still this worker's.
Current(claim) ==
  /\ job[claim.report].status = "running"
  /\ job[claim.report].token = claim.token
  /\ job[claim.report].lease

Drop(w) == mine' = [mine EXCEPT ![w] = NoClaim]

\* The first transaction of process_once; without an approval it fails.
Begin(w) ==
  LET claim == mine[w] IN
  /\ claim # NoClaim /\ ~claim.making
  /\ IF Current(claim)
     THEN /\ batch[BatchOf[claim.report]].approval # 0
          /\ SetReport(claim.report, "running")
          /\ mine' = [mine EXCEPT ![w].making = TRUE]
     ELSE Drop(w) /\ UNCHANGED report
  /\ UNCHANGED <<staff, job, claims, scan>>

\* Mutant: every attempt writes to the same place.
SharedDirectory(claim) == 1

\* generate_bundle writes to a directory of the claim.
Directory(claim) == claim.token

\* The second: the report is completed by the worker that still has the claim.
Finish(w) ==
  LET claim == mine[w] IN
  /\ claim # NoClaim /\ claim.making
  /\ IF Current(claim)
     THEN /\ job' = Ended(claim.report, "completed")
          /\ report' = [report EXCEPT ![claim.report].status = "completed",
                                      ![claim.report].output = Directory(claim)]
     ELSE UNCHANGED <<job, report>>
  /\ Drop(w)
  /\ UNCHANGED <<staff, claims, scan>>

\* Anything raised on the way is recorded in a transaction of its own.
Fail(w) ==
  LET claim == mine[w] IN
  /\ claim # NoClaim
  /\ IF Current(claim)
     THEN job' = Ended(claim.report, "failed") /\ SetReport(claim.report, "failed")
     ELSE UNCHANGED <<job, report>>
  /\ Drop(w)
  /\ UNCHANGED <<staff, claims, scan>>

Crash(w) ==
  /\ ~Idle(w)
  /\ scan' = [scan EXCEPT ![w] = {}]
  /\ Drop(w)
  /\ UNCHANGED <<staff, jobs>>

-----------------------------------------------------------------------------
Next ==
  \/ GrantUnit
  \/ \E b \in Batch : CreateBatch(b)
  \/ \E b \in Batch : ScheduleBatch(b)
  \/ \E b \in Batch : CommitImport(b)
  \/ \E b \in Batch : SubmitReview(b)
  \/ \E b \in Batch : Approve(b)
  \/ \E b \in Batch : Reject(b)
  \/ \E b \in Batch : ReopenBatch(b)
  \/ \E b \in Batch : CancelBatch(b)
  \/ \E r \in Report : CreateReport(r)
  \/ \E r \in Report : RetryJob(r)
  \/ \E r \in Report : Publish(r)
  \/ \E status \in {"active", "suspended"} : SetStatus(status)
  \/ Offboard
  \/ \E r \in Report : Lapse(r)
  \/ \E w \in Worker : ReadExpired(w)
  \/ \E w \in Worker : \E seen \in scan[w] : Recover(w, seen)
  \/ \E w \in Worker, r \in Report : Claim(w, r)
  \/ \E w \in Worker : Begin(w)
  \/ \E w \in Worker : Finish(w)
  \/ \E w \in Worker : Fail(w)
  \/ \E w \in Worker : Crash(w)

Spec == Init /\ [][Next]_vars

-----------------------------------------------------------------------------
(***************************************************************************)
(* Properties.                                                             *)
(***************************************************************************)
BatchStatus == {"none", "preparing", "confirmed", "awaiting_review", "approved", "delivered", "cancelled"}
ReportStatus == {"none", "queued", "running", "completed", "failed", "cancelled"}
JobStatus == {"none", "queued", "running", "completed", "failed", "dead_letter", "cancelled"}

TypeOK ==
  /\ tenant \in {"active", "suspended", "offboarding"}
  /\ granted \in 0..MaxUnits
  /\ unit \in [Batch -> {"none", "reserved", "consumed", "released"}]
  /\ batch \in [Batch -> [status : BatchStatus, content : 0..MaxContent, approval : 0..MaxReviews]]
  /\ reviews \in [Batch -> 0..MaxReviews]
  /\ report \in [Report -> [status : ReportStatus, approval : 0..MaxReviews, content : 0..MaxContent,
                            version : Nat, output : Nat]]
  /\ job \in [Report -> [status : JobStatus, token : Nat, lease : BOOLEAN, attempts : 0..RetryLimit]]
  /\ retries \in [Report -> 0..MaxRetries]
  /\ published \subseteq Report
  /\ claims \in Nat
  /\ scan \in [Worker -> SUBSET [report : Report, token : Nat]]
  /\ mine \in [Worker -> [report : Report, token : Nat, making : BOOLEAN] \cup {NoClaim}]

(* A batch has spent a unit exactly when a report of it was published,     *)
(* whatever was reopened, corrected or offboarded afterwards               *)
(* (docs/requirements-traceability.md:53), and a unit comes back only      *)
(* from a cancelled batch.                                                 *)
UnitFollowsBatch ==
  \A b \in Batch :
    /\ unit[b] = "consumed" <=> Publications(b) # {}
    /\ unit[b] = "released" => batch[b].status = "cancelled"
    /\ batch[b].status = "cancelled" => unit[b] # "reserved"

\* The units reserved and consumed by batches never exceed those granted.
UnitsNotOversold == Cardinality(InUse) <= granted

(* The units of a project are accounted for: spent on deliveries, freed    *)
(* by cancellation, and never promised twice (entitlements.py:14-39).      *)
UnitsAccounted == UnitFollowsBatch /\ UnitsNotOversold

(* What staff see of a report agrees with its job: they can publish it     *)
(* exactly when a worker completed it, and a report shown as running has   *)
(* a claim, although a retry by hand resets only the job.                  *)
ReportFollowsJob ==
  \A r \in Report :
    /\ report[r].status = "completed" <=> job[r].status = "completed"
    /\ report[r].status = "running" => job[r].status = "running"
    /\ report[r].status = "cancelled" => job[r].status = "cancelled"
    /\ job[r].status \in {"failed", "dead_letter"} => report[r].status = "failed"

(* A completed report keeps its files: no worker with an old claim on the  *)
(* report or an old reading of it completes, fails or queues it again.     *)
CompletedStays ==
  [][\A r \in Report : report[r].status = "completed" => report'[r] = report[r]]_vars

(* No worker writes to the files of a completed report, however late it    *)
(* is: each attempt has a directory of its own.                            *)
FilesStay ==
  \A r \in Report, w \in Worker :
    report[r].status = "completed" /\ mine[w].report = r /\ mine[w].making =>
      Directory(mine[w]) # report[r].output

(* A report that was completed is final: neither its row nor its files     *)
(* change under workers that lost their claim (worker.py:210-277).         *)
CompletedIsFinal == CompletedStays /\ []FilesStay

(* The worker loop takes every queued job in turn, looks for expired       *)
(* claims, and ends what it holds, if only by crashing.  A lease that no   *)
(* worker renews ends; no worker crashes for ever between reading an       *)
(* expired claim and recovering it.                                        *)
Fairness ==
  /\ \A r \in Report :
       /\ WF_vars(Lapse(r) /\ ~Held(r))
       /\ SF_vars(\E w \in Worker : Claim(w, r))
  /\ \A w \in Worker :
       /\ SF_vars(ReadExpired(w))
       /\ WF_vars(Begin(w) \/ Finish(w) \/ Fail(w) \/ Crash(w))
       /\ SF_vars(\E seen \in scan[w] : Recover(w, seen))

FairSpec == Spec /\ Fairness

(* A report that was requested is completed, failed or cancelled in the    *)
(* end, even if every worker that claims it crashes or its tenant is       *)
(* suspended meanwhile; only staff can start it again.                     *)
ReportsEnd ==
  \A r \in Report :
    job[r].status = "queued" ~> job[r].status \in {"completed", "failed", "dead_letter", "cancelled"}
=============================================================================
