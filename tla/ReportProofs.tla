---------------------------- MODULE ReportProofs ----------------------------
(***************************************************************************)
(* Theorems about report delivery, for any number of batches, reports,     *)
(* workers, claims and corrections.                                        *)
(***************************************************************************)
EXTENDS DeliveryRegister, FiniteSetTheorems, TLAPS

BatchRow == [status : BatchStatus, content : 0..MaxContent, approval : 0..MaxReviews]

ReportRow ==
  [status : ReportStatus, approval : 0..MaxReviews, content : 0..MaxContent, version : Nat, output : Nat]

JobRow == [status : JobStatus, token : Nat, lease : BOOLEAN, attempts : 0..RetryLimit]

Reading == [report : Report, token : Nat]
Holding == [report : Report, token : Nat, making : BOOLEAN]

UnitStatus == {"none", "reserved", "consumed", "released"}

LEMMA TypeParts ==
  TypeOK <=> /\ tenant \in {"active", "suspended", "offboarding"}
             /\ granted \in 0..MaxUnits
             /\ unit \in [Batch -> UnitStatus]
             /\ batch \in [Batch -> BatchRow]
             /\ reviews \in [Batch -> 0..MaxReviews]
             /\ report \in [Report -> ReportRow]
             /\ job \in [Report -> JobRow]
             /\ retries \in [Report -> 0..MaxRetries]
             /\ published \subseteq Report
             /\ claims \in Nat
             /\ scan \in [Worker -> SUBSET Reading]
             /\ mine \in [Worker -> Holding \cup {NoClaim}]
BY DEF TypeOK, UnitStatus, BatchRow, ReportRow, JobRow, Reading, Holding

LEMMA TypePartsNext ==
  ASSUME tenant' \in {"active", "suspended", "offboarding"}, granted' \in 0..MaxUnits,
         unit' \in [Batch -> UnitStatus], batch' \in [Batch -> BatchRow],
         reviews' \in [Batch -> 0..MaxReviews], report' \in [Report -> ReportRow],
         job' \in [Report -> JobRow], retries' \in [Report -> 0..MaxRetries], published' \subseteq Report,
         claims' \in Nat, scan' \in [Worker -> SUBSET Reading], mine' \in [Worker -> Holding \cup {NoClaim}]
  PROVE  TypeOK'
BY DEF TypeOK, UnitStatus, BatchRow, ReportRow, JobRow, Reading, Holding

-----------------------------------------------------------------------------
(***************************************************************************)
(* Types.  Each shared step keeps the rows it writes well typed.           *)
(***************************************************************************)
LEMMA SetBatchType ==
  ASSUME batch \in [Batch -> BatchRow], NEW b \in Batch, NEW status \in BatchStatus,
         NEW approval \in 0..MaxReviews, SetBatch(b, status, approval)
  PROVE  /\ batch' \in [Batch -> BatchRow]
         /\ batch'[b].status = status /\ batch'[b].content = batch[b].content /\ batch'[b].approval = approval
         /\ \A c \in Batch : c # b => batch'[c] = batch[c]
<1> DEFINE row == [status |-> status, content |-> batch[b].content, approval |-> approval]
<1>1. row \in BatchRow /\ row.status = status /\ row.content = batch[b].content /\ row.approval = approval
  BY DEF BatchRow
<1>2. batch' = [batch EXCEPT ![b] = row]
  BY DEF SetBatch
<1> HIDE DEF row
<1> QED
  BY <1>1, <1>2

LEMMA EndedType ==
  ASSUME job \in [Report -> JobRow], NEW r \in Report, NEW status \in JobStatus
  PROVE  /\ Ended(r, status) \in [Report -> JobRow]
         /\ Ended(r, status)[r].status = status
         /\ \A s \in Report : s # r => Ended(r, status)[s] = job[s]
<1> DEFINE row == Unclaimed(status, job[r].attempts)
<1>1. row \in JobRow /\ row.status = status
  BY DEF Unclaimed, JobRow, NoToken
<1>2. Ended(r, status) = [job EXCEPT ![r] = row]
  BY DEF Ended
<1> HIDE DEF row
<1> QED
  BY <1>1, <1>2

LEMMA SetReportType ==
  ASSUME report \in [Report -> ReportRow], NEW r \in Report, NEW status \in ReportStatus, SetReport(r, status)
  PROVE  /\ report' \in [Report -> ReportRow]
         /\ report'[r].status = status
         /\ report'[r].approval = report[r].approval /\ report'[r].content = report[r].content
         /\ report'[r].version = report[r].version /\ report'[r].output = report[r].output
         /\ \A s \in Report : s # r => report'[s] = report[s]
<1> DEFINE row == [report[r] EXCEPT !.status = status]
<1>1. report[r] \in ReportRow
  OBVIOUS
<1>2. /\ row \in ReportRow /\ row.status = status
      /\ row.approval = report[r].approval /\ row.content = report[r].content
      /\ row.version = report[r].version /\ row.output = report[r].output
  BY <1>1 DEF ReportRow
<1>3. report' = [report EXCEPT ![r] = row]
  BY DEF SetReport
<1> HIDE DEF row
<1> QED
  BY <1>2, <1>3

(* Completing a report: status and files.                                  *)
LEMMA CompletedType ==
  ASSUME report \in [Report -> ReportRow], NEW r \in Report, NEW output \in Nat,
         report' = [report EXCEPT ![r].status = "completed", ![r].output = output]
  PROVE  /\ report' \in [Report -> ReportRow]
         /\ report'[r].status = "completed" /\ report'[r].output = output
         /\ report'[r].approval = report[r].approval /\ report'[r].content = report[r].content
         /\ report'[r].version = report[r].version
         /\ \A s \in Report : s # r => report'[s] = report[s]
<1> DEFINE first == [report[r] EXCEPT !.status = "completed"]
<1> DEFINE row == [first EXCEPT !.output = output]
<1>1. report[r] \in ReportRow
  OBVIOUS
<1>2. /\ first \in ReportRow /\ first.status = "completed"
      /\ first.approval = report[r].approval /\ first.content = report[r].content
      /\ first.version = report[r].version
  BY <1>1 DEF ReportRow, ReportStatus
<1>3. report' = [report EXCEPT ![r] = row]
  OBVIOUS
<1> HIDE DEF first
<1>4. /\ row \in ReportRow /\ row.status = "completed" /\ row.output = output
      /\ row.approval = report[r].approval /\ row.content = report[r].content
      /\ row.version = report[r].version
  BY <1>2 DEF ReportRow
<1> HIDE DEF row
<1> QED
  BY <1>3, <1>4

LEMMA UnclaimedType ==
  ASSUME NEW status \in JobStatus, NEW attempts \in 0..RetryLimit
  PROVE  Unclaimed(status, attempts) \in JobRow
BY DEF Unclaimed, JobRow, NoToken

LEMMA InitType == Init => TypeOK
<1> SUFFICES ASSUME Init PROVE TypeOK
  OBVIOUS
<1>1. NoJob \in JobRow
  BY UnclaimedType DEF NoJob, JobStatus, RetryLimit
<1>2. NoReport \in ReportRow
  BY DeliveryConstants DEF NoReport, ReportRow, ReportStatus, NoToken
<1>3. batch \in [Batch -> BatchRow]
  BY DeliveryConstants DEF Init, BatchRow, BatchStatus
<1>4. /\ granted \in 0..MaxUnits /\ reviews \in [Batch -> 0..MaxReviews] /\ claims \in Nat
      /\ retries \in [Report -> 0..MaxRetries] /\ unit \in [Batch -> UnitStatus]
  BY DeliveryConstants DEF Init, UnitStatus
<1>5. report \in [Report -> ReportRow] /\ job \in [Report -> JobRow]
  BY <1>1, <1>2 DEF Init
<1> QED
  BY <1>3, <1>4, <1>5, TypeParts DEF Init

(* Requests and the platform leave reports' jobs and workers alone.        *)
LEMMA StaffType ==
  ASSUME TypeOK, tenant' \in {"active", "suspended", "offboarding"}, granted' \in 0..MaxUnits,
         unit' \in [Batch -> UnitStatus], batch' \in [Batch -> BatchRow], reviews' \in [Batch -> 0..MaxReviews],
         retries' \in [Report -> 0..MaxRetries], published' \subseteq Report, UNCHANGED <<jobs, workers>>
  PROVE  TypeOK'
<1>1. /\ report' \in [Report -> ReportRow] /\ job' \in [Report -> JobRow] /\ claims' \in Nat
      /\ scan' \in [Worker -> SUBSET Reading] /\ mine' \in [Worker -> Holding \cup {NoClaim}]
  BY TypeParts DEF jobs, workers
<1> QED
  BY ONLY <1>1, TypePartsNext, tenant' \in {"active", "suspended", "offboarding"}, granted' \in 0..MaxUnits,
     unit' \in [Batch -> UnitStatus], batch' \in [Batch -> BatchRow], reviews' \in [Batch -> 0..MaxReviews],
     retries' \in [Report -> 0..MaxRetries], published' \subseteq Report

(* Workers leave batches, units and publications alone.                    *)
LEMMA WorkerType ==
  ASSUME TypeOK, report' \in [Report -> ReportRow], job' \in [Report -> JobRow], claims' \in Nat,
         scan' \in [Worker -> SUBSET Reading], mine' \in [Worker -> Holding \cup {NoClaim}], UNCHANGED staff
  PROVE  TypeOK'
<1>1. /\ tenant' \in {"active", "suspended", "offboarding"} /\ granted' \in 0..MaxUnits
      /\ unit' \in [Batch -> UnitStatus] /\ batch' \in [Batch -> BatchRow]
      /\ reviews' \in [Batch -> 0..MaxReviews]
      /\ retries' \in [Report -> 0..MaxRetries] /\ published' \subseteq Report
  BY TypeParts DEF staff
<1> QED
  BY ONLY <1>1, TypePartsNext, report' \in [Report -> ReportRow], job' \in [Report -> JobRow], claims' \in Nat,
     scan' \in [Worker -> SUBSET Reading], mine' \in [Worker -> Holding \cup {NoClaim}]

LEMMA GrantUnitType == TypeOK /\ GrantUnit => TypeOK'
<1> SUFFICES ASSUME TypeOK, GrantUnit PROVE TypeOK'
  OBVIOUS
<1>1. granted' \in 0..MaxUnits
  BY TypeParts, DeliveryConstants DEF GrantUnit
<1> QED
  BY <1>1, TypeParts, StaffType DEF GrantUnit

(* A step that writes the row of one batch, and perhaps its unit, its      *)
(* count of approvals or a publication.                                    *)
LEMMA BatchWriteType ==
  ASSUME TypeOK, NEW b \in Batch, NEW status \in BatchStatus, NEW approval \in 0..MaxReviews,
         SetBatch(b, status, approval), unit' \in [Batch -> UnitStatus], reviews' \in [Batch -> 0..MaxReviews],
         published' \subseteq Report, UNCHANGED <<tenant, granted, retries, jobs, workers>>
  PROVE  TypeOK'
<1>1. batch' \in [Batch -> BatchRow]
  BY TypeParts, SetBatchType
<1>2. /\ tenant' \in {"active", "suspended", "offboarding"} /\ granted' \in 0..MaxUnits
      /\ retries' \in [Report -> 0..MaxRetries]
  BY TypeParts
<1> QED
  BY <1>1, <1>2, StaffType

LEMMA ApprovalType ==
  ASSUME TypeOK, NEW b \in Batch
  PROVE  batch[b].approval \in 0..MaxReviews /\ batch[b].content \in 0..MaxContent /\ batch[b].status \in BatchStatus
BY TypeParts DEF BatchRow

LEMMA BatchStepType ==
  ASSUME TypeOK, NEW b \in Batch,
         \/ CreateBatch(b) \/ ScheduleBatch(b) \/ CommitImport(b) \/ SubmitReview(b)
         \/ Approve(b) \/ Reject(b) \/ ReopenBatch(b) \/ CancelBatch(b)
  PROVE  TypeOK'
<1> USE DEF BatchStatus
<1>0. /\ 0 \in 0..MaxReviews /\ batch[b].approval \in 0..MaxReviews
      /\ unit \in [Batch -> UnitStatus] /\ reviews \in [Batch -> 0..MaxReviews] /\ published \subseteq Report
  BY DeliveryConstants, TypeParts, ApprovalType
<1>1. CASE CreateBatch(b)
  <2>1. unit' \in [Batch -> UnitStatus] /\ UNCHANGED <<reviews, published>>
    BY <1>0, <1>1 DEF CreateBatch, UnitStatus
  <2> QED
    BY <1>0, <1>1, <2>1, BatchWriteType DEF CreateBatch
<1>2. CASE ScheduleBatch(b)
  BY <1>0, <1>2, BatchWriteType DEF ScheduleBatch
<1>3. CASE CommitImport(b)
  <2> DEFINE row == [status |-> "awaiting_review", content |-> batch[b].content + 1, approval |-> 0]
  <2>1. row \in BatchRow
    BY <1>0, <1>3, ApprovalType, DeliveryConstants DEF CommitImport, BatchRow
  <2>2. batch' = [batch EXCEPT ![b] = row]
    BY <1>3 DEF CommitImport
  <2> HIDE DEF row
  <2>3. batch' \in [Batch -> BatchRow]
    BY <2>1, <2>2, TypeParts
  <2> QED
    BY <1>3, <2>3, TypeParts, StaffType DEF CommitImport
<1>4. CASE SubmitReview(b)
  BY <1>0, <1>4, BatchWriteType DEF SubmitReview
<1>5. CASE Approve(b)
  <2>1. reviews[b] + 1 \in 0..MaxReviews
    BY <1>0, <1>5, DeliveryConstants DEF Approve
  <2>2. reviews' \in [Batch -> 0..MaxReviews]
    BY <1>0, <1>5, <2>1 DEF Approve
  <2>3. SetBatch(b, "approved", reviews[b] + 1) /\ UNCHANGED <<tenant, granted, unit, retries, published, jobs, workers>>
    BY <1>5 DEF Approve
  <2> QED
    BY <1>0, <2>1, <2>2, <2>3, BatchWriteType
<1>6. CASE Reject(b)
  BY <1>0, <1>6, BatchWriteType DEF Reject
<1>7. CASE ReopenBatch(b)
  BY <1>0, <1>7, BatchWriteType DEF ReopenBatch
<1>8. CASE CancelBatch(b)
  <2>1. unit' \in [Batch -> UnitStatus]
    BY <1>0, <1>8 DEF CancelBatch, ReleaseUnit, UnitStatus
  <2> QED
    BY <1>0, <1>8, <2>1, BatchWriteType DEF CancelBatch
<1> QED
  BY <1>1, <1>2, <1>3, <1>4, <1>5, <1>6, <1>7, <1>8

(* The snapshots of a batch can be counted.                                *)
LEMMA SnapshotsFinite ==
  ASSUME NEW b \in Batch
  PROVE  IsFiniteSet(Snapshots(b)) /\ Cardinality(Snapshots(b)) \in Nat
<1>1. Snapshots(b) \subseteq Report
  BY DEF Snapshots, Reports
<1> QED
  BY <1>1, DeliveryConstants, FS_Subset, FS_CardinalityType

LEMMA ReportStepType ==
  ASSUME TypeOK, NEW r \in Report,
         \/ CreateReport(r) \/ RetryJob(r) \/ Publish(r)
  PROVE  TypeOK'
<1> DEFINE b == BatchOf[r]
<1>0. /\ b \in Batch /\ unit \in [Batch -> UnitStatus] /\ published \subseteq Report
      /\ report \in [Report -> ReportRow] /\ job \in [Report -> JobRow] /\ reviews \in [Batch -> 0..MaxReviews]
      /\ retries \in [Report -> 0..MaxRetries] /\ claims \in Nat
      /\ scan \in [Worker -> SUBSET Reading] /\ mine \in [Worker -> Holding \cup {NoClaim}]
  BY DeliveryConstants, TypeParts
<1>1. Unclaimed("queued", 0) \in JobRow
  BY UnclaimedType DEF JobStatus, RetryLimit
<1> HIDE DEF b
<1>2. CASE CreateReport(r)
  <2> DEFINE row == [status |-> "queued", approval |-> batch[b].approval, content |-> batch[b].content,
                     version |-> Cardinality(Snapshots(b)) + 1, output |-> NoToken]
  <2>1. row \in ReportRow
    BY <1>0, ApprovalType, SnapshotsFinite DEF ReportRow, ReportStatus, NoToken
  <2>2. report' = [report EXCEPT ![r] = row] /\ job' = [job EXCEPT ![r] = Unclaimed("queued", 0)]
    BY <1>2 DEF CreateReport, b
  <2> HIDE DEF row
  <2>3. report' \in [Report -> ReportRow] /\ job' \in [Report -> JobRow]
    BY <1>0, <1>1, <2>1, <2>2
  <2>4. UNCHANGED <<staff, claims, workers>>
    BY <1>2 DEF CreateReport
  <2> QED
    BY <1>0, <2>3, <2>4, WorkerType DEF workers
<1>3. CASE RetryJob(r)
  <2>1. retries' = [retries EXCEPT ![r] = retries[r] + 1] /\ retries[r] < MaxRetries
        /\ job' = [job EXCEPT ![r] = Unclaimed("queued", 0)]
        /\ UNCHANGED <<tenant, granted, unit, batch, reviews, published, report, claims, workers>>
    BY <1>3 DEF RetryJob
  <2>2. retries' \in [Report -> 0..MaxRetries] /\ job' \in [Report -> JobRow]
    BY <1>0, <1>1, <2>1, DeliveryConstants
  <2> QED
    BY <1>0, <2>1, <2>2, TypeParts, TypePartsNext DEF workers
<1>4. CASE Publish(r)
  <2>1. /\ ConsumeUnit(b) /\ SetBatch(b, "delivered", batch[b].approval) /\ published' = published \cup {r}
        /\ UNCHANGED <<tenant, granted, reviews, retries, jobs, workers>>
    BY <1>4 DEF Publish, b
  <2>2. unit' \in [Batch -> UnitStatus] /\ published' \subseteq Report /\ reviews' \in [Batch -> 0..MaxReviews]
    BY <1>0, <2>1 DEF ConsumeUnit, UnitStatus
  <2>3. batch[b].approval \in 0..MaxReviews /\ "delivered" \in BatchStatus
    BY <1>0, ApprovalType DEF BatchStatus
  <2> QED
    BY ONLY <1>0, <2>1, <2>2, <2>3, BatchWriteType, TypeOK
<1> QED
  BY <1>2, <1>3, <1>4

LEMMA PlatformStepType ==
  ASSUME TypeOK, Offboard \/ \E status \in {"active", "suspended"} : SetStatus(status)
  PROVE  TypeOK'
<1>0. /\ granted \in 0..MaxUnits /\ unit \in [Batch -> UnitStatus] /\ published \subseteq Report
      /\ batch \in [Batch -> BatchRow]
      /\ report \in [Report -> ReportRow] /\ job \in [Report -> JobRow] /\ reviews \in [Batch -> 0..MaxReviews]
      /\ retries \in [Report -> 0..MaxRetries] /\ claims \in Nat
      /\ scan \in [Worker -> SUBSET Reading] /\ mine \in [Worker -> Holding \cup {NoClaim}]
  BY TypeParts
<1>1. CASE Offboard
  <2>1. unit' \in [Batch -> UnitStatus]
    BY <1>0, <1>1 DEF Offboard, AfterLeaving, UnitStatus
  <2>2. \A b \in Batch : [batch[b] EXCEPT !.status = "cancelled"] \in BatchRow
    BY <1>0 DEF BatchRow, BatchStatus
  <2>3. batch' \in [Batch -> BatchRow]
    BY <1>0, <1>1, <2>2 DEF Offboard
  <2>4. \A r \in Report : Unclaimed("cancelled", job[r].attempts) \in JobRow
    <3> TAKE r \in Report
    <3>1. job[r].attempts \in 0..RetryLimit
      BY <1>0 DEF JobRow
    <3> QED
      BY <3>1, UnclaimedType DEF JobStatus
  <2>5. job' \in [Report -> JobRow]
    BY <1>0, <1>1, <2>4 DEF Offboard
  <2>6. tenant' = "offboarding" /\ UNCHANGED <<granted, reviews, retries, published, report, claims, workers>>
    BY <1>1 DEF Offboard
  <2> QED
    BY <1>0, <2>1, <2>3, <2>5, <2>6, TypePartsNext DEF workers
<1>2. CASE \E status \in {"active", "suspended"} : SetStatus(status)
  BY <1>0, <1>2, StaffType DEF SetStatus
<1> QED
  BY <1>1, <1>2

(* The claim a worker holds, when it holds one.                            *)
LEMMA HoldingType ==
  ASSUME TypeOK, NEW w \in Worker, mine[w] # NoClaim
  PROVE  mine[w] \in Holding /\ mine[w].report \in Report /\ mine[w].token \in Nat
BY TypeParts DEF Holding

LEMMA DropType ==
  ASSUME TypeOK, NEW w \in Worker, Drop(w)
  PROVE  /\ mine' \in [Worker -> Holding \cup {NoClaim}] /\ mine'[w] = NoClaim
         /\ \A v \in Worker : v # w => mine'[v] = mine[v]
BY TypeParts DEF Drop

(* A job that ends, or is queued again, keeps its count of attempts.       *)
LEMMA EndsType ==
  ASSUME TypeOK, NEW r \in Report, NEW status \in JobStatus, job' = Ended(r, status)
  PROVE  job' \in [Report -> JobRow]
BY TypeParts, EndedType

LEMMA StatusType ==
  ASSUME TypeOK, NEW r \in Report, NEW status \in ReportStatus, SetReport(r, status)
  PROVE  report' \in [Report -> ReportRow]
BY TypeParts, SetReportType

LEMMA ClaimType ==
  ASSUME TypeOK, NEW w \in Worker, NEW r \in Report, Claim(w, r)
  PROVE  TypeOK'
<1> USE DEF JobStatus, ReportStatus
<1>0. /\ report \in [Report -> ReportRow] /\ job \in [Report -> JobRow] /\ claims \in Nat
      /\ scan \in [Worker -> SUBSET Reading] /\ mine \in [Worker -> Holding \cup {NoClaim}]
  BY TypeParts
<1>1. UNCHANGED <<staff, scan>>
  BY DEF Claim
<1>2. CASE tenant # "active"
  <2>1. report' \in [Report -> ReportRow] /\ job' \in [Report -> JobRow] /\ UNCHANGED <<claims, mine>>
    BY <1>2, EndsType, StatusType DEF Claim
  <2> QED
    BY <1>0, <1>1, <2>1, WorkerType
<1>3. CASE tenant = "active" /\ ~TriesLeft(r)
  <2>1. report' \in [Report -> ReportRow] /\ job' \in [Report -> JobRow] /\ UNCHANGED <<claims, mine>>
    BY <1>3, EndsType, StatusType DEF Claim
  <2> QED
    BY <1>0, <1>1, <2>1, WorkerType
<1>4. CASE tenant = "active" /\ TriesLeft(r)
  <2> DEFINE row == [status |-> "running", token |-> claims + 1, lease |-> TRUE, attempts |-> job[r].attempts + 1]
  <2> DEFINE hold == [report |-> r, token |-> claims + 1, making |-> FALSE]
  <2>1. job[r].attempts \in 0..RetryLimit /\ job[r].attempts < RetryLimit
    BY <1>0, <1>4 DEF JobRow, TriesLeft
  <2>2. row \in JobRow /\ hold \in Holding /\ claims + 1 \in Nat
    BY <1>0, <2>1 DEF JobRow, Holding, RetryLimit
  <2>3. /\ job' = [job EXCEPT ![r] = row] /\ mine' = [mine EXCEPT ![w] = hold]
        /\ claims' = claims + 1 /\ UNCHANGED report
    BY <1>4 DEF Claim
  <2> HIDE DEF row, hold
  <2>4. job' \in [Report -> JobRow] /\ mine' \in [Worker -> Holding \cup {NoClaim}]
    BY <1>0, <2>2, <2>3
  <2> QED
    BY <1>0, <1>1, <2>2, <2>3, <2>4, WorkerType
<1> QED
  BY <1>2, <1>3, <1>4

LEMMA HeldStepType ==
  ASSUME TypeOK, NEW w \in Worker,
         Begin(w) \/ Finish(w) \/ Fail(w) \/ Crash(w)
  PROVE  TypeOK'
<1> USE DEF JobStatus, ReportStatus
<1> DEFINE r == mine[w].report
<1>0. /\ report \in [Report -> ReportRow] /\ job \in [Report -> JobRow] /\ claims \in Nat
      /\ scan \in [Worker -> SUBSET Reading] /\ mine \in [Worker -> Holding \cup {NoClaim}]
  BY TypeParts
<1>1. CASE Begin(w)
  <2>0. r \in Report /\ mine[w] \in Holding
    BY <1>1, HoldingType DEF Begin
  <2>1. UNCHANGED <<staff, job, claims, scan>>
    BY <1>1 DEF Begin
  <2>2. CASE Current(mine[w])
    <3>1. SetReport(r, "running") /\ mine' = [mine EXCEPT ![w].making = TRUE]
      BY <1>1, <2>2 DEF Begin
    <3>2. [mine[w] EXCEPT !.making = TRUE] \in Holding
      BY <2>0 DEF Holding
    <3>3. mine' \in [Worker -> Holding \cup {NoClaim}]
      BY <1>0, <3>1, <3>2
    <3>4. report' \in [Report -> ReportRow]
      BY <2>0, <3>1, StatusType
    <3> QED
      BY <1>0, <2>1, <3>3, <3>4, WorkerType
  <2>3. CASE ~Current(mine[w])
    <3>1. Drop(w) /\ UNCHANGED report
      BY <1>1, <2>3 DEF Begin
    <3> QED
      BY <1>0, <2>1, <3>1, DropType, WorkerType
  <2> QED
    BY <2>2, <2>3
<1>2. CASE Finish(w)
  <2>0. r \in Report /\ mine[w].token \in Nat
    BY <1>2, HoldingType DEF Finish
  <2>1. UNCHANGED <<staff, claims, scan>> /\ Drop(w)
    BY <1>2 DEF Finish
  <2>2. CASE Current(mine[w])
    <3>1. /\ job' = Ended(r, "completed")
          /\ report' = [report EXCEPT ![r].status = "completed", ![r].output = mine[w].token]
      BY <1>2, <2>2 DEF Finish, Directory
    <3>2. job' \in [Report -> JobRow]
      BY <2>0, <3>1, EndsType
    <3> HIDE DEF r
    <3>3. report' \in [Report -> ReportRow]
      BY ONLY <1>0, <2>0, <3>1, CompletedType
    <3> QED
      BY <1>0, <2>1, <3>2, <3>3, DropType, WorkerType
  <2>3. CASE ~Current(mine[w])
    BY <1>0, <1>2, <2>1, <2>3, DropType, WorkerType DEF Finish
  <2> QED
    BY <2>2, <2>3
<1>3. CASE Fail(w)
  <2>0. r \in Report
    BY <1>3, HoldingType DEF Fail
  <2>1. UNCHANGED <<staff, claims, scan>> /\ Drop(w)
    BY <1>3 DEF Fail
  <2>2. CASE Current(mine[w])
    <3>1. job' = Ended(r, "failed") /\ SetReport(r, "failed")
      BY <1>3, <2>2 DEF Fail
    <3>2. job' \in [Report -> JobRow] /\ report' \in [Report -> ReportRow]
      BY <2>0, <3>1, EndsType, StatusType
    <3> QED
      BY <1>0, <2>1, <3>2, DropType, WorkerType
  <2>3. CASE ~Current(mine[w])
    BY <1>0, <1>3, <2>1, <2>3, DropType, WorkerType DEF Fail
  <2> QED
    BY <2>2, <2>3
<1>4. CASE Crash(w)
  <2>1. scan' \in [Worker -> SUBSET Reading]
    BY <1>0, <1>4 DEF Crash
  <2>2. Drop(w) /\ UNCHANGED <<staff, jobs>>
    BY <1>4 DEF Crash
  <2> QED
    BY <1>0, <2>1, <2>2, DropType, WorkerType DEF jobs
<1> QED
  BY <1>1, <1>2, <1>3, <1>4

LEMMA ExpiryStepType ==
  ASSUME TypeOK,
         \/ \E r \in Report : Lapse(r)
         \/ \E w \in Worker : ReadExpired(w)
         \/ \E w \in Worker : \E seen \in scan[w] : Recover(w, seen)
  PROVE  TypeOK'
<1>0. /\ report \in [Report -> ReportRow] /\ job \in [Report -> JobRow] /\ claims \in Nat
      /\ scan \in [Worker -> SUBSET Reading] /\ mine \in [Worker -> Holding \cup {NoClaim}]
  BY TypeParts
<1>1. ASSUME NEW r \in Report, Lapse(r) PROVE TypeOK'
  <2>1. [job[r] EXCEPT !.lease = FALSE] \in JobRow
    BY <1>0 DEF JobRow
  <2>2. job' \in [Report -> JobRow]
    BY <1>0, <1>1, <2>1 DEF Lapse
  <2>3. UNCHANGED <<staff, report, claims, workers>>
    BY <1>1 DEF Lapse
  <2> QED
    BY <1>0, <2>2, <2>3, WorkerType DEF workers
<1>2. ASSUME NEW w \in Worker, ReadExpired(w) PROVE TypeOK'
  <2>1. \A r \in Report : [report |-> r, token |-> job[r].token] \in Reading
    BY <1>0 DEF Reading, JobRow
  <2>2. {[report |-> r, token |-> job[r].token] : r \in {x \in Report : Expired(x)}} \in SUBSET Reading
    BY <2>1
  <2>3. scan' \in [Worker -> SUBSET Reading]
    BY <1>0, <1>2, <2>2 DEF ReadExpired
  <2>4. UNCHANGED <<staff, jobs, mine>>
    BY <1>2 DEF ReadExpired
  <2> QED
    BY <1>0, <2>3, <2>4, WorkerType DEF jobs
<1>3. ASSUME NEW w \in Worker, NEW seen \in scan[w], Recover(w, seen) PROVE TypeOK'
  <2>1. seen.report \in Report
    BY <1>0 DEF Reading
  <2>2. scan' \in [Worker -> SUBSET Reading]
    BY <1>0, <1>3 DEF Recover
  <2>3. UNCHANGED <<staff, claims, mine>>
    BY <1>3 DEF Recover
  <2>4. CASE StillExpired(seen)
    <3>1. job' = Ended(seen.report, "queued") /\ SetReport(seen.report, "queued")
      BY <1>3, <2>4 DEF Recover, Requeue
    <3>2. job' \in [Report -> JobRow] /\ report' \in [Report -> ReportRow]
      BY <2>1, <3>1, EndsType, StatusType DEF JobStatus, ReportStatus
    <3> QED
      BY <1>0, <2>2, <2>3, <3>2, WorkerType
  <2>5. CASE ~StillExpired(seen)
    BY <1>0, <1>3, <2>2, <2>3, <2>5, WorkerType DEF Recover
  <2> QED
    BY <2>4, <2>5
<1> QED
  BY <1>1, <1>2, <1>3

LEMMA TypeStep == TypeOK /\ [Next]_vars => TypeOK'
<1> SUFFICES ASSUME TypeOK, [Next]_vars PROVE TypeOK'
  OBVIOUS
<1>1. CASE GrantUnit
  BY <1>1, GrantUnitType
<1>2. CASE \E b \in Batch : \/ CreateBatch(b) \/ ScheduleBatch(b) \/ CommitImport(b) \/ SubmitReview(b)
                            \/ Approve(b) \/ Reject(b) \/ ReopenBatch(b) \/ CancelBatch(b)
  BY <1>2, BatchStepType
<1>3. CASE \E r \in Report : CreateReport(r) \/ RetryJob(r) \/ Publish(r)
  BY <1>3, ReportStepType
<1>4. CASE Offboard \/ \E status \in {"active", "suspended"} : SetStatus(status)
  BY <1>4, PlatformStepType
<1>5. CASE \/ \E r \in Report : Lapse(r)
           \/ \E w \in Worker : ReadExpired(w)
           \/ \E w \in Worker : \E seen \in scan[w] : Recover(w, seen)
  BY <1>5, ExpiryStepType
<1>6. CASE \E w \in Worker, r \in Report : Claim(w, r)
  BY <1>6, ClaimType
<1>7. CASE \E w \in Worker : Begin(w) \/ Finish(w) \/ Fail(w) \/ Crash(w)
  BY <1>7, HeldStepType
<1>8. CASE UNCHANGED vars
  BY <1>8 DEF vars, TypeOK
<1> QED
  BY <1>1, <1>2, <1>3, <1>4, <1>5, <1>6, <1>7, <1>8 DEF Next

(* Every variable keeps its type; in particular no job is ever claimed     *)
(* more often than the limit of tries, however often claims expire.        *)
THEOREM DeliveryTypeCorrect == Spec => []TypeOK
<1> QED
  BY InitType, TypeStep, PTL DEF Spec

-----------------------------------------------------------------------------
(***************************************************************************)
(* Reports and their jobs.  A step changes one report and its job, both or *)
(* neither of which end.                                                   *)
(***************************************************************************)
Follows(reportStatus, jobStatus) ==
  /\ reportStatus = "completed" <=> jobStatus = "completed"
  /\ reportStatus = "running" => jobStatus = "running"
  /\ reportStatus = "cancelled" => jobStatus = "cancelled"
  /\ jobStatus \in {"failed", "dead_letter"} => reportStatus = "failed"

LEMMA FollowsParts == ReportFollowsJob <=> \A r \in Report : Follows(report[r].status, job[r].status)
BY DEF ReportFollowsJob, Follows

LEMMA FollowsPartsNext == (\A r \in Report : Follows(report'[r].status, job'[r].status)) => ReportFollowsJob'
BY DEF ReportFollowsJob, Follows

(* A job and its report that are set to agreeing statuses.                 *)
LEMMA BothSet ==
  ASSUME TypeOK, ReportFollowsJob, NEW r \in Report, NEW reportStatus \in ReportStatus, NEW jobStatus \in JobStatus,
         SetReport(r, reportStatus), job' = Ended(r, jobStatus), Follows(reportStatus, jobStatus)
  PROVE  ReportFollowsJob'
<1>1. report'[r].status = reportStatus /\ \A s \in Report : s # r => report'[s] = report[s]
  BY TypeParts, SetReportType
<1>2. job'[r].status = jobStatus /\ \A s \in Report : s # r => job'[s] = job[s]
  BY TypeParts, EndedType
<1> QED
  BY <1>1, <1>2, FollowsParts, FollowsPartsNext

(* Only the job is set.                                                    *)
LEMMA JobSet ==
  ASSUME TypeOK, ReportFollowsJob, UNCHANGED report, NEW r \in Report, job' \in [Report -> JobRow],
         \A s \in Report : s # r => job'[s] = job[s], Follows(report[r].status, job'[r].status)
  PROVE  ReportFollowsJob'
BY FollowsParts, FollowsPartsNext

LEMMA FollowsStep == TypeOK /\ ReportFollowsJob /\ [Next]_vars => ReportFollowsJob'
<1> SUFFICES ASSUME TypeOK, ReportFollowsJob, [Next]_vars PROVE ReportFollowsJob'
  OBVIOUS
<1> USE DEF JobStatus, ReportStatus
<1>0. report \in [Report -> ReportRow] /\ job \in [Report -> JobRow]
  BY TypeParts
<1>1. ASSUME UNCHANGED <<report, job>> PROVE ReportFollowsJob'
  BY <1>1 DEF ReportFollowsJob
<1>2. ASSUME NEW r \in Report, CreateReport(r) PROVE ReportFollowsJob'
  <2>1. /\ report'[r].status = "queued" /\ job'[r].status = "queued"
        /\ \A s \in Report : s # r => report'[s] = report[s] /\ job'[s] = job[s]
    BY <1>0, <1>2 DEF CreateReport, Unclaimed
  <2>2. Follows("queued", "queued")
    BY DEF Follows
  <2> QED
    BY <2>1, <2>2, FollowsParts, FollowsPartsNext
<1>3. ASSUME NEW r \in Report, RetryJob(r) PROVE ReportFollowsJob'
  <2>1. /\ job'[r].status = "queued" /\ \A s \in Report : s # r => job'[s] = job[s]
        /\ job[r].status \in {"failed", "dead_letter"} /\ UNCHANGED report
    BY <1>0, <1>3 DEF RetryJob, Unclaimed
  <2>2. Follows(report[r].status, "queued")
    BY <2>1, FollowsParts DEF Follows
  <2> QED
    BY <2>1, <2>2, FollowsParts, FollowsPartsNext
<1>4. ASSUME Offboard PROVE ReportFollowsJob'
  <2>1. /\ UNCHANGED report
        /\ \A r \in Report : job[r].status = "queued" => job'[r].status = "cancelled"
        /\ \A r \in Report : job[r].status # "queued" => job'[r] = job[r]
    BY <1>4 DEF Offboard, Unclaimed
  <2>2. \A r \in Report : Follows(report[r].status, "queued") => Follows(report[r].status, "cancelled")
    BY DEF Follows
  <2> QED
    BY <2>1, <2>2, FollowsParts, FollowsPartsNext
<1>5. ASSUME NEW r \in Report, Lapse(r) PROVE ReportFollowsJob'
  <2>1. [job[r] EXCEPT !.lease = FALSE].status = job[r].status
    BY <1>0 DEF JobRow
  <2>2. \A s \in Report : job'[s].status = job[s].status
    BY <1>0, <1>5, <2>1 DEF Lapse
  <2> QED
    BY <1>5, <2>2, FollowsParts, FollowsPartsNext DEF Lapse
<1>6. ASSUME NEW w \in Worker, NEW seen \in scan[w], Recover(w, seen) PROVE ReportFollowsJob'
  <2>1. seen.report \in Report
    BY TypeParts DEF Reading
  <2>2. CASE StillExpired(seen)
    <3>1. job' = Ended(seen.report, "queued") /\ SetReport(seen.report, "queued")
      BY <1>6, <2>2 DEF Recover, Requeue
    <3> QED
      BY <2>1, <3>1, BothSet DEF Follows
  <2>3. CASE ~StillExpired(seen)
    BY <1>1, <1>6, <2>3 DEF Recover
  <2> QED
    BY <2>2, <2>3
<1>7. ASSUME NEW w \in Worker, NEW r \in Report, Claim(w, r) PROVE ReportFollowsJob'
  <2>1. CASE tenant # "active"
    BY <1>7, <2>1, BothSet DEF Claim, Follows
  <2>2. CASE tenant = "active" /\ ~TriesLeft(r)
    BY <1>7, <2>2, BothSet DEF Claim, Follows
  <2>3. CASE tenant = "active" /\ TriesLeft(r)
    <3>1. /\ job'[r].status = "running" /\ \A s \in Report : s # r => job'[s] = job[s]
          /\ job[r].status = "queued" /\ UNCHANGED report
      BY <1>0, <1>7, <2>3 DEF Claim
    <3>2. Follows(report[r].status, "queued") => Follows(report[r].status, "running")
      BY DEF Follows
    <3> QED
      BY <3>1, <3>2, FollowsParts, FollowsPartsNext
  <2> QED
    BY <2>1, <2>2, <2>3
<1>8. ASSUME NEW w \in Worker, Begin(w) PROVE ReportFollowsJob'
  <2>1. CASE Current(mine[w])
    <3> DEFINE r == mine[w].report
    <3>1. r \in Report /\ SetReport(r, "running") /\ UNCHANGED job /\ job[r].status = "running"
      BY <1>8, <2>1, HoldingType DEF Begin, Current
    <3> HIDE DEF r
    <3>2. report'[r].status = "running" /\ \A s \in Report : s # r => report'[s] = report[s]
      BY <1>0, <3>1, SetReportType
    <3>3. Follows("running", "running")
      BY DEF Follows
    <3> QED
      BY <3>1, <3>2, <3>3, FollowsParts, FollowsPartsNext
  <2>2. CASE ~Current(mine[w])
    BY <1>1, <1>8, <2>2 DEF Begin
  <2> QED
    BY <2>1, <2>2
<1>9. ASSUME NEW w \in Worker, Finish(w) PROVE ReportFollowsJob'
  <2>1. CASE Current(mine[w])
    <3> DEFINE r == mine[w].report
    <3>1. /\ r \in Report /\ mine[w].token \in Nat /\ job' = Ended(r, "completed")
          /\ report' = [report EXCEPT ![r].status = "completed", ![r].output = mine[w].token]
      BY <1>9, <2>1, HoldingType DEF Finish, Directory
    <3> HIDE DEF r
    <3>2. report'[r].status = "completed" /\ \A s \in Report : s # r => report'[s] = report[s]
      BY ONLY <1>0, <3>1, CompletedType
    <3>3. job'[r].status = "completed" /\ \A s \in Report : s # r => job'[s] = job[s]
      BY <1>0, <3>1, EndedType
    <3>4. Follows("completed", "completed")
      BY DEF Follows
    <3> QED
      BY <3>2, <3>3, <3>4, FollowsParts, FollowsPartsNext
  <2>2. CASE ~Current(mine[w])
    BY <1>1, <1>9, <2>2 DEF Finish
  <2> QED
    BY <2>1, <2>2
<1>10. ASSUME NEW w \in Worker, Fail(w) PROVE ReportFollowsJob'
  <2>1. CASE Current(mine[w])
    <3>1. /\ mine[w].report \in Report
          /\ job' = Ended(mine[w].report, "failed") /\ SetReport(mine[w].report, "failed")
      BY <1>10, <2>1, HoldingType DEF Fail
    <3> QED
      BY <3>1, BothSet DEF Follows
  <2>2. CASE ~Current(mine[w])
    BY <1>1, <1>10, <2>2 DEF Fail
  <2> QED
    BY <2>1, <2>2
<1>11. CASE GrantUnit \/ \E status \in {"active", "suspended"} : SetStatus(status)
  BY <1>1, <1>11 DEF GrantUnit, SetStatus, jobs
<1>12. CASE \E b \in Batch : \/ CreateBatch(b) \/ ScheduleBatch(b) \/ CommitImport(b) \/ SubmitReview(b)
                             \/ Approve(b) \/ Reject(b) \/ ReopenBatch(b) \/ CancelBatch(b)
  BY <1>1, <1>12 DEF CreateBatch, ScheduleBatch, CommitImport, SubmitReview, Approve, Reject, ReopenBatch,
     CancelBatch, jobs
<1>13. CASE \/ \E r \in Report : Publish(r)
            \/ \E w \in Worker : ReadExpired(w) \/ Crash(w)
            \/ UNCHANGED vars
  BY <1>1, <1>13 DEF Publish, ReadExpired, Crash, jobs, vars
<1> QED
  BY <1>2, <1>3, <1>4, <1>5, <1>6, <1>7, <1>8, <1>9, <1>10, <1>11, <1>12, <1>13 DEF Next

(* What staff see of a report agrees with its job (worker.py, api.py       *)
(* retry_job), however claims, retries and late workers interleave.        *)
THEOREM ReportsFollowJobs == Spec => []ReportFollowsJob
<1>1. Init => ReportFollowsJob
  BY DEF Init, ReportFollowsJob, NoReport, NoJob, Unclaimed
<1> QED
  BY <1>1, InitType, TypeStep, FollowsStep, PTL DEF Spec

-----------------------------------------------------------------------------
(***************************************************************************)
(* What one step does to a report: nothing, make its snapshot, or move it  *)
(* on, which no step does to a completed one.                              *)
(***************************************************************************)
CompletedBy(w, r) ==
  /\ mine[w] # NoClaim /\ Drop(w) /\ UNCHANGED claims
  /\ report'[r].output = mine[w].token

MovedOn(r) ==
  /\ report[r].status # "completed"
  /\ job[r].status # "none"
  /\ report'[r].approval = report[r].approval
  /\ report'[r].content = report[r].content
  /\ report'[r].version = report[r].version
  /\ report'[r].status = "completed" => \E w \in Worker : CompletedBy(w, r)

ReportStep(r) == report'[r] = report[r] \/ CreateReport(r) \/ MovedOn(r)

(* A change of status other than completion.                               *)
LEMMA StatusStep ==
  ASSUME TypeOK, ReportFollowsJob, NEW r \in Report, NEW status \in ReportStatus \ {"completed"},
         SetReport(r, status), job[r].status \in {"queued", "running"}
  PROVE  \A s \in Report : ReportStep(s)
<1>1. report[r].status # "completed"
  BY DEF ReportFollowsJob
<1>2. /\ report'[r].status = status
      /\ report'[r].approval = report[r].approval /\ report'[r].content = report[r].content
      /\ report'[r].version = report[r].version
      /\ \A s \in Report : s # r => report'[s] = report[s]
  BY TypeParts, SetReportType
<1> QED
  BY <1>1, <1>2 DEF ReportStep, MovedOn

LEMMA ReportSteps ==
  ASSUME TypeOK, ReportFollowsJob, [Next]_vars
  PROVE  \A r \in Report : ReportStep(r)
<1> USE DEF ReportStatus
<1>0. report \in [Report -> ReportRow]
  BY TypeParts
<1>1. ASSUME UNCHANGED report PROVE \A r \in Report : ReportStep(r)
  BY <1>1 DEF ReportStep
<1>2. ASSUME NEW r \in Report, CreateReport(r) PROVE \A s \in Report : ReportStep(s)
  <2>1. \A s \in Report : s # r => report'[s] = report[s]
    BY <1>0, <1>2 DEF CreateReport
  <2> QED
    BY <1>2, <2>1 DEF ReportStep
<1>3. ASSUME NEW w \in Worker, NEW seen \in scan[w], Recover(w, seen) PROVE \A r \in Report : ReportStep(r)
  <2>1. seen.report \in Report
    BY TypeParts DEF Reading
  <2>2. CASE StillExpired(seen)
    <3>1. SetReport(seen.report, "queued") /\ job[seen.report].status = "running"
      BY <1>3, <2>2 DEF Recover, Requeue, StillExpired, Expired
    <3> QED
      BY <2>1, <3>1, StatusStep
  <2>3. CASE ~StillExpired(seen)
    BY <1>1, <1>3, <2>3 DEF Recover
  <2> QED
    BY <2>2, <2>3
<1>4. ASSUME NEW w \in Worker, NEW r \in Report, Claim(w, r) PROVE \A s \in Report : ReportStep(s)
  <2>0. job[r].status = "queued"
    BY <1>4 DEF Claim
  <2>1. UNCHANGED report \/ SetReport(r, "cancelled") \/ SetReport(r, "failed")
    BY <1>4 DEF Claim
  <2> QED
    BY <1>1, <2>0, <2>1, StatusStep
<1>5. ASSUME NEW w \in Worker, Begin(w) PROVE \A s \in Report : ReportStep(s)
  <2>1. CASE Current(mine[w])
    <3>1. mine[w].report \in Report /\ job[mine[w].report].status = "running" /\ SetReport(mine[w].report, "running")
      BY <1>5, <2>1, HoldingType DEF Begin, Current
    <3> QED
      BY <3>1, StatusStep
  <2>2. CASE ~Current(mine[w])
    BY <1>1, <1>5, <2>2 DEF Begin
  <2> QED
    BY <2>1, <2>2
<1>6. ASSUME NEW w \in Worker, Finish(w) PROVE \A s \in Report : ReportStep(s)
  <2>1. CASE Current(mine[w])
    <3> DEFINE r == mine[w].report
    <3>1. /\ mine[w] # NoClaim /\ Drop(w) /\ UNCHANGED claims
          /\ r \in Report /\ mine[w].token \in Nat /\ job[r].status = "running"
          /\ report' = [report EXCEPT ![r].status = "completed", ![r].output = mine[w].token]
      BY <1>6, <2>1, HoldingType DEF Finish, Directory, Current
    <3> HIDE DEF r
    <3>2. /\ report'[r].output = mine[w].token
          /\ report'[r].approval = report[r].approval /\ report'[r].content = report[r].content
          /\ report'[r].version = report[r].version
          /\ \A s \in Report : s # r => report'[s] = report[s]
      BY ONLY <1>0, <3>1, CompletedType
    <3>3. report[r].status # "completed"
      BY <3>1 DEF ReportFollowsJob
    <3>4. CompletedBy(w, r)
      BY <3>1, <3>2 DEF CompletedBy
    <3>5. MovedOn(r)
      BY <3>1, <3>2, <3>3, <3>4 DEF MovedOn
    <3> QED
      BY <3>2, <3>5 DEF ReportStep
  <2>2. CASE ~Current(mine[w])
    BY <1>1, <1>6, <2>2 DEF Finish
  <2> QED
    BY <2>1, <2>2
<1>7. ASSUME NEW w \in Worker, Fail(w) PROVE \A s \in Report : ReportStep(s)
  <2>1. CASE Current(mine[w])
    <3>1. mine[w].report \in Report /\ job[mine[w].report].status = "running" /\ SetReport(mine[w].report, "failed")
      BY <1>7, <2>1, HoldingType DEF Fail, Current
    <3> QED
      BY <3>1, StatusStep
  <2>2. CASE ~Current(mine[w])
    BY <1>1, <1>7, <2>2 DEF Fail
  <2> QED
    BY <2>1, <2>2
<1>8. CASE GrantUnit \/ Offboard \/ \E status \in {"active", "suspended"} : SetStatus(status)
  BY <1>1, <1>8 DEF GrantUnit, Offboard, SetStatus, jobs
<1>9. CASE \E b \in Batch : \/ CreateBatch(b) \/ ScheduleBatch(b) \/ CommitImport(b) \/ SubmitReview(b)
                            \/ Approve(b) \/ Reject(b) \/ ReopenBatch(b) \/ CancelBatch(b)
  BY <1>1, <1>9 DEF CreateBatch, ScheduleBatch, CommitImport, SubmitReview, Approve, Reject, ReopenBatch,
     CancelBatch, jobs
<1>10. CASE \/ \E r \in Report : Publish(r) \/ RetryJob(r) \/ Lapse(r)
            \/ \E w \in Worker : ReadExpired(w) \/ Crash(w)
            \/ UNCHANGED vars
  BY <1>1, <1>10 DEF Publish, RetryJob, Lapse, ReadExpired, Crash, jobs, vars
<1> QED
  BY <1>2, <1>3, <1>4, <1>5, <1>6, <1>7, <1>8, <1>9, <1>10 DEF Next

(* No worker with an old claim or an old reading of expired claims, and no *)
(* retry, changes a completed report (worker.py, the fence of              *)
(* _finish_claim).                                                         *)
THEOREM CompletedNeverChanges == Spec => CompletedStays
<1>1. TypeOK /\ ReportFollowsJob /\ [Next]_vars
        => [\A r \in Report : report[r].status = "completed" => report'[r] = report[r]]_vars
  <2> SUFFICES ASSUME TypeOK, ReportFollowsJob, [Next]_vars, NEW r \in Report, report[r].status = "completed"
               PROVE  report'[r] = report[r]
    OBVIOUS
  <2>1. ReportStep(r)
    BY ReportSteps
  <2> QED
    BY <2>1 DEF ReportStep, CreateReport, MovedOn
<1> QED
  BY <1>1, DeliveryTypeCorrect, ReportsFollowJobs, PTL DEF Spec, CompletedStays

-----------------------------------------------------------------------------
(***************************************************************************)
(* Files.  FilesStay is not inductive: that a late worker writes elsewhere *)
(* needs that no two workers hold one token, and that the token a report   *)
(* was completed with is spent.                                            *)
(***************************************************************************)
TokensApart ==
  \A w \in Worker :
    /\ mine[w].token \in 0..claims
    /\ mine[w] # NoClaim => mine[w].token # 0
    /\ \A v \in Worker : v # w /\ mine[w].token # 0 => mine[v].token # mine[w].token

FilesApart ==
  \A r \in Report : report[r].status = "completed" =>
    /\ report[r].output \in 1..claims
    /\ \A w \in Worker : mine[w].token # report[r].output

(* No step makes a token held twice: it hands out a new one, or workers    *)
(* keep or drop theirs.                                                    *)
TokenStep ==
  \/ /\ UNCHANGED claims
     /\ \A w \in Worker : mine'[w] # NoClaim => mine[w] # NoClaim /\ mine'[w].token = mine[w].token
  \/ /\ claims' = claims + 1
     /\ \E w \in Worker :
          /\ mine'[w].token = claims'
          /\ \A v \in Worker : v # w => mine'[v] = mine[v]

LEMMA DropTokens ==
  ASSUME TypeOK, NEW w \in Worker, Drop(w), UNCHANGED claims
  PROVE  TokenStep
<1>1. mine'[w] = NoClaim /\ \A v \in Worker : v # w => mine'[v] = mine[v]
  BY DropType
<1> QED
  BY <1>1 DEF TokenStep

LEMMA TokenSteps == TypeOK /\ [Next]_vars => TokenStep
<1> SUFFICES ASSUME TypeOK, [Next]_vars PROVE TokenStep
  OBVIOUS
<1>0. mine \in [Worker -> Holding \cup {NoClaim}]
  BY TypeParts
<1>1. ASSUME UNCHANGED <<claims, mine>> PROVE TokenStep
  BY <1>1 DEF TokenStep
<1>2. ASSUME NEW w \in Worker, NEW r \in Report, Claim(w, r) PROVE TokenStep
  <2>1. CASE tenant = "active" /\ TriesLeft(r)
    <3>1. /\ claims' = claims + 1 /\ mine'[w].token = claims + 1
          /\ \A v \in Worker : v # w => mine'[v] = mine[v]
      BY <1>0, <1>2, <2>1 DEF Claim
    <3> QED
      BY <3>1 DEF TokenStep
  <2>2. CASE ~(tenant = "active" /\ TriesLeft(r))
    BY <1>1, <1>2, <2>2 DEF Claim
  <2> QED
    BY <2>1, <2>2
<1>3. ASSUME NEW w \in Worker, Begin(w) PROVE TokenStep
  <2>1. CASE Current(mine[w])
    <3>1. mine[w] \in Holding
      BY <1>3, HoldingType DEF Begin
    <3>2. [mine[w] EXCEPT !.making = TRUE].token = mine[w].token
      BY <3>1 DEF Holding
    <3>3. mine'[w].token = mine[w].token /\ \A v \in Worker : v # w => mine'[v] = mine[v]
      BY <1>0, <1>3, <2>1, <3>2 DEF Begin
    <3> QED
      BY <1>3, <3>3 DEF Begin, TokenStep
  <2>2. CASE ~Current(mine[w])
    BY <1>3, <2>2, DropTokens DEF Begin
  <2> QED
    BY <2>1, <2>2
<1>4. ASSUME NEW w \in Worker, Finish(w) \/ Fail(w) \/ Crash(w) PROVE TokenStep
  BY <1>4, DropTokens DEF Finish, Fail, Crash, jobs
<1>5. CASE GrantUnit \/ Offboard \/ \E status \in {"active", "suspended"} : SetStatus(status)
  BY <1>1, <1>5 DEF GrantUnit, Offboard, SetStatus, jobs, workers
<1>6. CASE \E b \in Batch : \/ CreateBatch(b) \/ ScheduleBatch(b) \/ CommitImport(b) \/ SubmitReview(b)
                            \/ Approve(b) \/ Reject(b) \/ ReopenBatch(b) \/ CancelBatch(b)
  BY <1>1, <1>6 DEF CreateBatch, ScheduleBatch, CommitImport, SubmitReview, Approve, Reject, ReopenBatch,
     CancelBatch, jobs, workers
<1>7. CASE \/ \E r \in Report : CreateReport(r) \/ RetryJob(r) \/ Publish(r) \/ Lapse(r)
           \/ \E w \in Worker : ReadExpired(w)
           \/ \E w \in Worker : \E seen \in scan[w] : Recover(w, seen)
           \/ UNCHANGED vars
  BY <1>1, <1>7 DEF CreateReport, RetryJob, Publish, Lapse, ReadExpired, Recover, jobs, workers, vars
<1> QED
  BY <1>2, <1>3, <1>4, <1>5, <1>6, <1>7 DEF Next

LEMMA TokensStep == TypeOK /\ TypeOK' /\ TokensApart /\ [Next]_vars => TokensApart'
<1> SUFFICES ASSUME TypeOK, TypeOK', TokensApart, [Next]_vars PROVE TokensApart'
  OBVIOUS
<1>1. TokenStep /\ claims \in Nat /\ claims' \in Nat /\ NoClaim.token = 0
  BY TokenSteps, TypeParts DEF TypeOK, NoClaim, NoToken
<1>2. CASE /\ UNCHANGED claims
           /\ \A w \in Worker : mine'[w] # NoClaim => mine[w] # NoClaim /\ mine'[w].token = mine[w].token
  <2>1. \A w \in Worker : mine'[w].token # 0 => mine'[w].token = mine[w].token
    BY <1>1, <1>2
  <2> QED
    BY <1>1, <1>2, <2>1 DEF TokensApart
<1>3. ASSUME claims' = claims + 1, NEW w \in Worker, mine'[w].token = claims',
             \A v \in Worker : v # w => mine'[v] = mine[v]
      PROVE  TokensApart'
  <2>1. \A v \in Worker : v # w => mine'[v].token \in 0..claims
    BY <1>3 DEF TokensApart
  <2> QED
    BY <1>1, <1>3, <2>1 DEF TokensApart
<1> QED
  BY <1>1, <1>2, <1>3 DEF TokenStep

LEMMA FilesStep ==
  TypeOK /\ TypeOK' /\ ReportFollowsJob /\ TokensApart /\ FilesApart /\ [Next]_vars => FilesApart'
<1> SUFFICES ASSUME TypeOK, TypeOK', ReportFollowsJob, TokensApart, FilesApart, [Next]_vars,
                    NEW r \in Report, report'[r].status = "completed"
             PROVE  report'[r].output \in 1..claims' /\ \A w \in Worker : mine'[w].token # report'[r].output
  BY DEF FilesApart
<1>1. TokenStep /\ ReportStep(r) /\ claims \in Nat /\ NoClaim.token = 0
  BY TokenSteps, ReportSteps, TypeParts DEF NoClaim, NoToken
<1>2. CASE report'[r] = report[r]
  <2>1. report[r].output \in 1..claims /\ \A w \in Worker : mine[w].token # report[r].output
    BY <1>2 DEF FilesApart
  <2>2. CASE /\ UNCHANGED claims
             /\ \A w \in Worker : mine'[w] # NoClaim => mine[w] # NoClaim /\ mine'[w].token = mine[w].token
    BY <1>1, <1>2, <2>1, <2>2
  <2>3. ASSUME claims' = claims + 1, NEW w \in Worker, mine'[w].token = claims',
               \A v \in Worker : v # w => mine'[v] = mine[v]
        PROVE  report'[r].output \in 1..claims' /\ \A v \in Worker : mine'[v].token # report'[r].output
    BY <1>1, <1>2, <2>1, <2>3
  <2> QED
    BY <1>1, <2>2, <2>3 DEF TokenStep
<1>3. CASE CreateReport(r)
  <2>1. report'[r].status = "queued"
    BY <1>3, TypeParts DEF CreateReport
  <2> QED
    BY <2>1
<1>4. CASE MovedOn(r)
  <2>1. PICK w \in Worker : CompletedBy(w, r)
    BY <1>4 DEF MovedOn
  <2>2. /\ mine[w].token \in 1..claims /\ report'[r].output = mine[w].token /\ UNCHANGED claims
        /\ mine'[w] = NoClaim /\ \A v \in Worker : v # w => mine'[v] = mine[v]
    BY <1>1, <2>1, DropType DEF CompletedBy, TokensApart
  <2> QED
    BY <1>1, <2>2 DEF TokensApart
<1> QED
  BY <1>1, <1>2, <1>3, <1>4 DEF ReportStep

(* However late a worker is, it does not write to the files of a completed *)
(* report (worker.py, generate_bundle writes under the claim token).       *)
THEOREM LateWorkersWriteElsewhere == Spec => []FilesStay
<1>1. Init => TokensApart /\ FilesApart
  BY DEF Init, TokensApart, FilesApart, NoReport, NoClaim, NoToken
<1>2. TypeOK /\ TokensApart /\ FilesApart => FilesStay
  <2> SUFFICES ASSUME TypeOK, TokensApart, FilesApart, NEW r \in Report, NEW w \in Worker,
                      report[r].status = "completed"
               PROVE  Directory(mine[w]) # report[r].output
    BY DEF FilesStay
  <2> QED
    BY DEF FilesApart, Directory
<1> QED
  BY <1>1, <1>2, InitType, TypeStep, FollowsStep, TokensStep, FilesStep, ReportsFollowJobs, DeliveryTypeCorrect, PTL DEF Spec

-----------------------------------------------------------------------------
(***************************************************************************)
(* Units.  UnitFollowsBatch is not inductive: that a new batch can reserve *)
(* needs that a batch not yet there has taken none.                        *)
(***************************************************************************)
NoBatchNoUnit == \A b \in Batch : batch[b].status = "none" => unit[b] = "none"

UnitInv == UnitFollowsBatch /\ NoBatchNoUnit

(* A step takes units only where one is free.                              *)
UnitStep ==
  \/ granted' >= granted /\ \A b \in Batch : unit'[b] \in {"reserved", "consumed"} => unit[b] \in {"reserved", "consumed"}
  \/ /\ UnitFree /\ UNCHANGED granted
     /\ \E b \in Batch : \A c \in Batch : c # b => unit'[c] = unit[c]

(* What the units of batches hang on: their own state, row and reports.    *)
UnitFacts(u, status, delivered) ==
  /\ u = "consumed" <=> delivered
  /\ u = "released" => status = "cancelled"
  /\ status = "cancelled" => u # "reserved"
  /\ status = "none" => u = "none"

LEMMA UnitInvParts == UnitInv <=> \A b \in Batch : UnitFacts(unit[b], batch[b].status, Publications(b) # {})
BY DEF UnitInv, UnitFollowsBatch, NoBatchNoUnit, UnitFacts

LEMMA UnitInvPartsNext ==
  (\A b \in Batch : UnitFacts(unit'[b], batch'[b].status, (Publications(b) # {})')) => UnitInv'
BY DEF UnitInv, UnitFollowsBatch, NoBatchNoUnit, UnitFacts

(* A batch whose row is written while its unit and publications stay.      *)
LEMMA RowWritten ==
  ASSUME TypeOK, UnitInv, NEW b \in Batch, NEW status \in BatchStatus, NEW approval \in 0..MaxReviews,
         SetBatch(b, status, approval), UNCHANGED <<granted, unit, published>>,
         batch[b].status \notin {"none", "cancelled"}, status \notin {"none", "cancelled"}
  PROVE  UnitInv' /\ UnitStep
<1>1. batch'[b].status = status /\ \A c \in Batch : c # b => batch'[c] = batch[c]
  BY TypeParts, SetBatchType
<1>2. \A c \in Batch : Publications(c)' = Publications(c)
  BY DEF Publications, Reports
<1>3. UnitFacts(unit[b], batch[b].status, Publications(b) # {}) => UnitFacts(unit[b], status, Publications(b) # {})
  BY DEF UnitFacts
<1>4. UnitInv'
  BY <1>1, <1>2, <1>3, UnitInvParts, UnitInvPartsNext
<1>5. granted \in Nat
  BY TypeParts, DeliveryConstants
<1> QED
  BY <1>4, <1>5 DEF UnitStep

LEMMA BatchStepUnits ==
  ASSUME TypeOK, UnitInv, NEW b \in Batch,
         \/ CreateBatch(b) \/ ScheduleBatch(b) \/ CommitImport(b) \/ SubmitReview(b)
         \/ Approve(b) \/ Reject(b) \/ ReopenBatch(b) \/ CancelBatch(b)
  PROVE  UnitInv' /\ UnitStep
<1> USE DEF BatchStatus
<1>0. /\ 0 \in 0..MaxReviews /\ batch[b].approval \in 0..MaxReviews /\ batch \in [Batch -> BatchRow]
      /\ unit \in [Batch -> UnitStatus] /\ granted \in Nat /\ reviews \in [Batch -> 0..MaxReviews]
  BY DeliveryConstants, TypeParts, ApprovalType
<1>1. UNCHANGED published => \A c \in Batch : Publications(c)' = Publications(c)
  BY DEF Publications, Reports
<1>2. UnitFacts(unit[b], batch[b].status, Publications(b) # {})
  BY UnitInvParts
<1>3. CASE CreateBatch(b)
  <2>1. /\ SetBatch(b, "preparing", 0) /\ UnitFree /\ unit' = [unit EXCEPT ![b] = "reserved"]
        /\ batch[b].status = "none" /\ UNCHANGED <<granted, published>>
    BY <1>3 DEF CreateBatch
  <2>2. /\ batch'[b].status = "preparing" /\ \A c \in Batch : c # b => batch'[c] = batch[c]
        /\ unit'[b] = "reserved" /\ \A c \in Batch : c # b => unit'[c] = unit[c]
    BY <1>0, <2>1, SetBatchType
  <2>3. UnitFacts("reserved", "preparing", Publications(b) # {})
    BY <1>2, <2>1 DEF UnitFacts
  <2>4. UnitInv'
    BY <1>1, <2>1, <2>2, <2>3, UnitInvParts, UnitInvPartsNext
  <2> QED
    BY <2>1, <2>2, <2>4 DEF UnitStep
<1>4. CASE ScheduleBatch(b)
  BY <1>0, <1>4, RowWritten DEF ScheduleBatch
<1>5. CASE CommitImport(b)
  <2>1. /\ batch'[b].status = "awaiting_review" /\ \A c \in Batch : c # b => batch'[c] = batch[c]
        /\ batch[b].status \in {"preparing", "confirmed", "awaiting_review"}
        /\ UNCHANGED <<granted, unit, published>>
    BY <1>0, <1>5 DEF CommitImport
  <2>2. UnitFacts(unit[b], "awaiting_review", Publications(b) # {})
    BY <1>2, <2>1 DEF UnitFacts
  <2>3. UnitInv'
    BY <1>1, <2>1, <2>2, UnitInvParts, UnitInvPartsNext
  <2> QED
    BY <1>0, <2>1, <2>3 DEF UnitStep
<1>6. CASE SubmitReview(b)
  BY <1>0, <1>6, RowWritten DEF SubmitReview
<1>7. CASE Approve(b)
  <2>1. reviews[b] + 1 \in 0..MaxReviews
    BY <1>0, <1>7, DeliveryConstants DEF Approve
  <2> QED
    BY <1>0, <1>7, <2>1, RowWritten DEF Approve
<1>8. CASE Reject(b)
  BY <1>0, <1>8, RowWritten DEF Reject
<1>9. CASE ReopenBatch(b)
  BY <1>0, <1>9, RowWritten DEF ReopenBatch
<1>10. CASE CancelBatch(b)
  <2>1. /\ SetBatch(b, "cancelled", 0) /\ ReleaseUnit(b) /\ UNCHANGED <<granted, published>>
        /\ batch[b].status # "none" /\ Publications(b) = {}
    BY <1>10 DEF CancelBatch
  <2>2. batch'[b].status = "cancelled" /\ \A c \in Batch : c # b => batch'[c] = batch[c]
    BY <1>0, <2>1, SetBatchType
  <2>3. unit'[b] \in {"none", "released"} /\ \A c \in Batch : c # b => unit'[c] = unit[c]
    BY <1>0, <2>1 DEF ReleaseUnit, UnitStatus
  <2>4. UnitFacts(unit'[b], "cancelled", Publications(b) # {})
    BY <2>1, <2>3 DEF UnitFacts
  <2>5. UnitInv'
    BY <1>1, <2>1, <2>2, <2>3, <2>4, UnitInvParts, UnitInvPartsNext
  <2> QED
    BY <1>0, <2>1, <2>3, <2>5 DEF UnitStep
<1> QED
  BY <1>3, <1>4, <1>5, <1>6, <1>7, <1>8, <1>9, <1>10

LEMMA UnitSteps == TypeOK /\ UnitInv /\ [Next]_vars => UnitInv' /\ UnitStep
<1> SUFFICES ASSUME TypeOK, UnitInv, [Next]_vars PROVE UnitInv' /\ UnitStep
  OBVIOUS
<1>0. batch \in [Batch -> BatchRow] /\ unit \in [Batch -> UnitStatus] /\ granted \in Nat
  BY DeliveryConstants, TypeParts
<1>1. ASSUME UNCHANGED <<unit, batch, published>>, granted' >= granted PROVE UnitInv' /\ UnitStep
  <2>1. \A c \in Batch : Publications(c)' = Publications(c)
    BY <1>1 DEF Publications, Reports
  <2> QED
    BY <1>1, <2>1, UnitInvParts, UnitInvPartsNext DEF UnitStep
<1>2. ASSUME NEW r \in Report, Publish(r) PROVE UnitInv' /\ UnitStep
  <2> DEFINE b == BatchOf[r]
  <2>1. /\ b \in Batch /\ SetBatch(b, "delivered", batch[b].approval) /\ ConsumeUnit(b)
        /\ published' = published \cup {r} /\ UNCHANGED granted
        /\ batch[b].approval \in 0..MaxReviews /\ "delivered" \in BatchStatus
    BY <1>2, DeliveryConstants, ApprovalType DEF Publish, BatchStatus
  <2>2. /\ \A c \in Batch : c # b => Publications(c)' = Publications(c)
        /\ Publications(b)' # {}
    BY <2>1 DEF Publications, Reports
  <2> HIDE DEF b
  <2>3. batch'[b].status = "delivered" /\ \A c \in Batch : c # b => batch'[c] = batch[c]
    BY <1>0, <2>1, SetBatchType
  <2>4. /\ unit'[b] = "consumed" /\ \A c \in Batch : c # b => unit'[c] = unit[c]
        /\ unit[b] \in {"none", "reserved", "consumed"} /\ (unit[b] = "none" => UnitFree)
    BY <1>0, <2>1 DEF ConsumeUnit, UnitStatus
  <2>5. UnitFacts("consumed", "delivered", TRUE)
    BY DEF UnitFacts
  <2>6. UnitInv'
    BY <2>1, <2>2, <2>3, <2>4, <2>5, UnitInvParts, UnitInvPartsNext
  <2> QED
    BY <1>0, <2>1, <2>4, <2>6 DEF UnitStep
<1>3. ASSUME Offboard PROVE UnitInv' /\ UnitStep
  <2>1. \A c \in Batch : Publications(c)' = Publications(c)
    BY <1>3 DEF Offboard, Publications, Reports
  <2>2. \A b \in Batch : unit'[b] = AfterLeaving(b)
    BY <1>3 DEF Offboard
  <2>3. \A b \in Batch : b \in Leaving => batch'[b].status = "cancelled"
    BY <1>0, <1>3 DEF Offboard, BatchRow
  <2>4. \A b \in Batch : b \notin Leaving => batch'[b] = batch[b]
    BY <1>3 DEF Offboard
  <2>5. \A b \in Batch : UnitFacts(unit'[b], batch'[b].status, (Publications(b) # {})')
    <3> SUFFICES ASSUME NEW b \in Batch PROVE UnitFacts(unit'[b], batch'[b].status, Publications(b) # {})
      BY <2>1
    <3>1. UnitFacts(unit[b], batch[b].status, Publications(b) # {})
      BY UnitInvParts
    <3>2. CASE b \in Leaving
      BY <2>2, <2>3, <3>1, <3>2 DEF UnitFacts, AfterLeaving, Leaving
    <3>3. CASE b \notin Leaving
      BY <2>2, <2>4, <3>1, <3>3 DEF UnitFacts, AfterLeaving
    <3> QED
      BY <3>2, <3>3
  <2>6. UNCHANGED granted /\ \A b \in Batch : unit'[b] \in {"reserved", "consumed"} => unit[b] \in {"reserved", "consumed"}
    BY <1>3, <2>2 DEF Offboard, AfterLeaving
  <2> QED
    BY <1>0, <2>5, <2>6, UnitInvPartsNext DEF UnitStep
<1>4. CASE GrantUnit
  BY <1>0, <1>1, <1>4 DEF GrantUnit
<1>5. CASE \E b \in Batch : \/ CreateBatch(b) \/ ScheduleBatch(b) \/ CommitImport(b) \/ SubmitReview(b)
                            \/ Approve(b) \/ Reject(b) \/ ReopenBatch(b) \/ CancelBatch(b)
  BY <1>5, BatchStepUnits
<1>6. CASE \/ \E status \in {"active", "suspended"} : SetStatus(status)
           \/ \E r \in Report : CreateReport(r) \/ RetryJob(r) \/ Lapse(r)
  BY <1>0, <1>1, <1>6 DEF SetStatus, CreateReport, RetryJob, Lapse, staff
<1>7. CASE \/ \E w \in Worker : ReadExpired(w) \/ Begin(w) \/ Finish(w) \/ Fail(w) \/ Crash(w)
           \/ \E w \in Worker : \E seen \in scan[w] : Recover(w, seen)
           \/ \E w \in Worker, r \in Report : Claim(w, r)
           \/ UNCHANGED vars
  <2>1. UNCHANGED staff
    BY <1>7 DEF ReadExpired, Begin, Finish, Fail, Crash, Recover, Claim, staff, vars
  <2>2. UNCHANGED <<unit, batch, published, granted>>
    BY <2>1 DEF staff
  <2> QED
    BY <1>0, <1>1, <2>2
<1> QED
  BY <1>2, <1>3, <1>4, <1>5, <1>6, <1>7 DEF Next

LEMMA UnitInit == Init => UnitInv
BY DEF Init, UnitInv, UnitFollowsBatch, NoBatchNoUnit, Publications

(* A batch has spent a unit exactly when a report of it was published, and *)
(* gets it back only by being cancelled (entitlements.py).                 *)
THEOREM UnitsFollowBatches == Spec => []UnitFollowsBatch
<1>1. UnitInv => UnitFollowsBatch
  BY DEF UnitInv
<1> QED
  BY <1>1, InitType, TypeStep, UnitInit, UnitSteps, PTL DEF Spec

LEMMA OversoldStep == UnitStep /\ UnitsNotOversold /\ granted \in Nat /\ granted' \in Nat => UnitsNotOversold'
<1> SUFFICES ASSUME UnitStep, UnitsNotOversold, granted \in Nat, granted' \in Nat PROVE UnitsNotOversold'
  OBVIOUS
<1>1. /\ InUse \subseteq Batch /\ InUse' \subseteq Batch
      /\ IsFiniteSet(InUse) /\ IsFiniteSet(InUse') /\ Cardinality(InUse) \in Nat /\ Cardinality(InUse') \in Nat
  <2>1. InUse \subseteq Batch /\ InUse' \subseteq Batch
    BY DEF InUse
  <2> QED
    BY <2>1, DeliveryConstants, FS_Subset, FS_CardinalityType
<1>2. CASE granted' >= granted /\ \A b \in Batch : unit'[b] \in {"reserved", "consumed"} => unit[b] \in {"reserved", "consumed"}
  <2>1. InUse' \subseteq InUse
    BY <1>2 DEF InUse
  <2>2. Cardinality(InUse') <= Cardinality(InUse)
    BY <1>1, <2>1, FS_Subset
  <2> QED
    BY <1>1, <1>2, <2>2 DEF UnitsNotOversold
<1>3. ASSUME UnitFree, UNCHANGED granted, NEW b \in Batch, \A c \in Batch : c # b => unit'[c] = unit[c]
      PROVE  UnitsNotOversold'
  <2>1. InUse' \subseteq InUse \cup {b}
    BY <1>3 DEF InUse
  <2>2. IsFiniteSet(InUse \cup {b}) /\ Cardinality(InUse \cup {b}) \in Nat
        /\ Cardinality(InUse \cup {b}) <= Cardinality(InUse) + 1
    <3>1. IsFiniteSet(InUse \cup {b})
          /\ \/ b \in InUse /\ Cardinality(InUse \cup {b}) = Cardinality(InUse)
             \/ b \notin InUse /\ Cardinality(InUse \cup {b}) = Cardinality(InUse) + 1
      BY <1>1, FS_AddElement
    <3> QED
      BY <1>1, <3>1
  <2>3. Cardinality(InUse') <= Cardinality(InUse \cup {b})
    BY <2>1, <2>2, FS_Subset
  <2> QED
    BY <1>1, <1>3, <2>2, <2>3 DEF UnitsNotOversold, UnitFree
<1> QED
  BY <1>2, <1>3 DEF UnitStep

(* Units reserved and consumed never exceed those granted                  *)
(* (entitlements.py reserve and finish, under the lock of the tenant).     *)
THEOREM UnitsWithinGrants == Spec => []UnitsNotOversold
<1>1. Init => UnitsNotOversold
  <2> SUFFICES ASSUME Init PROVE UnitsNotOversold
    OBVIOUS
  <2>1. InUse = {}
    BY DEF Init, InUse
  <2> QED
    BY <2>1, FS_EmptySet DEF Init, UnitsNotOversold
<1>2. TypeOK => granted \in Nat
  BY TypeParts, DeliveryConstants
<1>3. TypeOK' => granted' \in Nat
  BY DeliveryConstants DEF TypeOK
<1> QED
  BY <1>1, <1>2, <1>3, InitType, TypeStep, UnitInit, UnitSteps, OversoldStep, PTL DEF Spec

-----------------------------------------------------------------------------
(***************************************************************************)
(* The register of publications.  A step of this specification is one of   *)
(* the abstract one because a report that was made for the approval that   *)
(* holds now has the content the batch has now, and its version is one     *)
(* that could be counted.                                                  *)
(***************************************************************************)
MadeForApproval(r) ==
  /\ report[r].approval <= reviews[BatchOf[r]]
  /\ ApprovedNow(r) => report[r].content = batch[BatchOf[r]].content

SnapshotInv ==
  /\ \A b \in Batch : batch[b].approval <= reviews[b]
  /\ \A b \in Batch : batch[b].status \in {"approved", "delivered"} => batch[b].content > 0
  /\ \A r \in Report : MadeForApproval(r)
  /\ \A r \in Report : job[r].status # "none" => report[r].version \in 1..Cardinality(Report)
  /\ \A r \in published : report[r].status = "completed"

(* What a step does to the approval of a batch: withdraws it, keeps it     *)
(* with the content it was given for, or gives a new one.                  *)
ApprovalStep(b) ==
  /\ \/ batch'[b].approval = 0 /\ reviews'[b] = reviews[b]
     \/ /\ batch'[b].approval = batch[b].approval /\ batch'[b].content = batch[b].content
        /\ reviews'[b] = reviews[b]
     \/ /\ batch'[b].approval = reviews'[b] /\ reviews'[b] = reviews[b] + 1
  /\ batch'[b].status \in {"approved", "delivered"} =>
       /\ batch'[b].content = batch[b].content
       /\ batch[b].status \in {"approved", "delivered"} \/ batch[b].content > 0

LEMMA RowStep ==
  ASSUME TypeOK, NEW b \in Batch, NEW status \in BatchStatus, NEW approval \in 0..MaxReviews,
         SetBatch(b, status, approval), reviews' \in [Batch -> 0..MaxReviews],
         \A c \in Batch : c # b => reviews'[c] = reviews[c],
         \/ approval \in {0, batch[b].approval} /\ reviews'[b] = reviews[b]
         \/ approval = reviews[b] + 1 /\ reviews'[b] = approval,
         status \in {"approved", "delivered"} => batch[b].status \in {"approved", "delivered"} \/ batch[b].content > 0
  PROVE  \A c \in Batch : ApprovalStep(c)
<1>1. /\ batch'[b].status = status /\ batch'[b].content = batch[b].content /\ batch'[b].approval = approval
      /\ \A c \in Batch : c # b => batch'[c] = batch[c]
  BY TypeParts, SetBatchType
<1>2. ApprovalStep(b)
  BY <1>1 DEF ApprovalStep
<1>3. \A c \in Batch : c # b => ApprovalStep(c)
  BY <1>1 DEF ApprovalStep
<1> QED
  BY <1>2, <1>3

LEMMA BatchStepApproval ==
  ASSUME TypeOK, NEW b \in Batch,
         \/ CreateBatch(b) \/ ScheduleBatch(b) \/ CommitImport(b) \/ SubmitReview(b)
         \/ Approve(b) \/ Reject(b) \/ ReopenBatch(b) \/ CancelBatch(b)
  PROVE  \A c \in Batch : ApprovalStep(c)
<1> USE DEF BatchStatus
<1>0. /\ 0 \in 0..MaxReviews /\ batch[b].approval \in 0..MaxReviews /\ batch \in [Batch -> BatchRow]
      /\ reviews \in [Batch -> 0..MaxReviews]
  BY DeliveryConstants, TypeParts, ApprovalType
<1>1. CASE CreateBatch(b) \/ ScheduleBatch(b) \/ SubmitReview(b) \/ Reject(b) \/ ReopenBatch(b) \/ CancelBatch(b)
  <2>1. UNCHANGED reviews
    BY <1>1 DEF CreateBatch, ScheduleBatch, SubmitReview, Reject, ReopenBatch, CancelBatch
  <2>2. PICK status \in BatchStatus \ {"approved", "delivered"}, approval \in {0, batch[b].approval} :
          SetBatch(b, status, approval)
    BY <1>1 DEF CreateBatch, ScheduleBatch, SubmitReview, Reject, ReopenBatch, CancelBatch
  <2> QED
    BY <1>0, <2>1, <2>2, RowStep
<1>2. CASE CommitImport(b)
  <2>1. /\ batch'[b].status = "awaiting_review" /\ batch'[b].approval = 0 /\ UNCHANGED reviews
        /\ \A c \in Batch : c # b => batch'[c] = batch[c]
    BY <1>0, <1>2 DEF CommitImport
  <2> QED
    BY <2>1 DEF ApprovalStep
<1>3. CASE Approve(b)
  <2>1. /\ reviews' = [reviews EXCEPT ![b] = reviews[b] + 1] /\ SetBatch(b, "approved", reviews[b] + 1)
        /\ batch[b].content > 0 /\ reviews[b] < MaxReviews
    BY <1>3 DEF Approve
  <2>2. /\ reviews[b] + 1 \in 0..MaxReviews /\ reviews' \in [Batch -> 0..MaxReviews]
        /\ reviews'[b] = reviews[b] + 1 /\ \A c \in Batch : c # b => reviews'[c] = reviews[c]
    BY <1>0, <2>1, DeliveryConstants
  <2> QED
    BY <2>1, <2>2, RowStep
<1> QED
  BY <1>1, <1>2, <1>3

LEMMA ApprovalSteps ==
  ASSUME TypeOK, [Next]_vars
  PROVE  \A b \in Batch : ApprovalStep(b)
<1>0. batch \in [Batch -> BatchRow] /\ reviews \in [Batch -> 0..MaxReviews]
  BY TypeParts
<1>1. ASSUME UNCHANGED <<batch, reviews>> PROVE \A b \in Batch : ApprovalStep(b)
  BY <1>1 DEF ApprovalStep
<1>2. ASSUME NEW r \in Report, Publish(r) PROVE \A b \in Batch : ApprovalStep(b)
  <2> DEFINE b == BatchOf[r]
  <2>1. /\ b \in Batch /\ SetBatch(b, "delivered", batch[b].approval) /\ UNCHANGED reviews
        /\ batch[b].status \in {"approved", "delivered"}
        /\ batch[b].approval \in 0..MaxReviews /\ "delivered" \in BatchStatus
    BY <1>2, DeliveryConstants, ApprovalType DEF Publish, BatchStatus
  <2> HIDE DEF b
  <2> QED
    BY <1>0, <2>1, RowStep
<1>3. CASE Offboard
  <2>1. \A b \in Batch :
          /\ [batch[b] EXCEPT !.status = "cancelled"].status = "cancelled"
          /\ [batch[b] EXCEPT !.status = "cancelled"].content = batch[b].content
          /\ [batch[b] EXCEPT !.status = "cancelled"].approval = batch[b].approval
    BY <1>0 DEF BatchRow
  <2>2. \A b \in Batch : batch'[b] = IF b \in Leaving THEN [batch[b] EXCEPT !.status = "cancelled"] ELSE batch[b]
    BY <1>3 DEF Offboard
  <2>3. UNCHANGED reviews
    BY <1>3 DEF Offboard
  <2>4. \A b \in Batch : b \in Leaving => ApprovalStep(b)
    BY <2>1, <2>2, <2>3 DEF ApprovalStep
  <2>5. \A b \in Batch : b \notin Leaving => ApprovalStep(b)
    BY <2>2, <2>3 DEF ApprovalStep
  <2> QED
    BY <2>4, <2>5
<1>4. CASE \E b \in Batch : \/ CreateBatch(b) \/ ScheduleBatch(b) \/ CommitImport(b) \/ SubmitReview(b)
                            \/ Approve(b) \/ Reject(b) \/ ReopenBatch(b) \/ CancelBatch(b)
  BY <1>4, BatchStepApproval
<1>5. CASE GrantUnit \/ \E status \in {"active", "suspended"} : SetStatus(status)
  BY <1>1, <1>5 DEF GrantUnit, SetStatus
<1>6. CASE \/ \E r \in Report : CreateReport(r) \/ RetryJob(r) \/ Lapse(r)
           \/ \E w \in Worker : ReadExpired(w) \/ Begin(w) \/ Finish(w) \/ Fail(w) \/ Crash(w)
           \/ \E w \in Worker : \E seen \in scan[w] : Recover(w, seen)
           \/ \E w \in Worker, r \in Report : Claim(w, r)
           \/ UNCHANGED vars
  <2>1. UNCHANGED <<batch, reviews>>
    BY <1>6 DEF CreateReport, RetryJob, Lapse, ReadExpired, Begin, Finish, Fail, Crash, Recover, Claim, staff, vars
  <2> QED
    BY <1>1, <2>1
<1> QED
  BY <1>2, <1>3, <1>4, <1>5, <1>6 DEF Next

(* A job appears with its snapshot.                                        *)
LEMMA JobAppears ==
  ASSUME TypeOK, [Next]_vars
  PROVE  \A r \in Report : job'[r] = job[r] \/ job[r].status # "none" \/ CreateReport(r)
<1>0. job \in [Report -> JobRow]
  BY TypeParts
<1> DEFINE Kept == \A r \in Report : job'[r] = job[r] \/ job[r].status # "none" \/ CreateReport(r)
<1>1. ASSUME UNCHANGED job PROVE Kept
  BY <1>1
<1>2. ASSUME NEW r \in Report, NEW status \in JobStatus, job' = Ended(r, status), job[r].status # "none" PROVE Kept
  BY <1>0, <1>2, EndedType
<1>3. ASSUME NEW r \in Report, CreateReport(r) PROVE Kept
  BY <1>0, <1>3 DEF CreateReport
<1>4. ASSUME NEW r \in Report, RetryJob(r) \/ Lapse(r) PROVE Kept
  BY <1>0, <1>4 DEF RetryJob, Lapse
<1>5. ASSUME Offboard PROVE Kept
  BY <1>5 DEF Offboard
<1>6. ASSUME NEW w \in Worker, NEW seen \in scan[w], Recover(w, seen) PROVE Kept
  <2>1. seen.report \in Report
    BY TypeParts DEF Reading
  <2>2. CASE StillExpired(seen)
    BY <1>2, <1>6, <2>1, <2>2 DEF Recover, StillExpired, Expired, JobStatus
  <2>3. CASE ~StillExpired(seen)
    BY <1>1, <1>6, <2>3 DEF Recover
  <2> QED
    BY <2>2, <2>3
<1>7. ASSUME NEW w \in Worker, NEW r \in Report, Claim(w, r) PROVE Kept
  <2>1. job[r].status = "queued" /\ \A s \in Report : s # r => job'[s] = job[s]
    BY <1>0, <1>7, EndedType DEF Claim, JobStatus
  <2> QED
    BY <2>1
<1>8. ASSUME NEW w \in Worker, Finish(w) \/ Fail(w) PROVE Kept
  <2>1. mine[w].report \in Report
    BY <1>8, HoldingType DEF Finish, Fail
  <2>2. CASE Current(mine[w])
    BY <1>2, <1>8, <2>1, <2>2 DEF Finish, Fail, Current, JobStatus
  <2>3. CASE ~Current(mine[w])
    BY <1>1, <1>8, <2>3 DEF Finish, Fail
  <2> QED
    BY <2>2, <2>3
<1>9. CASE GrantUnit \/ \E status \in {"active", "suspended"} : SetStatus(status)
  BY <1>1, <1>9 DEF GrantUnit, SetStatus, jobs
<1>10. CASE \E b \in Batch : \/ CreateBatch(b) \/ ScheduleBatch(b) \/ CommitImport(b) \/ SubmitReview(b)
                             \/ Approve(b) \/ Reject(b) \/ ReopenBatch(b) \/ CancelBatch(b)
  BY <1>1, <1>10 DEF CreateBatch, ScheduleBatch, CommitImport, SubmitReview, Approve, Reject, ReopenBatch,
     CancelBatch, jobs
<1>11. CASE \/ \E r \in Report : Publish(r)
            \/ \E w \in Worker : ReadExpired(w) \/ Begin(w) \/ Crash(w)
            \/ UNCHANGED vars
  BY <1>1, <1>11 DEF Publish, ReadExpired, Begin, Crash, jobs, vars
<1> QED
  BY <1>3, <1>4, <1>5, <1>6, <1>7, <1>8, <1>9, <1>10, <1>11 DEF Next

(* Publications only come from Publish.                                    *)
LEMMA PublishedBy ==
  ASSUME [Next]_vars
  PROVE  UNCHANGED published \/ \E r \in Report : Publish(r)
<1>1. CASE Offboard \/ GrantUnit \/ \E status \in {"active", "suspended"} : SetStatus(status)
  BY <1>1 DEF Offboard, GrantUnit, SetStatus
<1>2. CASE \E b \in Batch : \/ CreateBatch(b) \/ ScheduleBatch(b) \/ CommitImport(b) \/ SubmitReview(b)
                            \/ Approve(b) \/ Reject(b) \/ ReopenBatch(b) \/ CancelBatch(b)
  BY <1>2 DEF CreateBatch, ScheduleBatch, CommitImport, SubmitReview, Approve, Reject, ReopenBatch, CancelBatch
<1>3. CASE \/ \E r \in Report : CreateReport(r) \/ RetryJob(r) \/ Lapse(r)
           \/ \E w \in Worker : ReadExpired(w) \/ Begin(w) \/ Finish(w) \/ Fail(w) \/ Crash(w)
           \/ \E w \in Worker : \E seen \in scan[w] : Recover(w, seen)
           \/ \E w \in Worker, r \in Report : Claim(w, r)
           \/ UNCHANGED vars
  BY <1>3 DEF CreateReport, RetryJob, Lapse, ReadExpired, Begin, Finish, Fail, Crash, Recover, Claim, staff, vars
<1> QED
  BY <1>1, <1>2, <1>3 DEF Next

(* A new snapshot takes the next version of its batch: with itself not yet *)
(* among them, there are fewer snapshots than reports.                     *)
LEMMA NextVersion ==
  ASSUME NEW r \in Report, report[r].status = "none"
  PROVE  Cardinality(Snapshots(BatchOf[r])) + 1 \in 1..Cardinality(Report)
<1> DEFINE made == Snapshots(BatchOf[r])
<1>1. made \subseteq Report /\ r \notin made /\ IsFiniteSet(Report)
  BY DeliveryConstants DEF Snapshots, Reports
<1>2. IsFiniteSet(made) /\ Cardinality(made) \in Nat /\ Cardinality(Report) \in Nat
  BY <1>1, FS_Subset, FS_CardinalityType
<1>3. Cardinality(made \cup {r}) = Cardinality(made) + 1
  BY <1>1, <1>2, FS_AddElement
<1>4. Cardinality(made \cup {r}) <= Cardinality(Report)
  BY <1>1, FS_Subset, made \cup {r} \subseteq Report
<1> QED
  BY <1>2, <1>3, <1>4

LEMMA SnapshotInit == Init => SnapshotInv
<1> SUFFICES ASSUME Init PROVE SnapshotInv
  OBVIOUS
<1>1. \A b \in Batch : batch[b].approval = 0 /\ reviews[b] = 0 /\ batch[b].status \in {"none", "preparing"}
  BY DEF Init
<1>2. \A r \in Report : report[r].approval = 0 /\ job[r].status = "none" /\ BatchOf[r] \in Batch
  BY DeliveryConstants DEF Init, NoReport, NoJob, Unclaimed
<1> QED
  BY <1>1, <1>2 DEF Init, SnapshotInv, MadeForApproval, ApprovedNow

LEMMA SnapshotStep ==
  ASSUME TypeOK, TypeOK', ReportFollowsJob, SnapshotInv, [Next]_vars
  PROVE  SnapshotInv'
<1>1. /\ \A b \in Batch : ApprovalStep(b) /\ batch[b] \in BatchRow /\ reviews[b] \in Nat
      /\ \A r \in Report : ReportStep(r) /\ BatchOf[r] \in Batch /\ report[r] \in ReportRow
  BY ApprovalSteps, ReportSteps, TypeParts, DeliveryConstants
<1>2. \A b \in Batch : batch'[b].approval <= reviews'[b]
  BY <1>1 DEF ApprovalStep, SnapshotInv, BatchRow
<1>3. \A b \in Batch : batch'[b].status \in {"approved", "delivered"} => batch'[b].content > 0
  BY <1>1 DEF ApprovalStep, SnapshotInv, BatchRow
<1>4. ASSUME NEW r \in Report PROVE MadeForApproval(r)'
  <2> DEFINE b == BatchOf[r]
  <2>0. /\ b \in Batch /\ ApprovalStep(b) /\ ReportStep(r) /\ batch[b] \in BatchRow /\ report[r] \in ReportRow
        /\ reviews[b] \in Nat /\ batch[b].approval <= reviews[b] /\ report[r].approval <= reviews[b]
        /\ batch[b].approval # 0 /\ report[r].approval = batch[b].approval => report[r].content = batch[b].content
    BY <1>1, <1>4 DEF SnapshotInv, MadeForApproval, ApprovedNow
  <2>1. CASE CreateReport(r)
    <3>1. /\ report'[r].approval = batch[b].approval /\ report'[r].content = batch[b].content
          /\ UNCHANGED <<batch, reviews>>
      BY <2>1, TypeParts DEF CreateReport, staff
    <3> QED
      BY <2>0, <3>1 DEF MadeForApproval, ApprovedNow
  <2>2. CASE report'[r].approval = report[r].approval /\ report'[r].content = report[r].content
    <3> HIDE DEF b
    <3>1. report'[r].approval <= reviews'[b]
      BY <2>0, <2>2 DEF ApprovalStep, ReportRow
    <3>2. batch'[b].approval # 0 /\ report'[r].approval = batch'[b].approval => report'[r].content = batch'[b].content
      BY <2>0, <2>2 DEF ApprovalStep, ReportRow, BatchRow
    <3> QED
      BY <3>1, <3>2 DEF MadeForApproval, ApprovedNow, b
  <2> QED
    BY <2>0, <2>1, <2>2 DEF ReportStep, MovedOn
<1>5. ASSUME NEW r \in Report, job'[r].status # "none" PROVE report'[r].version \in 1..Cardinality(Report)
  <2>1. CASE CreateReport(r)
    <3>1. report'[r].version = Cardinality(Snapshots(BatchOf[r])) + 1 /\ report[r].status = "none"
      BY <2>1, TypeParts DEF CreateReport
    <3> QED
      BY <3>1, NextVersion
  <2>2. CASE ~CreateReport(r)
    <3>1. job[r].status # "none"
      BY <1>5, <2>2, JobAppears
    <3>2. report'[r].version = report[r].version
      BY <1>1, <2>2 DEF ReportStep, MovedOn
    <3> QED
      BY <3>1, <3>2 DEF SnapshotInv
  <2> QED
    BY <2>1, <2>2
<1>6. ASSUME NEW r \in published' PROVE report'[r].status = "completed"
  <2>1. CASE UNCHANGED published
    <3>1. r \in Report /\ report[r].status = "completed"
      BY <1>6, <2>1, TypeParts DEF SnapshotInv
    <3>2. report'[r] = report[r]
      BY <1>1, <3>1 DEF ReportStep, CreateReport, MovedOn
    <3> QED
      BY <3>1, <3>2
  <2>2. ASSUME NEW s \in Report, Publish(s) PROVE report'[r].status = "completed"
    BY <1>6, <2>2 DEF Publish, SnapshotInv, jobs
  <2> QED
    BY <2>1, <2>2, PublishedBy
<1> QED
  BY <1>2, <1>3, <1>4, <1>5, <1>6 DEF SnapshotInv

-----------------------------------------------------------------------------
(***************************************************************************)
(* Every step is one of the abstract register, or leaves it alone.         *)
(***************************************************************************)
ApprovedMap == [b \in Batch |-> ApprovedContent(b)]
RegisterMap == [b \in Batch |-> RegisterOf(b)]

LEMMA RegisterKept ==
  ASSUME TypeOK, ReportFollowsJob, SnapshotInv, [Next]_vars, UNCHANGED published
  PROVE  UNCHANGED RegisterMap
<1>1. \A r \in published : report'[r] = report[r]
  <2> TAKE r \in published
  <2>1. r \in Report /\ report[r].status = "completed"
    BY TypeParts DEF SnapshotInv
  <2>2. ReportStep(r)
    BY <2>1, ReportSteps
  <2> QED
    BY <2>1, <2>2 DEF ReportStep, CreateReport, MovedOn
<1>2. \A b \in Batch : RegisterOf(b)' = RegisterOf(b)
  BY <1>1 DEF RegisterOf, Publications, Reports
<1> QED
  BY <1>2 DEF RegisterMap

(* Rows whose approved content stays.                                      *)
LEMMA ApprovedKept ==
  ASSUME \A b \in Batch : ApprovedContent(b)' = ApprovedContent(b)
  PROVE  UNCHANGED ApprovedMap
BY DEF ApprovedMap

LEMMA ContentOf ==
  ASSUME NEW b \in Batch
  PROVE  /\ batch[b].status \in {"approved", "delivered"} => ApprovedContent(b) = {batch[b].content}
         /\ batch[b].status \notin {"approved", "delivered"} => ApprovedContent(b) = {}
         /\ batch'[b].status \in {"approved", "delivered"} => ApprovedContent(b)' = {batch'[b].content}
         /\ batch'[b].status \notin {"approved", "delivered"} => ApprovedContent(b)' = {}
BY DEF ApprovedContent

LEMMA BatchStepRegister ==
  ASSUME TypeOK, NEW b \in Batch, UNCHANGED RegisterMap,
         \/ CreateBatch(b) \/ ScheduleBatch(b) \/ CommitImport(b) \/ SubmitReview(b)
         \/ Approve(b) \/ Reject(b) \/ ReopenBatch(b) \/ CancelBatch(b)
  PROVE  Register!Next
<1> USE DEF BatchStatus
<1>0. /\ 0 \in 0..MaxReviews /\ batch[b].approval \in 0..MaxReviews /\ batch \in [Batch -> BatchRow]
      /\ reviews \in [Batch -> 0..MaxReviews] /\ batch[b].content \in 0..MaxContent
  BY DeliveryConstants, TypeParts, ApprovalType
<1>1. CASE Approve(b)
  <2>1. /\ reviews[b] + 1 \in 0..MaxReviews /\ SetBatch(b, "approved", reviews[b] + 1)
        /\ batch[b].status = "awaiting_review" /\ batch[b].content \in 1..MaxContent
    BY <1>0, <1>1, DeliveryConstants DEF Approve
  <2>2. /\ batch'[b].status = "approved" /\ batch'[b].content = batch[b].content
        /\ \A c \in Batch : c # b => batch'[c] = batch[c]
    BY <1>0, <2>1, SetBatchType
  <2>3. /\ ApprovedMap[b] = {} /\ ApprovedContent(b)' = {batch[b].content}
        /\ \A c \in Batch : c # b => ApprovedContent(c)' = ApprovedContent(c)
    BY <2>1, <2>2 DEF ApprovedContent, ApprovedMap
  <2>4. ApprovedMap' = [ApprovedMap EXCEPT ![b] = {batch[b].content}]
    BY <2>3 DEF ApprovedMap
  <2>5. Register!Approve(b, batch[b].content)
    BY <2>3, <2>4 DEF Register!Approve, ApprovedMap, RegisterMap
  <2> QED
    BY <2>1, <2>5 DEF Register!Next
<1>2. CASE ~Approve(b)
  <2>1. /\ batch'[b].status \notin {"approved", "delivered"}
        /\ \A c \in Batch : c # b => batch'[c] = batch[c]
    <3>1. CASE CommitImport(b)
      BY <1>0, <3>1 DEF CommitImport
    <3>2. CASE ~CommitImport(b)
      <4>1. PICK status \in BatchStatus \ {"approved", "delivered"}, approval \in {0, batch[b].approval} :
              SetBatch(b, status, approval)
        BY <1>2, <3>2 DEF CreateBatch, ScheduleBatch, SubmitReview, Reject, ReopenBatch, CancelBatch
      <4> QED
        BY <1>0, <4>1, SetBatchType
    <3> QED
      BY <3>1, <3>2
  <2>2. ApprovedMap' = [c \in Batch |-> IF c \in {b} THEN {} ELSE ApprovedMap[c]]
    BY <2>1 DEF ApprovedMap, ApprovedContent
  <2>3. Register!Withdraw({b})
    BY <2>2 DEF Register!Withdraw, ApprovedMap, RegisterMap
  <2> QED
    BY <2>3 DEF Register!Next
<1> QED
  BY <1>1, <1>2

LEMMA PublishRegister ==
  ASSUME TypeOK, ReportFollowsJob, SnapshotInv, NEW r \in Report, Publish(r)
  PROVE  Register!Next
<1> DEFINE b == BatchOf[r]
<1> DEFINE entry == [version |-> report[r].version, content |-> batch[b].content]
<1>1. /\ b \in Batch /\ report[r].status = "completed" /\ batch[b].status \in {"approved", "delivered"}
      /\ ApprovedNow(r) /\ Newest(r) /\ published' = published \cup {r} /\ UNCHANGED report
      /\ SetBatch(b, "delivered", batch[b].approval)
      /\ batch[b].approval \in 0..MaxReviews /\ "delivered" \in BatchStatus
  BY DeliveryConstants, ApprovalType DEF Publish, jobs, BatchStatus
<1>2. report[r].version \in 1..Cardinality(Report) /\ report[r].content = batch[b].content
  BY <1>1 DEF SnapshotInv, MadeForApproval, ReportFollowsJob
<1>3. RegisterMap' = [RegisterMap EXCEPT ![b] = RegisterMap[b] \cup {entry}]
  <2>1. /\ \A c \in Batch : c # b => Publications(c)' = Publications(c)
        /\ Publications(b)' = Publications(b) \cup {r}
    BY <1>1 DEF Publications, Reports
  <2>2. \A c \in Batch : c # b => RegisterOf(c)' = RegisterOf(c)
    BY <1>1, <2>1 DEF RegisterOf
  <2>3. RegisterOf(b)' = RegisterOf(b) \cup {entry}
    BY <1>1, <1>2, <2>1 DEF RegisterOf
  <2> HIDE DEF b, entry
  <2> QED
    BY <1>1, <2>2, <2>3 DEF RegisterMap
<1>4. \A v \in RegisterMap[b] : v.version < report[r].version
  BY <1>1 DEF RegisterMap, RegisterOf, Newest
<1>5. UNCHANGED ApprovedMap
  <2> HIDE DEF b
  <2>1. /\ batch'[b].status = "delivered" /\ batch'[b].content = batch[b].content
        /\ \A c \in Batch : c # b => batch'[c] = batch[c]
    BY <1>1, TypeParts, SetBatchType
  <2>2. \A c \in Batch : ApprovedContent(c)' = ApprovedContent(c)
    BY <1>1, <2>1 DEF ApprovedContent
  <2> QED
    BY <2>2, ApprovedKept
<1>6. batch[b].content \in ApprovedMap[b]
  BY <1>1 DEF ApprovedMap, ApprovedContent
<1> HIDE DEF b
<1>7. Register!Deliver(b, report[r].version)
  BY <1>1, <1>3, <1>4, <1>5, <1>6 DEF Register!Deliver, ApprovedMap, RegisterMap
<1> QED
  BY <1>1, <1>2, <1>7 DEF Register!Next

LEMMA OffboardRegister ==
  ASSUME TypeOK, Offboard, UNCHANGED RegisterMap
  PROVE  Register!Next
<1>1. \A b \in Batch : b \in Leaving => batch'[b].status = "cancelled"
  BY TypeParts DEF Offboard, BatchRow
<1>2. \A b \in Batch : b \notin Leaving => batch'[b] = batch[b]
  BY DEF Offboard
<1>3. ApprovedMap' = [b \in Batch |-> IF b \in Leaving THEN {} ELSE ApprovedMap[b]]
  BY <1>1, <1>2 DEF ApprovedMap, ApprovedContent
<1>4. Register!Withdraw(Leaving) /\ Leaving \in SUBSET Batch
  BY <1>3 DEF Register!Withdraw, ApprovedMap, RegisterMap, Leaving
<1> QED
  BY <1>4 DEF Register!Next

LEMMA RegisterStep ==
  TypeOK /\ ReportFollowsJob /\ SnapshotInv /\ [Next]_vars => [Register!Next]_<<ApprovedMap, RegisterMap>>
<1> SUFFICES ASSUME TypeOK, ReportFollowsJob, SnapshotInv, [Next]_vars
             PROVE  Register!Next \/ UNCHANGED <<ApprovedMap, RegisterMap>>
  OBVIOUS
<1>1. CASE \E r \in Report : Publish(r)
  BY <1>1, PublishRegister
<1>2. CASE UNCHANGED published
  <2>0. UNCHANGED RegisterMap
    BY <1>2, RegisterKept
  <2>1. CASE \E b \in Batch : \/ CreateBatch(b) \/ ScheduleBatch(b) \/ CommitImport(b) \/ SubmitReview(b)
                              \/ Approve(b) \/ Reject(b) \/ ReopenBatch(b) \/ CancelBatch(b)
    BY <2>0, <2>1, BatchStepRegister
  <2>2. CASE Offboard
    BY <2>0, <2>2, OffboardRegister
  <2>3. CASE UNCHANGED batch
    <3>1. \A b \in Batch : ApprovedContent(b)' = ApprovedContent(b)
      BY <2>3 DEF ApprovedContent
    <3> QED
      BY <2>0, <3>1, ApprovedKept
  <2>4. CASE GrantUnit \/ \E status \in {"active", "suspended"} : SetStatus(status)
    BY <2>3, <2>4 DEF GrantUnit, SetStatus
  <2>5. CASE \/ \E r \in Report : CreateReport(r) \/ RetryJob(r) \/ Lapse(r)
             \/ \E w \in Worker : ReadExpired(w) \/ Begin(w) \/ Finish(w) \/ Fail(w) \/ Crash(w)
             \/ \E w \in Worker : \E seen \in scan[w] : Recover(w, seen)
             \/ \E w \in Worker, r \in Report : Claim(w, r)
             \/ UNCHANGED vars
    <3>1. UNCHANGED batch
      BY <2>5 DEF CreateReport, RetryJob, Lapse, ReadExpired, Begin, Finish, Fail, Crash, Recover, Claim, staff, vars
    <3> QED
      BY <2>3, <3>1
  <2> QED
    BY <1>1, <2>1, <2>2, <2>4, <2>5 DEF Next
<1> QED
  BY <1>1, <1>2, PublishedBy

LEMMA RegisterInit == Init => Register!Init
<1> SUFFICES ASSUME Init PROVE Register!Init
  OBVIOUS
<1>1. \A b \in Batch : ApprovedContent(b) = {} /\ RegisterOf(b) = {}
  BY DEF Init, ApprovedContent, RegisterOf, Publications
<1> QED
  BY <1>1 DEF Register!Init

(* Customers only ever get what a reviewer approved, in rising versions,   *)
(* and keep it (project_routes.py, create_report_job and publish).         *)
THEOREM DeliveryImplementsRegister == Spec => ImplementsRegister
<1>1. TypeOK /\ ReportFollowsJob /\ SnapshotInv /\ [Next]_vars
        => [Register!Next]_<<[b \in Batch |-> ApprovedContent(b)], [b \in Batch |-> RegisterOf(b)]>>
  BY RegisterStep DEF ApprovedMap, RegisterMap
<1>2. Spec => []SnapshotInv
  <2>1. TypeOK /\ TypeOK' /\ ReportFollowsJob /\ SnapshotInv /\ [Next]_vars => SnapshotInv'
    BY SnapshotStep
  <2> QED
    BY <2>1, SnapshotInit, DeliveryTypeCorrect, ReportsFollowJobs, PTL DEF Spec
<1> QED
  BY <1>1, <1>2, RegisterInit, DeliveryTypeCorrect, ReportsFollowJobs, PTL DEF Spec, ImplementsRegister, Register!Spec

-----------------------------------------------------------------------------
(* Units are promised once and spent exactly on what was delivered, for    *)
(* any number of batches and grants.                                       *)
THEOREM UnitsAlwaysAccounted == Spec => []UnitsAccounted
BY UnitsFollowBatches, UnitsWithinGrants, PTL DEF UnitsAccounted

(* Neither the row of a completed report nor its files change under late   *)
(* workers, recoveries and retries.                                        *)
THEOREM CompletedReportsAreFinal == Spec => CompletedIsFinal
BY CompletedNeverChanges, LateWorkersWriteElsewhere, PTL DEF CompletedIsFinal
=============================================================================
