---------------------------- MODULE LifecycleProofs ----------------------------
(***************************************************************************)
(* Theorems about the end of an organization, the onboarding of a zone and *)
(* form drafts: for any organizations, people, jobs and files, any zone,   *)
(* plans and edits by others, any windows and texts, and any number of     *)
(* stops, losses and late workers.                                         *)
(***************************************************************************)
EXTENDS Procedures, SumFacts, SequenceTheorems, TLAPS

-----------------------------------------------------------------------------
(***************************************************************************)
(* The end of an organization.                                             *)
(***************************************************************************)
JobRow == [status : {"none", "queued", "running", "completed", "failed", "cancelled",
                     "needs_review", "deleted"},
           claim : 0..MaxClaims]
MessageStatus == {"none", "planned", "accepted", "unknown", "cancelled", "deleted"}
Status == {"active", "offboarding", "erasing", "erased"}
Claims == Report \X (1..MaxClaims)
Hashed == {None} \cup [jobs : UNION {[Of(t) -> JobRow] : t \in Tenant},
                       mails : UNION {[Of(t) \cap Mail -> MessageStatus] : t \in Tenant},
                       members : SUBSET User]
PlanRow == [objects : SUBSET File, rows : Hashed]
EraserRow ==
  [phase : {"off", "locking", "inventory", "unlink"}, plan : PlanRow \cup {None},
   todo : SUBSET User, forget : SUBSET User, left : SUBSET File]
ReceiptRow == [status : {"none", "objects_pending", "erased"}, plan : PlanRow]

WorkTyped ==
  /\ status \in [Tenant -> Status]
  /\ job \in [Job -> JobRow]
  /\ message \in [Mail -> MessageStatus]
  /\ writing \subseteq Claims /\ written \subseteq Claims
PeopleTyped ==
  /\ member \subseteq User \X Tenant /\ inviting \subseteq User \X Tenant
  /\ anonymous \subseteq User
  /\ userLock \in [User -> Tenant \cup {None}]
ErasureTyped ==
  /\ object \in [Tenant -> SUBSET File]
  /\ plan \in [Tenant -> PlanRow \cup {None}]
  /\ eraser \in [Tenant -> EraserRow]
  /\ receipt \in [Tenant -> ReceiptRow]
Typed == WorkTyped /\ PeopleTyped /\ ErasureTyped

\* Every step, by what of the erasure it concerns.
JobStep ==
  \/ \E j \in Job : Submit(j) \/ Claim(j) \/ SettleMail(j) \/ RecoverExpired(j) \/ Reconcile(j)
  \/ \E w \in writing \cup written : FinishReport(w)
PaperStep ==
  \E t \in Tenant : \/ CreateRequest(t) \/ CreatePlan(t) \/ PreviewExpires(t)
                    \/ ApproveRetention(t)

LEMMA Steps ==
  ASSUME [Next]_vars
  PROVE  \/ JobStep \/ PaperStep \/ UNCHANGED vars
         \/ \E w \in writing \cup written : GenerateBundle(w)
         \/ \E t \in Tenant : \/ Offboard(t) \/ PlanErasure(t) \/ BeginErasure(t)
                              \/ CommitErasure(t) \/ ResumeErasure(t) \/ Inventory(t)
                              \/ CloseErasure(t) \/ Stop(t)
                              \/ \E f \in eraser[t].left : Unlink(t, f)
         \/ \E u \in User, t \in Tenant : Invite(u, t) \/ AddMember(u, t) \/ LockUser(t, u)
BY Zenon DEF Next, Erase, Cleanup, JobStep, PaperStep

LEMMA JobFrame ==
  ASSUME JobStep
  PROVE  UNCHANGED <<status, request, preview, object, people, erasure>>
BY DEF JobStep, Submit, Claim, SettleMail, RecoverExpired, Reconcile, FinishReport

LEMMA PaperFrame ==
  ASSUME PaperStep
  PROVE  UNCHANGED <<status, work, object, people, erasure>>
BY DEF PaperStep, CreateRequest, CreatePlan, PreviewExpires, ApproveRetention

-----------------------------------------------------------------------------
(***************************************************************************)
(* Types.                                                                  *)
(***************************************************************************)
LEMMA JobTypes ==
  ASSUME Typed, JobStep
  PROVE  WorkTyped'
<1> USE LifecycleConstants
<1>0. /\ status \in [Tenant -> Status] /\ job \in [Job -> JobRow]
      /\ message \in [Mail -> MessageStatus]
      /\ writing \subseteq Claims /\ written \subseteq Claims
      /\ Report \subseteq Job /\ Mail \subseteq Job /\ status' = status
  BY JobFrame DEF Typed, WorkTyped, Job
<1>1. ASSUME NEW j \in Job, Submit(j)  PROVE WorkTyped'
  BY <1>0, <1>1 DEF Submit, WorkTyped, JobRow, MessageStatus
<1>2. ASSUME NEW j \in Job, Claim(j)  PROVE WorkTyped'
  <2>1. job[j].claim \in 0..MaxClaims /\ job[j].claim + 1 \in 1..MaxClaims
    BY <1>0, <1>2 DEF Claim, JobRow
  <2>2. job' \in [Job -> JobRow]
    BY <1>0, <1>2, <2>1 DEF Claim, JobRow
  <2>3. writing' \subseteq Claims
    BY <1>0, <1>2, <2>1 DEF Claim, Claims
  <2> QED
    BY <1>0, <1>2, <2>2, <2>3 DEF Claim, WorkTyped
<1>3. ASSUME NEW j \in Job, SettleMail(j)  PROVE WorkTyped'
  BY <1>0, <1>3 DEF SettleMail, WorkTyped, JobRow, MessageStatus
<1>4. ASSUME NEW j \in Job, RecoverExpired(j)  PROVE WorkTyped'
  BY <1>0, <1>4 DEF RecoverExpired, WorkTyped, JobRow, MessageStatus
<1>5. ASSUME NEW j \in Job, Reconcile(j)  PROVE WorkTyped'
  BY <1>0, <1>5 DEF Reconcile, WorkTyped, JobRow, MessageStatus
<1>6. ASSUME NEW w \in writing \cup written, FinishReport(w)  PROVE WorkTyped'
  BY <1>0, <1>6 DEF FinishReport, WorkTyped, JobRow
<1> QED
  BY <1>1, <1>2, <1>3, <1>4, <1>5, <1>6 DEF JobStep

\* What a plan says of the rows and files is typed, whatever it is a plan of.
LEMMA ManifestType ==
  ASSUME Typed, NEW t \in Tenant
  PROVE  Manifest(t) \in PlanRow
<1> USE LifecycleConstants
<1>1. [j \in Of(t) |-> job[j]] \in [Of(t) -> JobRow]
  BY DEF Typed, WorkTyped, Of
<1>2. [j \in Of(t) \cap Mail |-> message[j]] \in [Of(t) \cap Mail -> MessageStatus]
  BY DEF Typed, WorkTyped
<1>3. MembersOf(t) \in SUBSET User
  BY DEF MembersOf
<1>4. Rows(t) \in Hashed
  BY <1>1, <1>2, <1>3 DEF Rows, Hashed
<1>5. object[t] \in SUBSET File
  BY DEF Typed, ErasureTyped
<1> QED
  BY <1>4, <1>5 DEF Manifest, PlanRow

\* The fields of the rows an erasure keeps.
LEMMA RowFields ==
  ASSUME Typed, NEW t \in Tenant
  PROVE  /\ eraser[t] \in EraserRow /\ receipt[t] \in ReceiptRow
         /\ eraser[t].phase \in {"off", "locking", "inventory", "unlink"}
         /\ eraser[t].plan \in PlanRow \cup {None}
         /\ eraser[t].todo \subseteq User /\ eraser[t].forget \subseteq User
         /\ eraser[t].left \subseteq File
         /\ receipt[t].status \in {"none", "objects_pending", "erased"}
         /\ receipt[t].plan \in PlanRow
         /\ plan[t] \in PlanRow \cup {None}
         /\ object[t] \subseteq File
         /\ status[t] \in Status
BY DEF Typed, WorkTyped, ErasureTyped, EraserRow, ReceiptRow

LEMMA OffIsTyped ==
  /\ Off \in EraserRow
  /\ \A p \in PlanRow : [Off EXCEPT !.phase = "inventory", !.plan = p] \in EraserRow
  /\ \A p \in PlanRow : \A todo \in SUBSET User :
       [Off EXCEPT !.phase = "locking", !.plan = p, !.todo = todo] \in EraserRow
<1> DEFINE Phase == {"off", "locking", "inventory", "unlink"}
<1>1. ASSUME NEW phase \in Phase, NEW p \in PlanRow \cup {None}, NEW todo \in SUBSET User
      PROVE  [phase |-> phase, plan |-> p, todo |-> todo, forget |-> {}, left |-> {}]
               \in EraserRow
  BY DEF EraserRow
<1>2. Off \in EraserRow
  BY <1>1 DEF Off
<1>3. \A r \in EraserRow, p \in PlanRow :
        [r EXCEPT !.phase = "inventory", !.plan = p] \in EraserRow
  BY DEF EraserRow
<1>4. \A r \in EraserRow, p \in PlanRow, todo \in SUBSET User :
        [r EXCEPT !.phase = "locking", !.plan = p, !.todo = todo] \in EraserRow
  BY DEF EraserRow
<1> QED
  BY <1>2, <1>3, <1>4

LEMMA RowsStayTyped ==
  ASSUME Typed, NEW t \in Tenant
  PROVE  /\ [eraser[t] EXCEPT !.phase = "inventory"] \in EraserRow
         /\ [eraser[t] EXCEPT !.phase = "unlink", !.left = object[t]] \in EraserRow
         /\ \A f : [eraser[t] EXCEPT !.left = eraser[t].left \ {f}] \in EraserRow
         /\ \A u \in User : \A forget \in SUBSET User :
              [eraser[t] EXCEPT !.todo = eraser[t].todo \ {u}, !.forget = forget] \in EraserRow
<1>1. eraser[t] \in EraserRow /\ object[t] \in SUBSET File
  BY RowFields
<1>2. \A r \in EraserRow : [r EXCEPT !.phase = "inventory"] \in EraserRow
  BY DEF EraserRow
<1>3. \A r \in EraserRow, left \in SUBSET File :
        /\ [r EXCEPT !.phase = "unlink", !.left = left] \in EraserRow
        /\ [r EXCEPT !.left = left] \in EraserRow
  BY DEF EraserRow
<1>4. \A r \in EraserRow, todo \in SUBSET User, forget \in SUBSET User :
        [r EXCEPT !.todo = todo, !.forget = forget] \in EraserRow
  BY DEF EraserRow
<1>5. \A f : eraser[t].left \ {f} \in SUBSET File
  BY RowFields
<1>6. \A u \in User : eraser[t].todo \ {u} \in SUBSET User
  BY RowFields
<1> QED
  BY <1>1, <1>2, <1>3, <1>4, <1>5, <1>6

LEMMA InitTypes ==
  ASSUME Init  PROVE Typed
<1> USE LifecycleConstants
<1>1. NoReceipt \in ReceiptRow
  BY DEF NoReceipt, ReceiptRow, PlanRow, Hashed
<1>2. NoJob \in JobRow
  BY DEF NoJob, JobRow
<1>3. WorkTyped
  BY <1>2 DEF Init, WorkTyped, Status, MessageStatus
<1>4. PeopleTyped
  BY DEF Init, PeopleTyped
<1>5. ErasureTyped
  BY <1>1, OffIsTyped DEF Init, ErasureTyped
<1> QED
  BY <1>3, <1>4, <1>5 DEF Typed

LEMMA OffboardTypes ==
  ASSUME Typed, NEW t \in Tenant, Offboard(t)
  PROVE  WorkTyped'
<1> USE LifecycleConstants
<1>1. job' \in [Job -> JobRow]
  BY DEF Offboard, Typed, WorkTyped, JobRow
<1>2. message' \in [Mail -> MessageStatus]
  BY DEF Offboard, Typed, WorkTyped, MessageStatus
<1>3. status' \in [Tenant -> Status]
  BY DEF Offboard, Typed, WorkTyped, Status
<1> QED
  BY <1>1, <1>2, <1>3 DEF Offboard, Typed, WorkTyped

LEMMA GenerateTypes ==
  ASSUME Typed, NEW w \in writing \cup written, GenerateBundle(w)
  PROVE  Typed'
<1> USE LifecycleConstants
<1>1. w \in Claims /\ w \in File /\ w[1] \in Job /\ OwnerOf[w[1]] \in Tenant
  BY DEF GenerateBundle, Typed, WorkTyped, Claims, File, Job
<1>2. WorkTyped'
  BY <1>1 DEF GenerateBundle, Typed, WorkTyped
<1>3. object' \in [Tenant -> SUBSET File]
  BY <1>1 DEF GenerateBundle, Typed, ErasureTyped
<1> QED
  BY <1>2, <1>3 DEF GenerateBundle, Typed, PeopleTyped, ErasureTyped, people, erasure

LEMMA CommitTypes ==
  ASSUME Typed, NEW t \in Tenant, CommitErasure(t), eraser[t].plan \in PlanRow
  PROVE  Typed'
<1> USE LifecycleConstants
<1>1. WorkTyped'
  <2>1. job' \in [Job -> JobRow]
    BY DEF CommitErasure, Typed, WorkTyped, NoJob, JobRow
  <2>2. message' \in [Mail -> MessageStatus]
    BY DEF CommitErasure, Typed, WorkTyped, MessageStatus
  <2>3. status' \in [Tenant -> Status]
    BY DEF CommitErasure, Typed, WorkTyped, Status
  <2> QED
    BY <2>1, <2>2, <2>3 DEF CommitErasure, Typed, WorkTyped
<1>2. PeopleTyped'
  BY RowFields DEF CommitErasure, Released, Typed, PeopleTyped
<1>3. ErasureTyped'
  <2>1. eraser' \in [Tenant -> EraserRow]
    BY RowsStayTyped DEF CommitErasure, Typed, ErasureTyped
  <2>2. receipt' \in [Tenant -> ReceiptRow]
    BY DEF CommitErasure, Typed, ErasureTyped, ReceiptRow
  <2> QED
    BY <2>1, <2>2 DEF CommitErasure, Typed, ErasureTyped
<1> QED
  BY <1>1, <1>2, <1>3 DEF Typed

LEMMA LockTypes ==
  ASSUME Typed, NEW t \in Tenant, NEW u \in User, LockUser(t, u)
  PROVE  Typed'
<1> USE LifecycleConstants
<1>1. PeopleTyped'
  BY DEF LockUser, Typed, PeopleTyped
<1>2. eraser' \in [Tenant -> EraserRow]
  <2> DEFINE forget == IF \E s \in Tenant \ {t} : <<u, s>> \in member
                       THEN eraser[t].forget ELSE eraser[t].forget \cup {u}
             new == [eraser[t] EXCEPT !.todo = eraser[t].todo \ {u}, !.forget = forget]
  <2>1. eraser' = [eraser EXCEPT ![t] = new]
    BY DEF LockUser, Typed, ErasureTyped, EraserRow
  <2>2. forget \in SUBSET User
    BY RowFields
  <2>3. new \in EraserRow
    BY <2>2, RowsStayTyped
  <2> QED
    BY <2>1, <2>3 DEF Typed, ErasureTyped
<1> QED
  BY <1>1, <1>2 DEF LockUser, Typed, WorkTyped, ErasureTyped, work

LEMMA ErasureTypes ==
  ASSUME Typed, NEW t \in Tenant,
         \/ PlanErasure(t) \/ BeginErasure(t) \/ ResumeErasure(t) \/ Inventory(t)
         \/ CloseErasure(t) \/ Stop(t) \/ \E f \in eraser[t].left : Unlink(t, f)
  PROVE  Typed'
<1> USE LifecycleConstants
<1>0. /\ MembersOf(t) \in SUBSET User /\ Manifest(t) \in PlanRow 
      /\ eraser \in [Tenant -> EraserRow] /\ plan \in [Tenant -> PlanRow \cup {None}]
      /\ receipt \in [Tenant -> ReceiptRow] /\ object \in [Tenant -> SUBSET File]
      /\ status \in [Tenant -> Status]
  BY ManifestType DEF MembersOf, Typed, ErasureTyped, WorkTyped
<1>1. CASE PlanErasure(t)
  BY <1>0, <1>1 DEF PlanErasure, Typed, WorkTyped, PeopleTyped, ErasureTyped, work, people
<1>2. CASE BeginErasure(t)
  <2>1. eraser' \in [Tenant -> EraserRow]
    BY <1>0, <1>2, OffIsTyped DEF BeginErasure
  <2> QED
    BY <2>1, <1>2 DEF BeginErasure, Typed, WorkTyped, PeopleTyped, ErasureTyped, work, people
<1>3. CASE ResumeErasure(t)
  <2>1. eraser' \in [Tenant -> EraserRow]
    BY <1>0, <1>3, RowFields, OffIsTyped DEF ResumeErasure
  <2> QED
    BY <2>1, <1>3 DEF ResumeErasure, Typed, WorkTyped, PeopleTyped, ErasureTyped, work, people
<1>4. CASE Inventory(t)
  <2>1. eraser' \in [Tenant -> EraserRow]
    BY <1>0, <1>4, RowsStayTyped, OffIsTyped DEF Inventory, NothingNew
  <2> QED
    BY <2>1, <1>4 DEF Inventory, Typed, WorkTyped, PeopleTyped, ErasureTyped, work, people
<1>5. CASE CloseErasure(t)
  <2>1. receipt' \in [Tenant -> ReceiptRow]
    BY <1>0, <1>5 DEF CloseErasure, ReceiptRow
  <2>2. eraser' \in [Tenant -> EraserRow]
    BY <1>0, <1>5, OffIsTyped DEF CloseErasure
  <2>3. status' \in [Tenant -> Status]
    BY <1>0, <1>5 DEF CloseErasure, Status
  <2> QED
    BY <2>1, <2>2, <2>3, <1>5
       DEF CloseErasure, Typed, WorkTyped, PeopleTyped, ErasureTyped, work, people
<1>6. CASE Stop(t)
  <2>1. eraser' \in [Tenant -> EraserRow]
    BY <1>0, <1>6, OffIsTyped DEF Stop
  <2>2. userLock' \in [User -> Tenant \cup {None}]
    BY <1>6 DEF Stop, Released, Typed, PeopleTyped
  <2> QED
    BY <2>1, <2>2, <1>6 DEF Stop, Typed, WorkTyped, PeopleTyped, ErasureTyped, work
<1>7. CASE \E f \in eraser[t].left : Unlink(t, f)
  <2>0. PICK f \in eraser[t].left : Unlink(t, f)
    BY <1>7
  <2>1. eraser' \in [Tenant -> EraserRow]
    <3>1. eraser' = [eraser EXCEPT ![t] = [eraser[t] EXCEPT !.left = eraser[t].left \ {f}]]
      BY <1>0, <2>0 DEF Unlink
    <3> QED
      BY <1>0, <3>1, RowsStayTyped
  <2>2. object' \in [Tenant -> SUBSET File]
    BY <1>0, <1>7 DEF Unlink
  <2> QED
    BY <2>1, <2>2, <1>7
       DEF Unlink, Typed, WorkTyped, PeopleTyped, ErasureTyped, work, people
<1> QED
  BY <1>1, <1>2, <1>3, <1>4, <1>5, <1>6, <1>7

\* An erasure that runs has a plan, and one past its locks follows its receipt.
PlansFollow ==
  \A t \in Tenant :
    /\ eraser[t].phase # "off" => eraser[t].plan \in PlanRow
    /\ eraser[t].phase = "locking" =>
         receipt[t].status = "none" /\ status[t] = "offboarding"
    /\ eraser[t].phase \in {"inventory", "unlink"} =>
         receipt[t].status = "objects_pending" /\ eraser[t].plan = receipt[t].plan
    /\ receipt[t].status # "none" => status[t] \in {"erasing", "erased"}

LEMMA TypesStay ==
  ASSUME Typed, PlansFollow, [Next]_vars
  PROVE  Typed'
<1>1. CASE JobStep
  BY <1>1, JobTypes, JobFrame DEF Typed, PeopleTyped, ErasureTyped, people, erasure
<1>2. CASE PaperStep
  BY <1>2, PaperFrame DEF Typed, WorkTyped, PeopleTyped, ErasureTyped, work, people, erasure
<1>3. CASE UNCHANGED vars
  BY <1>3 DEF Typed, WorkTyped, PeopleTyped, ErasureTyped, vars, work, people, erasure
<1>4. CASE \E w \in writing \cup written : GenerateBundle(w)
  BY <1>4, GenerateTypes
<1>5. ASSUME NEW t \in Tenant, Offboard(t)  PROVE Typed'
  BY <1>5, OffboardTypes DEF Offboard, Typed, PeopleTyped, ErasureTyped, people, erasure
<1>6. ASSUME NEW t \in Tenant, CommitErasure(t)  PROVE Typed'
  BY <1>6, CommitTypes DEF CommitErasure, PlansFollow
<1>7. ASSUME NEW u \in User, NEW t \in Tenant, Invite(u, t) \/ AddMember(u, t)  PROVE Typed'
  BY <1>7 DEF Invite, AddMember, Typed, WorkTyped, PeopleTyped, ErasureTyped, work, erasure
<1>8. ASSUME NEW u \in User, NEW t \in Tenant, LockUser(t, u)  PROVE Typed'
  BY <1>8, LockTypes
<1> QED
  BY <1>1, <1>2, <1>3, <1>4, <1>5, <1>6, <1>7, <1>8, ErasureTypes, Steps

-----------------------------------------------------------------------------
(***************************************************************************)
(* What a step of an erasure does to the rows of its organization; those   *)
(* of the others stay.                                                     *)
(***************************************************************************)
LEMMA BeginEffect ==
  ASSUME Typed, NEW t \in Tenant, BeginErasure(t)
  PROVE  /\ UNCHANGED <<status, receipt, object, plan>>
         /\ receipt[t].status = "none" /\ status[t] = "offboarding"
         /\ plan[t] = Manifest(t)
         /\ eraser[t].phase = "off"
         /\ eraser'[t].phase = "locking" /\ eraser'[t].plan = plan[t]
         /\ eraser'[t].todo = MembersOf(t)
         /\ \A s \in Tenant \ {t} : eraser'[s] = eraser[s]
BY DEF BeginErasure, Erasable, Off, NoReceipt, Typed, ErasureTyped

LEMMA LockEffect ==
  ASSUME Typed, NEW t \in Tenant, NEW u \in User, LockUser(t, u)
  PROVE  /\ UNCHANGED <<status, receipt, object, plan, member, inviting, anonymous>>
         /\ eraser[t].phase = "locking" /\ u \in eraser[t].todo /\ userLock[u] = None
         /\ eraser'[t].phase = "locking" /\ eraser'[t].plan = eraser[t].plan
         /\ eraser'[t].todo = eraser[t].todo \ {u}
         /\ eraser[t].forget \subseteq eraser'[t].forget
         /\ eraser'[t].forget \subseteq eraser[t].forget \cup {u}
         /\ u \in eraser'[t].forget \/ \E s \in Tenant \ {t} : <<u, s>> \in member
         /\ \A s \in Tenant \ {t} : eraser'[s] = eraser[s]
         /\ userLock'[u] = t /\ \A v \in User \ {u} : userLock'[v] = userLock[v]
<1> DEFINE forget == IF \E s \in Tenant \ {t} : <<u, s>> \in member
                     THEN eraser[t].forget ELSE eraser[t].forget \cup {u}
           new == [eraser[t] EXCEPT !.todo = eraser[t].todo \ {u}, !.forget = forget]
<1>1. eraser' = [eraser EXCEPT ![t] = new]
  BY DEF LockUser, Typed, ErasureTyped, EraserRow
<1>2. /\ new.phase = eraser[t].phase /\ new.plan = eraser[t].plan
      /\ new.todo = eraser[t].todo \ {u} /\ new.forget = forget
  BY RowFields DEF EraserRow
<1>3. /\ eraser'[t] = new /\ \A s \in Tenant \ {t} : eraser'[s] = eraser[s]
  BY <1>1 DEF Typed, ErasureTyped
<1>4. userLock'[u] = t /\ \A v \in User \ {u} : userLock'[v] = userLock[v]
  BY DEF LockUser, Typed, PeopleTyped
<1>5. /\ UNCHANGED <<status, receipt, object, plan, member, inviting, anonymous>>
      /\ eraser[t].phase = "locking" /\ u \in eraser[t].todo /\ userLock[u] = None
  BY DEF LockUser, UserFree
<1> QED
  BY <1>2, <1>3, <1>4, <1>5

LEMMA CommitEffect ==
  ASSUME Typed, NEW t \in Tenant, CommitErasure(t)
  PROVE  /\ UNCHANGED <<object, plan, inviting, writing>>
         /\ eraser[t].phase = "locking" /\ eraser[t].todo = {}
         /\ status'[t] = "erasing"
         /\ receipt'[t].status = "objects_pending" /\ receipt'[t].plan = eraser[t].plan
         /\ eraser'[t].phase = "inventory" /\ eraser'[t].plan = eraser[t].plan
         /\ \A s \in Tenant \ {t} : /\ eraser'[s] = eraser[s] /\ receipt'[s] = receipt[s]
                                    /\ status'[s] = status[s]
         /\ member' = {m \in member : m[2] # t} /\ userLock' = Released(t)
         /\ anonymous' = anonymous \cup eraser[t].forget
BY DEF CommitErasure, Typed, WorkTyped, ErasureTyped, EraserRow

LEMMA ResumeEffect ==
  ASSUME Typed, NEW t \in Tenant, ResumeErasure(t)
  PROVE  /\ UNCHANGED <<status, receipt, object, plan>>
         /\ receipt[t].status = "objects_pending" /\ eraser[t].phase = "off"
         /\ eraser'[t].phase = "inventory" /\ eraser'[t].plan = receipt[t].plan
         /\ \A s \in Tenant \ {t} : eraser'[s] = eraser[s]
BY DEF ResumeErasure, Begun, Off, Typed, ErasureTyped

LEMMA InventoryEffect ==
  ASSUME Typed, NEW t \in Tenant, Inventory(t)
  PROVE  /\ UNCHANGED <<status, receipt, object, plan>>
         /\ eraser[t].phase = "inventory"
         /\ \/ eraser'[t].phase = "off"
            \/ /\ eraser'[t].phase = "unlink" /\ eraser'[t].plan = eraser[t].plan
               /\ eraser'[t].left = object[t] /\ object[t] \subseteq eraser[t].plan.objects
         /\ \A s \in Tenant \ {t} : eraser'[s] = eraser[s]
BY DEF Inventory, NothingNew, Off, Typed, ErasureTyped, EraserRow

LEMMA UnlinkEffect ==
  ASSUME Typed, NEW t \in Tenant, NEW f \in eraser[t].left, Unlink(t, f)
  PROVE  /\ UNCHANGED <<status, receipt, plan>>
         /\ eraser[t].phase = "unlink"
         /\ eraser'[t].phase = "unlink" /\ eraser'[t].plan = eraser[t].plan
         /\ eraser'[t].left = eraser[t].left \ {f} /\ object'[t] = object[t] \ {f}
         /\ \A s \in Tenant \ {t} : eraser'[s] = eraser[s] /\ object'[s] = object[s]
BY DEF Unlink, Typed, ErasureTyped, EraserRow

LEMMA CloseEffect ==
  ASSUME Typed, NEW t \in Tenant, CloseErasure(t)
  PROVE  /\ UNCHANGED <<object, plan>>
         /\ eraser[t].phase = "unlink" /\ eraser[t].left = {}
         /\ eraser'[t].phase = "off" /\ status'[t] = "erased"
         /\ receipt'[t].status = "erased" /\ receipt'[t].plan = receipt[t].plan
         /\ \A s \in Tenant \ {t} : /\ eraser'[s] = eraser[s] /\ receipt'[s] = receipt[s]
                                    /\ status'[s] = status[s]
BY DEF CloseErasure, Off, Typed, WorkTyped, ErasureTyped, ReceiptRow

LEMMA StopEffect ==
  ASSUME Typed, NEW t \in Tenant, Stop(t)
  PROVE  /\ UNCHANGED <<status, receipt, object, plan, member, inviting, anonymous>>
         /\ eraser'[t].phase = "off"
         /\ userLock' = IF eraser[t].phase = "locking" THEN Released(t) ELSE userLock
         /\ \A s \in Tenant \ {t} : eraser'[s] = eraser[s]
BY DEF Stop, Off, Typed, ErasureTyped

\* What every other step leaves of an erasure and its receipt, but for the files.
LEMMA OtherFrame ==
  ASSUME \/ JobStep \/ PaperStep \/ UNCHANGED vars
         \/ \E w \in writing \cup written : GenerateBundle(w)
         \/ \E t \in Tenant : Offboard(t)
         \/ \E u \in User, t \in Tenant : Invite(u, t) \/ AddMember(u, t)
  PROVE  UNCHANGED <<eraser, receipt, plan, userLock>>
BY JobFrame, PaperFrame DEF GenerateBundle, Offboard, Invite, AddMember, people, erasure, vars

LEMMA StatusFrame ==
  ASSUME \/ JobStep \/ PaperStep \/ UNCHANGED vars
         \/ \E w \in writing \cup written : GenerateBundle(w)
         \/ \E u \in User, t \in Tenant : Invite(u, t) \/ AddMember(u, t)
  PROVE  UNCHANGED status
BY JobFrame, PaperFrame DEF GenerateBundle, Invite, AddMember, people, erasure, vars

LEMMA OffboardEffect ==
  ASSUME Typed, NEW t \in Tenant, Offboard(t)
  PROVE  /\ status[t] = "active" /\ status'[t] = "offboarding" /\ preview[t] = Rows(t)
         /\ eraser[t].phase # "locking"
         /\ \A s \in Tenant \ {t} : status'[s] = status[s]
BY DEF Offboard, AsPreviewed, Unlocked, Typed, WorkTyped

LEMMA PlansFollowStay ==
  ASSUME Typed, PlansFollow, [Next]_vars
  PROVE  PlansFollow'
<1>1. CASE \/ JobStep \/ PaperStep \/ UNCHANGED vars
           \/ \E w \in writing \cup written : GenerateBundle(w)
           \/ \E u \in User, t \in Tenant : Invite(u, t) \/ AddMember(u, t)
  BY <1>1, OtherFrame, StatusFrame DEF PlansFollow
<1>2. ASSUME NEW t \in Tenant, Offboard(t)  PROVE PlansFollow'
  BY <1>2, OtherFrame, OffboardEffect DEF PlansFollow
<1>3. ASSUME NEW t \in Tenant, PlanErasure(t)  PROVE PlansFollow'
  BY <1>3 DEF PlanErasure, PlansFollow
<1>4. ASSUME NEW t \in Tenant, BeginErasure(t)  PROVE PlansFollow'
  BY <1>4, BeginEffect, ManifestType DEF PlansFollow
<1>5. ASSUME NEW t \in Tenant, NEW u \in User, LockUser(t, u)  PROVE PlansFollow'
  BY <1>5, LockEffect DEF PlansFollow
<1>6. ASSUME NEW t \in Tenant, CommitErasure(t)  PROVE PlansFollow'
  <2>1. eraser[t].plan \in PlanRow
    BY <1>6, CommitEffect DEF PlansFollow
  <2> QED
    BY <1>6, <2>1, CommitEffect DEF PlansFollow
<1>7. ASSUME NEW t \in Tenant, ResumeErasure(t)  PROVE PlansFollow'
  BY <1>7, ResumeEffect, RowFields DEF PlansFollow
<1>8. ASSUME NEW t \in Tenant, Inventory(t)  PROVE PlansFollow'
  BY <1>8, InventoryEffect DEF PlansFollow
<1>9. ASSUME NEW t \in Tenant, NEW f \in eraser[t].left, Unlink(t, f)  PROVE PlansFollow'
  BY <1>9, UnlinkEffect DEF PlansFollow
<1>10. ASSUME NEW t \in Tenant, CloseErasure(t)  PROVE PlansFollow'
  BY <1>10, CloseEffect DEF PlansFollow
<1>11. ASSUME NEW t \in Tenant, Stop(t)  PROVE PlansFollow'
  BY <1>11, StopEffect DEF PlansFollow
<1> QED
  BY <1>1, <1>2, <1>3, <1>4, <1>5, <1>6, <1>7, <1>8, <1>9, <1>10, <1>11, Steps

-----------------------------------------------------------------------------
(***************************************************************************)
(* Offboarding.                                                            *)
(***************************************************************************)
LEMMA QuietStays ==
  ASSUME Typed, PlansFollow, OffboardedIsQuiet, [Next]_vars
  PROVE  OffboardedIsQuiet'
<1> USE LifecycleConstants
<1>0. /\ Report \subseteq Job /\ Mail \subseteq Job
      /\ \A j \in Job : job[j] \in JobRow /\ OwnerOf[j] \in Tenant
      /\ \A w \in writing \cup written : w[1] \in Job
  BY DEF Job, Typed, WorkTyped, Claims
<1>1. CASE JobStep
  <2>0. UNCHANGED status
    BY <1>1, JobFrame
  <2>1. ASSUME NEW j \in Job, Submit(j)  PROVE OffboardedIsQuiet'
    BY <2>0, <2>1, <1>0 DEF Submit, OffboardedIsQuiet, Of, Typed, WorkTyped
  <2>2. ASSUME NEW j \in Job, Claim(j)  PROVE OffboardedIsQuiet'
    BY <2>0, <2>2, <1>0 DEF Claim, OffboardedIsQuiet, Of, Typed, WorkTyped
  <2>3. ASSUME NEW j \in Job, SettleMail(j)  PROVE OffboardedIsQuiet'
    BY <2>0, <2>3, <1>0 DEF SettleMail, OffboardedIsQuiet, Of, Typed, WorkTyped, JobRow
  <2>4. ASSUME NEW j \in Job, RecoverExpired(j)  PROVE OffboardedIsQuiet'
    <3>1. status[OwnerOf[j]] = "active"
      BY <2>4, <1>0 DEF RecoverExpired, OffboardedIsQuiet, Of
    <3>2. \A k \in Job \ {j} : job'[k] = job[k] /\ (k \in Mail => message'[k] = message[k])
      BY <2>4, <1>0 DEF RecoverExpired, Typed, WorkTyped
    <3> QED
      BY <2>0, <3>1, <3>2 DEF OffboardedIsQuiet, Of
  <2>5. ASSUME NEW j \in Job, Reconcile(j)  PROVE OffboardedIsQuiet'
    BY <2>0, <2>5, <1>0 DEF Reconcile, OffboardedIsQuiet, Of, Typed, WorkTyped, JobRow
  <2>6. ASSUME NEW w \in writing \cup written, FinishReport(w)  PROVE OffboardedIsQuiet'
    <3>1. message' = message /\ \A k \in Job \ {w[1]} : job'[k] = job[k]
      BY <2>6, <1>0 DEF FinishReport, Typed, WorkTyped
    <3>2. job'[w[1]].status \in {"completed", "failed"} \/ job'[w[1]] = job[w[1]]
      BY <2>6, <1>0 DEF FinishReport, Typed, WorkTyped, JobRow
    <3> QED
      BY <2>0, <3>1, <3>2 DEF OffboardedIsQuiet, Of
  <2> QED
    BY <1>1, <2>1, <2>2, <2>3, <2>4, <2>5, <2>6 DEF JobStep
<1>2. CASE PaperStep \/ UNCHANGED vars
  BY <1>2, PaperFrame DEF vars, work, OffboardedIsQuiet
<1>3. CASE \/ \E w \in writing \cup written : GenerateBundle(w)
           \/ \E u \in User, t \in Tenant : Invite(u, t) \/ AddMember(u, t)
  BY <1>3 DEF GenerateBundle, Invite, AddMember, work, OffboardedIsQuiet
<1>4. ASSUME NEW t \in Tenant, Offboard(t)  PROVE OffboardedIsQuiet'
  <2> SUFFICES ASSUME NEW s \in Tenant, status'[s] # "active", NEW j \in Of(s)
               PROVE  /\ job'[j].status \notin {"queued", "running"}
                      /\ j \in Mail => message'[j] \notin {"planned", "unknown"}
    BY DEF OffboardedIsQuiet
  <2>1. j \in Job /\ OwnerOf[j] = s
    BY DEF Of
  <2>2. CASE s = t
    <3>1. job[j].status # "running" /\ (j \in Mail => message[j] # "unknown")
      BY <1>4, <2>1, <2>2 DEF Offboard, Busy, RunningJobs, UnknownMessages, Of
    <3>2. job'[j].status \notin {"queued", "running"}
      BY <1>0, <1>4, <2>1, <2>2, <3>1 DEF Offboard, JobRow
    <3>3. j \in Mail => message'[j] \notin {"planned", "unknown"}
      BY <1>4, <2>1, <2>2, <3>1 DEF Offboard
    <3> QED
      BY <3>2, <3>3
  <2>3. CASE s # t
    <3>1. status[s] # "active"
      BY <1>4, <2>3, OffboardEffect
    <3>2. job'[j] = job[j] /\ (j \in Mail => message'[j] = message[j])
      BY <1>0, <1>4, <2>1, <2>3 DEF Offboard
    <3>3. /\ job[j].status \notin {"queued", "running"}
          /\ j \in Mail => message[j] \notin {"planned", "unknown"}
      BY <3>1 DEF OffboardedIsQuiet
    <3> QED
      BY <3>2, <3>3
  <2> QED
    BY <2>2, <2>3
<1>5. ASSUME NEW t \in Tenant,
             \/ PlanErasure(t) \/ BeginErasure(t) \/ ResumeErasure(t) \/ Inventory(t)
             \/ Stop(t) \/ (\E f \in eraser[t].left : Unlink(t, f))
             \/ \E u \in User : LockUser(t, u)
      PROVE  OffboardedIsQuiet'
  BY <1>5 DEF PlanErasure, BeginErasure, ResumeErasure, Inventory, Stop, Unlink, LockUser, work,
              OffboardedIsQuiet
<1>6. ASSUME NEW t \in Tenant, CommitErasure(t)  PROVE OffboardedIsQuiet'
  <2> SUFFICES ASSUME NEW s \in Tenant, status'[s] # "active", NEW j \in Of(s)
               PROVE  /\ job'[j].status \notin {"queued", "running"}
                      /\ j \in Mail => message'[j] \notin {"planned", "unknown"}
    BY DEF OffboardedIsQuiet
  <2>1. j \in Job /\ OwnerOf[j] = s
    BY DEF Of
  <2>2. CASE s = t
    BY <1>0, <1>6, <2>1, <2>2 DEF CommitErasure, NoJob
  <2>3. CASE s # t
    <3>1. status[s] # "active"
      BY <1>6, <2>3, CommitEffect
    <3>2. job'[j] = job[j] /\ (j \in Mail => message'[j] = message[j])
      BY <1>0, <1>6, <2>1, <2>3 DEF CommitErasure
    <3>3. /\ job[j].status \notin {"queued", "running"}
          /\ j \in Mail => message[j] \notin {"planned", "unknown"}
      BY <3>1 DEF OffboardedIsQuiet
    <3> QED
      BY <3>2, <3>3
  <2> QED
    BY <2>2, <2>3
<1>7. ASSUME NEW t \in Tenant, CloseErasure(t)  PROVE OffboardedIsQuiet'
  <2>1. status[t] # "active" /\ \A s \in Tenant \ {t} : status'[s] = status[s]
    BY <1>7, CloseEffect DEF PlansFollow
  <2> QED
    BY <1>7, <2>1 DEF CloseErasure, work, OffboardedIsQuiet
<1> QED
  BY <1>1, <1>2, <1>3, <1>4, <1>5, <1>6, <1>7, Steps

\* Only the offboarding ends an organization's activity.
LEMMA OnlyOffboardingEnds ==
  ASSUME Typed, PlansFollow, [Next]_vars, NEW t \in Tenant,
         status[t] = "active", status'[t] # "active"
  PROVE  preview[t] = Rows(t)
<1>1. ASSUME NEW s \in Tenant, Offboard(s)  PROVE preview[t] = Rows(t)
  BY <1>1, OffboardEffect
<1>2. ASSUME NEW s \in Tenant, CommitErasure(s)  PROVE FALSE
  BY <1>2, CommitEffect DEF PlansFollow
<1>3. ASSUME NEW s \in Tenant, CloseErasure(s)  PROVE FALSE
  BY <1>3, CloseEffect DEF PlansFollow
<1>4. ASSUME NEW s \in Tenant,
             \/ PlanErasure(s) \/ BeginErasure(s) \/ ResumeErasure(s) \/ Inventory(s)
             \/ Stop(s) \/ (\E f \in eraser[s].left : Unlink(s, f))
             \/ \E u \in User : LockUser(s, u)
      PROVE  FALSE
  BY <1>4 DEF PlanErasure, BeginErasure, ResumeErasure, Inventory, Stop, Unlink, LockUser
<1> QED
  BY <1>1, <1>2, <1>3, <1>4, StatusFrame, Steps

\* An organization is offboarded as its reviewers saw it and stays quiet (lifecycle.py:75).
THEOREM OffboardsForGood == Spec => OffboardingIsFinal
<1> DEFINE Inv == Typed /\ PlansFollow /\ OffboardedIsQuiet
<1>1. Init => Inv
  BY InitTypes, LifecycleConstants
     DEF Init, PlansFollow, OffboardedIsQuiet, Off, NoReceipt, NoJob, Of, Job
<1>2. Inv /\ [Next]_vars => Inv'
  BY TypesStay, PlansFollowStay, QuietStays
<1>3. Inv /\ [Next]_vars =>
        \A t \in Tenant : status[t] = "active" /\ status'[t] # "active" => preview[t] = Rows(t)
  BY OnlyOffboardingEnds
<1> HIDE DEF Inv
<1>4. Inv => OffboardedIsQuiet
  BY DEF Inv
<1> QED
  BY <1>1, <1>2, <1>3, <1>4, PTL DEF Spec, OffboardingIsFinal, OffboardsAsPreviewed

-----------------------------------------------------------------------------
(***************************************************************************)
(* Files.  A file that a worker may still write is none of those that were *)
(* seen: each claim writes once and claims are numbered.                   *)
(***************************************************************************)
Coming(w) ==
  w \in writing \/ (job[w[1]].status # "deleted" /\ w[2] > job[w[1]].claim)

ClaimsCount ==
  \A w \in writing : job[w[1]].status = "deleted" \/ w[2] <= job[w[1]].claim

ComingIsUnseen ==
  \A w \in Claims, t \in Tenant : Coming(w) =>
    /\ w \notin object[t] /\ w \notin receipt[t].plan.objects
    /\ plan[t] # None => w \notin plan[t].objects
    /\ eraser[t].phase # "off" => w \notin eraser[t].plan.objects

\* What is left to remove are all files of the plan that are there, and no others.
RemovedInOrder ==
  \A t \in Tenant :
    /\ eraser[t].phase = "unlink" =>
         /\ eraser[t].left \subseteq eraser[t].plan.objects
         /\ object[t] \cap eraser[t].plan.objects \subseteq eraser[t].left
    /\ receipt[t].status = "erased" => object[t] \cap receipt[t].plan.objects = {}

LEMMA ClaimEffect ==
  ASSUME Typed, ClaimsCount, [Next]_vars
  PROVE  ClaimsCount' /\ \A w \in Claims : Coming(w)' => Coming(w)
<1> USE LifecycleConstants
<1>0. /\ Report \subseteq Job /\ Mail \subseteq Job /\ job \in [Job -> JobRow]
      /\ \A w \in Claims : w[1] \in Report /\ w[2] \in 1..MaxClaims /\ w = <<w[1], w[2]>>
      /\ writing \subseteq Claims
      /\ \A j \in Job : job[j].claim \in 0..MaxClaims
  BY DEF Job, Typed, WorkTyped, Claims, JobRow
<1>1. ASSUME UNCHANGED writing,
             \A j \in Job : \/ job'[j].status = "deleted"
                            \/ /\ job'[j].claim = job[j].claim
                               /\ job[j].status = "deleted" => job'[j].status = "deleted"
      PROVE  ClaimsCount' /\ \A w \in Claims : Coming(w)' => Coming(w)
  BY <1>0, <1>1 DEF ClaimsCount, Coming
<1>2. ASSUME NEW j \in Job, Claim(j)
      PROVE  ClaimsCount' /\ \A w \in Claims : Coming(w)' => Coming(w)
  <2>1. /\ job'[j].claim = job[j].claim + 1 /\ job'[j].status = "running"
        /\ job[j].status = "queued" /\ \A k \in Job \ {j} : job'[k] = job[k]
    BY <1>0, <1>2 DEF Claim
  <2>2. writing' \subseteq writing \cup {<<j, job[j].claim + 1>>}
    BY <1>2 DEF Claim
  <2>3. ClaimsCount'
    <3> SUFFICES ASSUME NEW w \in writing'
                 PROVE  job'[w[1]].status = "deleted" \/ w[2] <= job'[w[1]].claim
      BY DEF ClaimsCount
    <3>1. CASE w \in writing
      BY <1>0, <2>1, <3>1 DEF ClaimsCount
    <3>2. CASE w = <<j, job[j].claim + 1>>
      BY <1>0, <2>1, <3>2
    <3> QED
      BY <2>2, <3>1, <3>2
  <2>4. ASSUME NEW w \in Claims, Coming(w)'  PROVE Coming(w)
    <3>1. CASE w = <<j, job[j].claim + 1>>
      BY <1>0, <2>1, <3>1 DEF Coming
    <3>2. CASE w # <<j, job[j].claim + 1>> /\ w[1] = j
      BY <1>0, <2>1, <2>2, <2>4, <3>2 DEF Coming
    <3>3. CASE w[1] # j
      BY <1>0, <2>1, <2>2, <2>4, <3>3 DEF Coming
    <3> QED
      BY <3>1, <3>2, <3>3
  <2> QED
    BY <2>3, <2>4
<1>3. ASSUME NEW j \in Job, Submit(j) \/ SettleMail(j) \/ RecoverExpired(j) \/ Reconcile(j)
      PROVE  ClaimsCount' /\ \A w \in Claims : Coming(w)' => Coming(w)
  <2>1. CASE Reconcile(j)
    <3>1. j \in Mail /\ writing' = writing /\ \A k \in Job \ {j} : job'[k] = job[k]
      BY <1>0, <2>1 DEF Reconcile
    <3> QED
      BY <1>0, <3>1 DEF ClaimsCount, Coming
  <2>2. CASE Submit(j)
    <3>1. writing' = writing
      BY <2>2 DEF Submit
    <3>2. \A k \in Job : /\ job'[k].claim = job[k].claim
                         /\ job[k].status = "deleted" => job'[k].status = "deleted"
      BY <1>0, <2>2 DEF Submit, NoJob, JobRow
    <3> QED
      BY <1>1, <3>1, <3>2
  <2>3. CASE SettleMail(j) \/ RecoverExpired(j)
    <3>1. writing' = writing
      BY <2>3 DEF SettleMail, RecoverExpired
    <3>2. \A k \in Job : /\ job'[k].claim = job[k].claim
                         /\ job[k].status = "deleted" => job'[k].status = "deleted"
      BY <1>0, <2>3 DEF SettleMail, RecoverExpired, JobRow
    <3> QED
      BY <1>1, <3>1, <3>2
  <2> QED
    BY <1>3, <2>1, <2>2, <2>3
<1>4. ASSUME NEW w \in writing \cup written, FinishReport(w) \/ GenerateBundle(w)
      PROVE  ClaimsCount' /\ \A x \in Claims : Coming(x)' => Coming(x)
  <2>1. writing' \subseteq writing
    BY <1>4 DEF FinishReport, GenerateBundle
  <2>2. \A k \in Job : /\ job'[k].claim = job[k].claim
                       /\ job[k].status = "deleted" <=> job'[k].status = "deleted"
    BY <1>0, <1>4 DEF FinishReport, GenerateBundle, JobRow
  <2> QED
    BY <1>0, <2>1, <2>2 DEF ClaimsCount, Coming
<1>5. ASSUME NEW t \in Tenant, Offboard(t)
      PROVE  ClaimsCount' /\ \A w \in Claims : Coming(w)' => Coming(w)
  <2>1. \A k \in Job : /\ job'[k].claim = job[k].claim
                       /\ job[k].status = "deleted" => job'[k].status = "deleted"
    BY <1>0, <1>5 DEF Offboard, JobRow
  <2>2. writing' = writing
    BY <1>5 DEF Offboard
  <2> QED
    BY <1>1, <2>1, <2>2
<1>6. ASSUME NEW t \in Tenant, CommitErasure(t)
      PROVE  ClaimsCount' /\ \A w \in Claims : Coming(w)' => Coming(w)
  <2>1. \A k \in Job : job'[k].status = "deleted" \/ job'[k] = job[k]
    BY <1>0, <1>6 DEF CommitErasure, NoJob
  <2>2. writing' = writing
    BY <1>6 DEF CommitErasure
  <2> QED
    BY <1>1, <2>1, <2>2
<1>7. ASSUME UNCHANGED <<job, writing>>
      PROVE  ClaimsCount' /\ \A w \in Claims : Coming(w)' => Coming(w)
  BY <1>7 DEF ClaimsCount, Coming
<1>8. CASE \/ PaperStep \/ UNCHANGED vars
           \/ \E u \in User, t \in Tenant : Invite(u, t) \/ AddMember(u, t) \/ LockUser(t, u)
  BY <1>7, <1>8, PaperFrame DEF vars, work, Invite, AddMember, LockUser
<1>9. ASSUME NEW t \in Tenant,
             \/ PlanErasure(t) \/ BeginErasure(t) \/ ResumeErasure(t) \/ Inventory(t)
             \/ CloseErasure(t) \/ Stop(t) \/ \E f \in eraser[t].left : Unlink(t, f)
      PROVE  UNCHANGED <<job, writing>>
  BY <1>9 DEF PlanErasure, BeginErasure, ResumeErasure, Inventory, CloseErasure, Stop, Unlink, work
<1> QED
  BY <1>2, <1>3, <1>4, <1>5, <1>6, <1>7, <1>8, <1>9, Steps DEF JobStep

\* The steps that write no file, by what they do to the files and to what was seen of them.
LEMMA SeenEffect ==
  ASSUME Typed, PlansFollow, [Next]_vars,
         ~\E w \in writing \cup written : GenerateBundle(w), NEW t \in Tenant
  PROVE  /\ object'[t] \subseteq object[t]
         /\ \/ receipt'[t].plan = receipt[t].plan
            \/ eraser[t].phase # "off" /\ receipt'[t].plan = eraser[t].plan
         /\ \/ plan'[t] = plan[t] \/ plan'[t].objects = object[t]
         /\ eraser'[t].phase # "off" =>
              \/ eraser[t].phase # "off" /\ eraser'[t].plan = eraser[t].plan
              \/ eraser'[t].plan = receipt[t].plan
              \/ eraser'[t].plan.objects = object[t]
<1>1. CASE JobStep \/ PaperStep \/ UNCHANGED vars
  BY <1>1, JobFrame, PaperFrame DEF vars, erasure
<1>2. CASE \/ \E s \in Tenant : Offboard(s)
           \/ \E u \in User, s \in Tenant : Invite(u, s) \/ AddMember(u, s)
  BY <1>2 DEF Offboard, Invite, AddMember, erasure
<1>3. ASSUME NEW s \in Tenant, PlanErasure(s)
      PROVE  /\ UNCHANGED <<object, receipt, eraser>>
             /\ plan'[t] = plan[t] \/ plan'[t].objects = object[t]
  BY <1>3 DEF PlanErasure, Manifest, Typed, ErasureTyped
<1>4. ASSUME NEW s \in Tenant, BeginErasure(s)
      PROVE  /\ UNCHANGED <<object, receipt, plan>>
             /\ eraser'[t] = eraser[t] \/ eraser'[t].plan.objects = object[t]
  <2>1. Manifest(s).objects = object[s]
    BY DEF Manifest
  <2>2. eraser'[s].plan = Manifest(s)
    BY <1>4, BeginEffect
  <2> QED
    BY <1>4, <2>1, <2>2, BeginEffect
<1>5. ASSUME NEW s \in Tenant, NEW u \in User, LockUser(s, u)
      PROVE  /\ UNCHANGED <<object, receipt, plan>>
             /\ eraser'[t].phase = eraser[t].phase /\ eraser'[t].plan = eraser[t].plan
  BY <1>5, LockEffect
<1>6. ASSUME NEW s \in Tenant, CommitErasure(s)
      PROVE  /\ UNCHANGED <<object, plan>>
             /\ \/ receipt'[t].plan = receipt[t].plan
                \/ eraser[t].phase # "off" /\ receipt'[t].plan = eraser[t].plan
             /\ \/ eraser'[t] = eraser[t]
                \/ eraser[t].phase # "off" /\ eraser'[t].plan = eraser[t].plan
  BY <1>6, CommitEffect
<1>7. ASSUME NEW s \in Tenant, ResumeErasure(s)
      PROVE  /\ UNCHANGED <<object, receipt, plan>>
             /\ eraser'[t] = eraser[t] \/ eraser'[t].plan = receipt[t].plan
  BY <1>7, ResumeEffect
<1>8. ASSUME NEW s \in Tenant, Inventory(s)
      PROVE  /\ UNCHANGED <<object, receipt, plan>>
             /\ \/ eraser'[t] = eraser[t] \/ eraser'[t].phase = "off"
                \/ eraser[t].phase # "off" /\ eraser'[t].plan = eraser[t].plan
  BY <1>8, InventoryEffect
<1>9. ASSUME NEW s \in Tenant, NEW f \in eraser[s].left, Unlink(s, f)
      PROVE  /\ UNCHANGED <<receipt, plan>> /\ object'[t] \subseteq object[t]
             /\ \/ eraser'[t] = eraser[t]
                \/ eraser[t].phase # "off" /\ eraser'[t].plan = eraser[t].plan
  BY <1>9, UnlinkEffect
<1>10. ASSUME NEW s \in Tenant, CloseErasure(s)
       PROVE  /\ UNCHANGED <<object, plan>> /\ receipt'[t].plan = receipt[t].plan
              /\ eraser'[t] = eraser[t] \/ eraser'[t].phase = "off"
  BY <1>10, CloseEffect
<1>11. ASSUME NEW s \in Tenant, Stop(s)
       PROVE  /\ UNCHANGED <<object, receipt, plan>>
              /\ eraser'[t] = eraser[t] \/ eraser'[t].phase = "off"
  BY <1>11, StopEffect
<1> QED
  BY <1>1, <1>2, <1>3, <1>4, <1>5, <1>6, <1>7, <1>8, <1>9, <1>10, <1>11, Steps

LEMMA GenerateEffect ==
  ASSUME Typed, ClaimsCount, NEW w \in writing \cup written, GenerateBundle(w)
  PROVE  /\ w \in Claims /\ Coming(w) /\ ~Coming(w)' /\ UNCHANGED <<receipt, plan, eraser>>
         /\ \A t \in Tenant : object'[t] \subseteq object[t] \cup {w}
<1> USE LifecycleConstants
<1>1. w \in Claims /\ w[1] \in Job /\ OwnerOf[w[1]] \in Tenant
  BY DEF Typed, WorkTyped, Claims, Job
<1>2. /\ w \in writing /\ w \notin writing' /\ job' = job
      /\ UNCHANGED <<receipt, plan, eraser>>
  BY DEF GenerateBundle, erasure
<1>3. job[w[1]].claim \in Nat /\ w[2] \in Nat
  BY <1>1 DEF Typed, WorkTyped, JobRow, Claims
<1>4. Coming(w) /\ ~Coming(w)'
  BY <1>2, <1>3 DEF Coming, ClaimsCount
<1>5. \A t \in Tenant : object'[t] \subseteq object[t] \cup {w}
  BY <1>1 DEF GenerateBundle, Typed, ErasureTyped
<1> QED
  BY <1>1, <1>2, <1>4, <1>5

LEMMA UnseenStays ==
  ASSUME Typed, PlansFollow, ClaimsCount, ComingIsUnseen, [Next]_vars
  PROVE  ComingIsUnseen'
<1> SUFFICES ASSUME NEW w \in Claims, NEW t \in Tenant, Coming(w)'
             PROVE  /\ w \notin object'[t] /\ w \notin receipt'[t].plan.objects
                    /\ plan'[t] # None => w \notin plan'[t].objects
                    /\ eraser'[t].phase # "off" => w \notin eraser'[t].plan.objects
  BY DEF ComingIsUnseen
<1>1. Coming(w)
  BY ClaimEffect
<1>2. /\ w \notin object[t] /\ w \notin receipt[t].plan.objects
      /\ plan[t] # None => w \notin plan[t].objects
      /\ eraser[t].phase # "off" => w \notin eraser[t].plan.objects
  BY <1>1 DEF ComingIsUnseen
<1>3. CASE \E x \in writing \cup written : GenerateBundle(x)
  <2>1. PICK x \in writing \cup written : GenerateBundle(x)
    BY <1>3
  <2>2. w # x
    BY <2>1, GenerateEffect
  <2> QED
    BY <1>2, <2>1, <2>2, GenerateEffect
<1>4. CASE ~\E x \in writing \cup written : GenerateBundle(x)
  BY <1>2, <1>4, SeenEffect
<1> QED
  BY <1>3, <1>4

LEMMA RemovalStays ==
  ASSUME Typed, PlansFollow, ClaimsCount, ComingIsUnseen, RemovedInOrder, [Next]_vars
  PROVE  RemovedInOrder'
<1>1. CASE JobStep \/ PaperStep \/ UNCHANGED vars
  BY <1>1, JobFrame, PaperFrame DEF vars, erasure, RemovedInOrder
<1>2. CASE \/ \E s \in Tenant : Offboard(s)
           \/ \E u \in User, s \in Tenant : Invite(u, s) \/ AddMember(u, s)
  BY <1>2 DEF Offboard, Invite, AddMember, erasure, RemovedInOrder
<1>3. ASSUME NEW w \in writing \cup written, GenerateBundle(w)  PROVE RemovedInOrder'
  <2>1. /\ UNCHANGED <<receipt, eraser>> /\ \A t \in Tenant : object'[t] \subseteq object[t] \cup {w}
        /\ \A t \in Tenant : /\ w \notin receipt[t].plan.objects
                             /\ eraser[t].phase = "unlink" => w \notin eraser[t].plan.objects
    BY <1>3, GenerateEffect DEF ComingIsUnseen
  <2> QED
    BY <2>1 DEF RemovedInOrder
<1>4. ASSUME NEW t \in Tenant, PlanErasure(t)  PROVE RemovedInOrder'
  BY <1>4 DEF PlanErasure, RemovedInOrder
<1>5. ASSUME NEW t \in Tenant, BeginErasure(t)  PROVE RemovedInOrder'
  BY <1>5, BeginEffect DEF RemovedInOrder
<1>6. ASSUME NEW t \in Tenant, NEW u \in User, LockUser(t, u)  PROVE RemovedInOrder'
  BY <1>6, LockEffect DEF RemovedInOrder
<1>7. ASSUME NEW t \in Tenant, CommitErasure(t)  PROVE RemovedInOrder'
  BY <1>7, CommitEffect DEF RemovedInOrder
<1>8. ASSUME NEW t \in Tenant, ResumeErasure(t)  PROVE RemovedInOrder'
  BY <1>8, ResumeEffect DEF RemovedInOrder
<1>9. ASSUME NEW t \in Tenant, Inventory(t)  PROVE RemovedInOrder'
  BY <1>9, InventoryEffect DEF RemovedInOrder
<1>10. ASSUME NEW t \in Tenant, NEW f \in eraser[t].left, Unlink(t, f)  PROVE RemovedInOrder'
  BY <1>10, UnlinkEffect DEF RemovedInOrder
<1>11. ASSUME NEW t \in Tenant, CloseErasure(t)  PROVE RemovedInOrder'
  <2>1. receipt'[t].plan = eraser[t].plan /\ object'[t] \cap receipt'[t].plan.objects = {}
    BY <1>11, CloseEffect DEF PlansFollow, RemovedInOrder
  <2> QED
    BY <1>11, <2>1, CloseEffect DEF RemovedInOrder
<1>12. ASSUME NEW t \in Tenant, Stop(t)  PROVE RemovedInOrder'
  BY <1>12, StopEffect DEF RemovedInOrder
<1> QED
  BY <1>1, <1>2, <1>3, <1>4, <1>5, <1>6, <1>7, <1>8, <1>9, <1>10, <1>11, <1>12, Steps

LEMMA RemovesTheReviewed ==
  ASSUME Typed, PlansFollow, ClaimsCount, RemovedInOrder, [Next]_vars, NEW t \in Tenant,
         object[t] \ object'[t] # {}
  PROVE  /\ receipt[t] # NoReceipt
         /\ object[t] \ object'[t] \subseteq receipt[t].plan.objects
<1>1. ASSUME NEW s \in Tenant, NEW f \in eraser[s].left, Unlink(s, f)
      PROVE  /\ receipt[t] # NoReceipt
             /\ object[t] \ object'[t] \subseteq receipt[t].plan.objects
  <2>1. s = t /\ object[t] \ object'[t] \subseteq {f}
    BY <1>1, UnlinkEffect
  <2>2. receipt[t].status = "objects_pending" /\ f \in receipt[t].plan.objects
    BY <1>1, <2>1, UnlinkEffect DEF PlansFollow, RemovedInOrder
  <2> QED
    BY <2>1, <2>2 DEF NoReceipt
<1>2. ASSUME NEW w \in writing \cup written, GenerateBundle(w)  PROVE FALSE
  <2>1. w[1] \in Job
    BY DEF Typed, WorkTyped, Claims, Job
  <2> QED
    BY <1>2, <2>1 DEF GenerateBundle, Typed, ErasureTyped
<1>3. CASE JobStep \/ PaperStep \/ UNCHANGED vars
  BY <1>3, JobFrame, PaperFrame DEF vars
<1>4. ASSUME NEW s \in Tenant, NEW u \in User,
             Invite(u, s) \/ AddMember(u, s)
      PROVE  FALSE
  BY <1>4 DEF Invite, AddMember
<1>5. ASSUME NEW s \in Tenant, \/ Offboard(s) \/ PlanErasure(s) \/ BeginErasure(s)
             \/ CommitErasure(s) \/ ResumeErasure(s) \/ Inventory(s) \/ CloseErasure(s) \/ Stop(s)
      PROVE  FALSE
  BY <1>5 DEF Offboard, PlanErasure, BeginErasure, CommitErasure, ResumeErasure, Inventory,
              CloseErasure, Stop, work
<1>6. ASSUME NEW s \in Tenant, NEW u \in User, LockUser(s, u)  PROVE FALSE
  BY <1>6, LockEffect
<1> QED
  BY <1>1, <1>2, <1>3, <1>4, <1>5, <1>6, Steps

\* Erasure removes the reviewed files, all of them and no other (lifecycle.py:230-247).
THEOREM ErasesTheReviewed == Spec => ErasesWhatWasReviewed
<1> DEFINE Inv == Typed /\ PlansFollow /\ ClaimsCount /\ ComingIsUnseen /\ RemovedInOrder
<1>1. Init => Inv
  <2> SUFFICES ASSUME Init  PROVE Inv
    OBVIOUS
  <2>1. Typed /\ PlansFollow /\ ClaimsCount /\ RemovedInOrder
    BY InitTypes DEF Init, PlansFollow, ClaimsCount, RemovedInOrder, Off, NoReceipt
  <2>2. \A w \in Claims, t \in Tenant : w \notin Stored[t]
    <3> TAKE w \in Claims, t \in Tenant
    <3>1. PICK j \in Report, c \in 1..MaxClaims : w = <<j, c>>
      BY DEF Claims
    <3> QED
      BY <3>1, LifecycleConstants
  <2>3. ComingIsUnseen
    BY <2>2 DEF Init, ComingIsUnseen, Off, NoReceipt
  <2> QED
    BY <2>1, <2>3
<1>2. Inv /\ [Next]_vars => Inv'
  BY TypesStay, PlansFollowStay, ClaimEffect, UnseenStays, RemovalStays
<1>3. Inv /\ [Next]_vars =>
        \A t \in Tenant : object[t] \ object'[t] # {} =>
          /\ receipt[t] # NoReceipt
          /\ object[t] \ object'[t] \subseteq receipt[t].plan.objects
  BY RemovesTheReviewed
<1>4. Inv => ReviewedAreGone
  BY DEF RemovedInOrder, ReviewedAreGone
<1> HIDE DEF Inv
<1> QED
  BY <1>1, <1>2, <1>3, <1>4, PTL DEF Spec, ErasesWhatWasReviewed, OnlyReviewedRemoved

-----------------------------------------------------------------------------
(***************************************************************************)
(* People.  While an organization is locked its members are those still to *)
(* be looked at and those whose row it holds; who of them is not to be     *)
(* forgotten has another membership, which nobody can take away meanwhile, *)
(* because for that the row would have to be held as well.                 *)
(***************************************************************************)
Remembered ==
  \A m \in Members : m[1] \in anonymous \/ \E t \in Tenant : <<m[1], t>> \in member

LocksHeld ==
  /\ \A u \in User : userLock[u] # None => eraser[userLock[u]].phase = "locking"
  /\ \A t \in Tenant, u \in User : eraser[t].phase = "locking" =>
       /\ <<u, t>> \in member => u \in eraser[t].todo \/ userLock[u] = t
       /\ userLock[u] = t /\ u \notin eraser[t].forget =>
            \E s \in Tenant \ {t} : <<u, s>> \in member
       /\ <<u, t>> \notin inviting

LEMMA PeopleFrame ==
  ASSUME Typed,
         \/ JobStep \/ PaperStep \/ UNCHANGED vars
         \/ \E w \in writing \cup written : GenerateBundle(w)
         \/ \E t \in Tenant :
              \/ Offboard(t) \/ PlanErasure(t) \/ ResumeErasure(t) \/ Inventory(t)
              \/ CloseErasure(t) \/ \E f \in eraser[t].left : Unlink(t, f)
  PROVE  /\ UNCHANGED <<member, inviting, anonymous, userLock>>
         /\ \A t \in Tenant : \/ eraser'[t] = eraser[t]
                              \/ eraser[t].phase # "locking" /\ eraser'[t].phase # "locking"
<1>1. CASE \/ JobStep \/ PaperStep \/ UNCHANGED vars
           \/ \E w \in writing \cup written : GenerateBundle(w)
           \/ \E t \in Tenant : Offboard(t) \/ PlanErasure(t)
  BY <1>1, JobFrame, PaperFrame DEF GenerateBundle, Offboard, PlanErasure, people, erasure, vars
<1>2. ASSUME NEW t \in Tenant, ResumeErasure(t) \/ Inventory(t) \/ CloseErasure(t)
      PROVE  /\ UNCHANGED people
             /\ eraser[t].phase # "locking" /\ eraser'[t].phase # "locking"
             /\ \A s \in Tenant \ {t} : eraser'[s] = eraser[s]
  BY <1>2, ResumeEffect, InventoryEffect, CloseEffect, ZenonT(40)
     DEF ResumeErasure, Inventory, CloseErasure
<1>3. ASSUME NEW t \in Tenant, NEW f \in eraser[t].left, Unlink(t, f)
      PROVE  /\ UNCHANGED people
             /\ eraser[t].phase # "locking" /\ eraser'[t].phase # "locking"
             /\ \A s \in Tenant \ {t} : eraser'[s] = eraser[s]
  BY <1>3, UnlinkEffect DEF Unlink
<1> QED
  BY <1>1, <1>2, <1>3 DEF people

LEMMA LocksHeldStay ==
  ASSUME Typed, LocksHeld, [Next]_vars
  PROVE  LocksHeld'
<1> USE LifecycleConstants
<1>0. /\ \A u \in User : userLock[u] \in Tenant \cup {None}
      /\ member \subseteq User \X Tenant /\ None \notin Tenant
  BY DEF Typed, PeopleTyped
<1>1. CASE \/ JobStep \/ PaperStep \/ UNCHANGED vars
           \/ \E w \in writing \cup written : GenerateBundle(w)
           \/ \E t \in Tenant :
                \/ Offboard(t) \/ PlanErasure(t) \/ ResumeErasure(t) \/ Inventory(t)
                \/ CloseErasure(t) \/ \E f \in eraser[t].left : Unlink(t, f)
  BY <1>0, <1>1, PeopleFrame DEF LocksHeld
<1>2. ASSUME NEW t \in Tenant, BeginErasure(t)  PROVE LocksHeld'
  <2>1. UNCHANGED <<member, inviting, userLock>> /\ Unlocked(t)
    BY <1>2 DEF BeginErasure, people
  <2>2. \A u \in User : userLock[u] # t
    BY <1>0, <1>2, BeginEffect DEF LocksHeld
  <2>3. \A u \in User : <<u, t>> \in member => u \in eraser'[t].todo
    BY <1>2, BeginEffect DEF MembersOf
  <2>4. \A s \in Tenant \ {t} : eraser'[s] = eraser[s]
    BY <1>2, BeginEffect
  <2>5. \A u \in User : userLock'[u] # None => eraser'[userLock'[u]].phase = "locking"
    BY <1>0, <2>1, <2>2, <2>4 DEF LocksHeld
  <2>6. \A u \in User :
          /\ <<u, t>> \in member' => u \in eraser'[t].todo
          /\ userLock'[u] # t /\ <<u, t>> \notin inviting'
    BY <2>1, <2>2, <2>3 DEF Unlocked
  <2>7. \A s \in Tenant \ {t}, u \in User : eraser'[s].phase = "locking" =>
          /\ <<u, s>> \in member' => u \in eraser'[s].todo \/ userLock'[u] = s
          /\ userLock'[u] = s /\ u \notin eraser'[s].forget =>
               \E r \in Tenant \ {s} : <<u, r>> \in member'
          /\ <<u, s>> \notin inviting'
    BY <2>1, <2>4 DEF LocksHeld
  <2> QED
    BY <2>5, <2>6, <2>7 DEF LocksHeld
<1>3. ASSUME NEW t \in Tenant, NEW u \in User, LockUser(t, u)  PROVE LocksHeld'
  <2>1. \A v \in User : userLock'[v] # None => eraser'[userLock'[v]].phase = "locking"
    BY <1>0, <1>3, LockEffect DEF LocksHeld
  <2>2. ASSUME NEW s \in Tenant, NEW v \in User, eraser'[s].phase = "locking"
        PROVE  /\ <<v, s>> \in member' => v \in eraser'[s].todo \/ userLock'[v] = s
               /\ userLock'[v] = s /\ v \notin eraser'[s].forget =>
                    \E r \in Tenant \ {s} : <<v, r>> \in member'
               /\ <<v, s>> \notin inviting'
    <3>1. /\ eraser[s].phase = "locking" /\ UNCHANGED <<member, inviting>>
      BY <1>3, <2>2, LockEffect
    <3>2. /\ <<v, s>> \in member => v \in eraser[s].todo \/ userLock[v] = s
          /\ userLock[v] = s /\ v \notin eraser[s].forget =>
               \E r \in Tenant \ {s} : <<v, r>> \in member
          /\ <<v, s>> \notin inviting
      BY <3>1 DEF LocksHeld
    <3>3. CASE s = t /\ v = u
      <4>1. userLock'[v] = s
        BY <1>3, <3>3, LockEffect
      <4>2. v \in eraser'[s].forget \/ \E r \in Tenant \ {s} : <<v, r>> \in member
        BY <1>3, <3>3, LockEffect
      <4> QED
        BY <3>1, <3>2, <4>1, <4>2
    <3>4. CASE s = t /\ v # u
      <4>1. userLock'[v] = userLock[v]
        BY <1>3, <3>4, LockEffect
      <4>2. /\ v \in eraser[s].todo => v \in eraser'[s].todo
            /\ v \notin eraser'[s].forget => v \notin eraser[s].forget
        BY <1>3, <3>4, LockEffect
      <4> QED
        BY <3>1, <3>2, <4>1, <4>2
    <3>5. CASE s # t /\ v = u
      BY <1>0, <1>3, <3>1, <3>2, <3>5, LockEffect
    <3>6. CASE s # t /\ v # u
      <4>1. userLock'[v] = userLock[v] /\ eraser'[s] = eraser[s]
        BY <1>3, <3>6, LockEffect
      <4> QED
        BY <3>1, <3>2, <4>1
    <3> QED
      BY <3>3, <3>4, <3>5, <3>6
  <2> QED
    BY <2>1, <2>2 DEF LocksHeld
<1>4. ASSUME NEW t \in Tenant, CommitErasure(t)  PROVE LocksHeld'
  <2>1. \A v \in User : userLock'[v] = IF userLock[v] = t THEN None ELSE userLock[v]
    BY <1>4, CommitEffect DEF Released
  <2>2. \A v \in User : userLock'[v] # None => eraser'[userLock'[v]].phase = "locking"
    BY <1>0, <1>4, <2>1, CommitEffect DEF LocksHeld
  <2>3. ASSUME NEW s \in Tenant, NEW v \in User, eraser'[s].phase = "locking"
        PROVE  /\ <<v, s>> \in member' => v \in eraser'[s].todo \/ userLock'[v] = s
               /\ userLock'[v] = s /\ v \notin eraser'[s].forget =>
                    \E r \in Tenant \ {s} : <<v, r>> \in member'
               /\ <<v, s>> \notin inviting'
    <3>1. s # t /\ eraser'[s] = eraser[s] /\ eraser[s].phase = "locking" /\ inviting' = inviting
      BY <1>4, <2>3, CommitEffect
    <3>2. /\ <<v, s>> \in member => v \in eraser[s].todo \/ userLock[v] = s
          /\ userLock[v] = s /\ v \notin eraser[s].forget =>
               \E r \in Tenant \ {s} : <<v, r>> \in member
          /\ <<v, s>> \notin inviting
      BY <3>1 DEF LocksHeld
    <3>3. <<v, s>> \in member' => v \in eraser'[s].todo \/ userLock'[v] = s
      BY <1>0, <1>4, <2>1, <3>1, <3>2, CommitEffect
    <3>4. ASSUME userLock'[v] = s, v \notin eraser'[s].forget
          PROVE  \E r \in Tenant \ {s} : <<v, r>> \in member'
      <4>1. userLock[v] = s /\ v \notin eraser[s].forget
        BY <1>0, <2>1, <3>1, <3>4
      <4>2. PICK r \in Tenant \ {s} : <<v, r>> \in member
        BY <3>2, <4>1
      <4>3. <<v, t>> \notin member
        BY <1>4, <3>1, <4>1, CommitEffect DEF LocksHeld
      <4>4. <<v, r>> \in member'
        BY <1>4, <4>2, <4>3, CommitEffect
      <4> QED
        BY <4>2, <4>4
    <3> QED
      BY <3>1, <3>2, <3>3, <3>4
  <2> QED
    BY <2>2, <2>3 DEF LocksHeld
<1>5. ASSUME NEW t \in Tenant, Stop(t)  PROVE LocksHeld'
  <2>1. \A v \in User : userLock'[v] = IF userLock[v] = t THEN None ELSE userLock[v]
    BY <1>0, <1>5, StopEffect DEF LocksHeld, Released
  <2>2. \A v \in User : userLock'[v] # None => eraser'[userLock'[v]].phase = "locking"
    BY <1>0, <1>5, <2>1, StopEffect DEF LocksHeld
  <2>3. ASSUME NEW s \in Tenant, NEW v \in User, eraser'[s].phase = "locking"
        PROVE  /\ s # t /\ eraser'[s] = eraser[s] /\ (userLock'[v] = s <=> userLock[v] = s)
    BY <1>0, <1>5, <2>1, <2>3, StopEffect
  <2>4. UNCHANGED <<member, inviting>>
    BY <1>5, StopEffect
  <2>5. \A s \in Tenant, u \in User : eraser'[s].phase = "locking" =>
          /\ <<u, s>> \in member' => u \in eraser'[s].todo \/ userLock'[u] = s
          /\ userLock'[u] = s /\ u \notin eraser'[s].forget =>
               \E r \in Tenant \ {s} : <<u, r>> \in member'
          /\ <<u, s>> \notin inviting'
    BY <2>3, <2>4 DEF LocksHeld
  <2> QED
    BY <2>2, <2>5 DEF LocksHeld
<1>6. ASSUME NEW u \in User, NEW t \in Tenant, Invite(u, t)  PROVE LocksHeld'
  <2>1. /\ UNCHANGED <<member, userLock, eraser>> /\ inviting' = inviting \cup {<<u, t>>}
        /\ eraser[t].phase # "locking"
    BY <1>6 DEF Invite, Unlocked, erasure
  <2> QED
    BY <2>1 DEF LocksHeld
<1>7. ASSUME NEW u \in User, NEW t \in Tenant, AddMember(u, t)  PROVE LocksHeld'
  <2>1. /\ UNCHANGED <<userLock, eraser>> /\ inviting' = inviting \ {<<u, t>>}
        /\ member' = member \cup {<<u, t>>} /\ <<u, t>> \in inviting
    BY <1>7 DEF AddMember, erasure
  <2> QED
    BY <2>1 DEF LocksHeld
<1> QED
  BY <1>1, <1>2, <1>3, <1>4, <1>5, <1>6, <1>7, Steps

LEMMA RememberedStay ==
  ASSUME Typed, LocksHeld, Remembered, [Next]_vars
  PROVE  Remembered'
<1> USE LifecycleConstants
<1> SUFFICES ASSUME NEW m \in Members
             PROVE  m[1] \in anonymous' \/ \E t \in Tenant : <<m[1], t>> \in member'
  BY DEF Remembered
<1>0. m[1] \in User /\ (m[1] \in anonymous \/ \E t \in Tenant : <<m[1], t>> \in member)
  BY DEF Remembered
<1>1. CASE anonymous \subseteq anonymous' /\ member \subseteq member'
  BY <1>0, <1>1
<1>2. ASSUME NEW t \in Tenant, CommitErasure(t)
      PROVE  m[1] \in anonymous' \/ \E s \in Tenant : <<m[1], s>> \in member'
  <2>1. anonymous \subseteq anonymous' /\ eraser[t].forget \subseteq anonymous'
    BY <1>2, CommitEffect
  <2>2. \A s \in Tenant \ {t} : <<m[1], s>> \in member => <<m[1], s>> \in member'
    BY <1>2, CommitEffect
  <2>3. CASE <<m[1], t>> \in member
    <3>0. eraser[t].phase = "locking" /\ eraser[t].todo = {}
      BY <1>2, CommitEffect
    <3>1. userLock[m[1]] = t
      BY <1>0, <2>3, <3>0 DEF LocksHeld
    <3>2. m[1] \in eraser[t].forget \/ \E s \in Tenant \ {t} : <<m[1], s>> \in member
      BY <1>0, <3>0, <3>1 DEF LocksHeld
    <3> QED
      BY <2>1, <2>2, <3>2
  <2> QED
    BY <1>0, <2>1, <2>2, <2>3
<1>3. ASSUME NEW u \in User, NEW t \in Tenant,
             Invite(u, t) \/ AddMember(u, t) \/ LockUser(t, u)
      PROVE  anonymous \subseteq anonymous' /\ member \subseteq member'
  BY <1>3 DEF Invite, AddMember, LockUser
<1>4. ASSUME NEW t \in Tenant, BeginErasure(t) \/ Stop(t)
      PROVE  anonymous \subseteq anonymous' /\ member \subseteq member'
  BY <1>4 DEF BeginErasure, Stop, people
<1> QED
  BY <1>1, <1>2, <1>3, <1>4, PeopleFrame, Steps

\* Nobody whose last organizations are erased keeps a name here (tenant_data.py:146),
\* in whatever order the erasures look at their members and commit.
THEOREM EverybodyIsRemembered == Spec => []NobodyForgotten
<1> DEFINE Inv == Typed /\ PlansFollow /\ LocksHeld /\ Remembered
<1>1. Init => Inv
  <2> SUFFICES ASSUME Init  PROVE Inv
    OBVIOUS
  <2>1. Typed /\ PlansFollow /\ LocksHeld
    BY InitTypes, LifecycleConstants DEF Init, PlansFollow, LocksHeld, Off, NoReceipt
  <2>2. Remembered
    <3> SUFFICES ASSUME NEW m \in Members
                 PROVE  m[1] \in anonymous \/ \E t \in Tenant : <<m[1], t>> \in member
      BY DEF Remembered
    <3>1. m = <<m[1], m[2]>> /\ m[2] \in Tenant
      BY LifecycleConstants
    <3> QED
      BY <3>1 DEF Init
  <2> QED
    BY <2>1, <2>2
<1>2. Inv /\ [Next]_vars => Inv'
  BY TypesStay, PlansFollowStay, LocksHeldStay, RememberedStay
<1>3. Inv => NobodyForgotten
  BY DEF Remembered, NobodyForgotten
<1> HIDE DEF Inv
<1> QED
  BY <1>1, <1>2, <1>3, PTL DEF Spec

-----------------------------------------------------------------------------
(***************************************************************************)
(* Form drafts.  A row keeps its number and only ever rises in version, so *)
(* a number and a version name one text.                                   *)
(***************************************************************************)
DraftRow == [id : Nat, version : Nat, text : Text \cup {Blank}, live : BOOLEAN]

\* What a window or a request holds is a state the row was in.
Held(r) ==
  /\ r \in DraftRow /\ r.id <= rows
  /\ r.id = 0 => r.version = 0 /\ r.text = Blank
  /\ r.id = row.id => r.version <= row.version /\ (r.version = row.version => r.text = row.text)

DraftInv ==
  /\ rows \in Nat /\ Held(row)
  /\ row.id = 0 => row = Drafts!NoRow
  /\ window \in [Window -> [text : Text \cup {Blank}, record : DraftRow, initialized : BOOLEAN,
                            conflict : BOOLEAN, error : BOOLEAN]]
  /\ asked \in [Window -> [kind : {"get", "put", "delete", None}, record : DraftRow,
                           text : Text \cup {Blank},
                           answer : {"found", "missing", "saved", "conflict", "deleted", None}]]
  /\ \A w \in Window : Held(window[w].record) /\ Held(asked[w].record)
  /\ \A call \in late : Held(call.record) /\ call.text \in Text \cup {Blank}

\* What a step may do to the row.
RowMoves ==
  \/ UNCHANGED <<row, rows>>
  \/ rows' = rows /\ row' = Drafts!NoRow
  \/ rows' = rows /\ row' = [row EXCEPT !.live = FALSE]
  \/ \E text \in Text \cup {Blank} :
       IF row = Drafts!NoRow
       THEN rows' = rows + 1 /\ row' = [id |-> rows + 1, version |-> 1, text |-> text, live |-> TRUE]
       ELSE rows' = rows /\ row' = [row EXCEPT !.version = row.version + 1, !.text = text, !.live = TRUE]

LEMMA HeldStays ==
  ASSUME DraftInv, RowMoves
  PROVE  /\ rows' \in Nat /\ Held(row)' /\ (row'.id = 0 => row' = Drafts!NoRow)
         /\ \A r : Held(r) => Held(r)'
<1>1. /\ row \in DraftRow /\ rows \in Nat /\ row.id <= rows
      /\ row.id = 0 => row.version = 0 /\ row.text = Blank
      /\ row.id = 0 => row = Drafts!NoRow
  BY DEF DraftInv, Held
<1>2. CASE UNCHANGED <<row, rows>>
  BY <1>1, <1>2 DEF DraftInv, Held
<1>3. CASE rows' = rows /\ row' = Drafts!NoRow
  BY <1>1, <1>3 DEF Held, Drafts!NoRow, DraftRow
<1>4. CASE rows' = rows /\ row' = [row EXCEPT !.live = FALSE]
  <2>1. row' \in DraftRow /\ row'.id = row.id /\ row'.version = row.version /\ row'.text = row.text
    BY <1>1, <1>4 DEF DraftRow
  <2>2. row.id = 0 => row' = Drafts!NoRow
    BY <1>1, <1>4 DEF Drafts!NoRow
  <2>3. rows' \in Nat /\ Held(row)' /\ (row'.id = 0 => row' = Drafts!NoRow)
    BY <1>1, <1>4, <2>1, <2>2 DEF Held, DraftRow
  <2>4. \A r : Held(r) => Held(r)'
    BY <1>1, <1>4, <2>1 DEF Held
  <2> QED
    BY <2>3, <2>4
<1>5. ASSUME NEW text \in Text \cup {Blank}, row = Drafts!NoRow, rows' = rows + 1,
             row' = [id |-> rows + 1, version |-> 1, text |-> text, live |-> TRUE]
      PROVE  /\ rows' \in Nat /\ Held(row)' /\ (row'.id = 0 => row' = Drafts!NoRow)
             /\ \A r : Held(r) => Held(r)'
  <2>1. row' \in DraftRow /\ row'.id = rows + 1
    BY <1>1, <1>5 DEF DraftRow
  <2>2. \A r : Held(r) => r.id \in Nat /\ r.id <= rows
    BY DEF Held, DraftRow
  <2> QED
    BY <1>1, <1>5, <2>1, <2>2 DEF Held
<1>6. ASSUME NEW text \in Text \cup {Blank}, row # Drafts!NoRow, rows' = rows,
             row' = [row EXCEPT !.version = row.version + 1, !.text = text, !.live = TRUE]
      PROVE  /\ rows' \in Nat /\ Held(row)' /\ (row'.id = 0 => row' = Drafts!NoRow)
             /\ \A r : Held(r) => Held(r)'
  <2>1. row.version \in Nat /\ row.id \in Nat /\ row.id # 0
    BY <1>1, <1>6 DEF DraftRow
  <2>2. row' \in DraftRow /\ row'.id = row.id /\ row'.version = row.version + 1
    <3>1. PICK v \in Nat : v = row.version + 1
      BY <2>1
    <3>2. row' = [row EXCEPT !.version = v, !.text = text, !.live = TRUE]
      BY <1>6, <3>1
    <3> QED
      BY <1>1, <3>1, <3>2 DEF DraftRow
  <2>3. \A r : Held(r) => r.version \in Nat
    BY DEF Held, DraftRow
  <2> QED
    BY <1>1, <1>6, <2>1, <2>2, <2>3 DEF Held
<1> QED
  BY <1>2, <1>3, <1>4, <1>5, <1>6 DEF RowMoves

LEMMA BlankIsHeld == DraftInv => Held(Drafts!NoRow)
BY DEF DraftInv, Held, Drafts!NoRow, DraftRow

\* A request does no more, from the window or late.
LEMMA ServingMoves ==
  ASSUME DraftInv, NEW call, call.text \in Text \cup {Blank}, Drafts!Serve(call)
  PROVE  RowMoves
<1>1. CASE Drafts!GetDraft(call)
  BY <1>1 DEF Drafts!GetDraft, RowMoves
<1>2. CASE Drafts!SaveDraft(call)
  BY <1>2 DEF Drafts!SaveDraft, Drafts!NewRow, Drafts!NextVersion, RowMoves
<1>3. CASE Drafts!DeleteDraft(call)
  BY <1>3 DEF Drafts!DeleteDraft, RowMoves
<1> QED
  BY <1>1, <1>2, <1>3 DEF Drafts!Serve

Windows == [Window -> [text : Text \cup {Blank}, record : DraftRow, initialized : BOOLEAN,
                       conflict : BOOLEAN, error : BOOLEAN]]
Request == [kind : {"get", "put", "delete", None}, record : DraftRow, text : Text \cup {Blank},
            answer : {"found", "missing", "saved", "conflict", "deleted", None}]

\* Steps of a window that send or lose something leave the row alone.
LEMMA WindowsKeep ==
  ASSUME DraftInv, NEW w \in Window, UNCHANGED <<row, rows>>,
         window' \in Windows, asked' \in [Window -> Request],
         \A v \in Window : window'[v].record = window[v].record,
         \A v \in Window : asked'[v].record \in {asked[v].record, window[v].record, Drafts!NoRow},
         late' \subseteq late \cup {asked[v] : v \in Window}
  PROVE  DraftInv'
<1>1. RowMoves
  BY DEF RowMoves
<1>2. \A r : Held(r) => Held(r)'
  BY <1>1, HeldStays
<1>3. \A v \in Window : Held(asked[v].record) /\ asked[v].text \in Text \cup {Blank} /\ Held(window[v].record)
  BY DEF DraftInv
<1>4. \A call \in late' : Held(call.record)' /\ call.text \in Text \cup {Blank}
  BY <1>2, <1>3 DEF DraftInv
<1>5. \A v \in Window : Held(window[v].record)' /\ Held(asked[v].record)'
  <2> SUFFICES ASSUME NEW v \in Window PROVE Held(window[v].record)' /\ Held(asked[v].record)'
    OBVIOUS
  <2>1. PICK new, sent : new = window'[v].record /\ sent = asked'[v].record
    OBVIOUS
  <2>2. Held(new) /\ Held(sent)
    BY <1>3, <2>1, BlankIsHeld
  <2>3. Held(new)' /\ Held(sent)'
    BY <1>2, <2>2
  <2> QED
    BY <2>1, <2>3
<1>6. rows' \in Nat /\ Held(row)' /\ (row'.id = 0 => row' = Drafts!NoRow)
  BY <1>1, HeldStays
<1> QED
  BY <1>4, <1>5, <1>6 DEF DraftInv, Windows, Request

LEMMA DraftInit == Drafts!Init => DraftInv
<1> SUFFICES ASSUME Drafts!Init PROVE DraftInv
  OBVIOUS
<1>1. Drafts!NoRow \in DraftRow /\ Drafts!NoRow.id = 0 /\ Drafts!NoRow.version = 0
      /\ Drafts!NoRow.text = Blank
  BY DEF Drafts!NoRow, DraftRow
<1>2. rows = 0 /\ row = Drafts!NoRow /\ late = {}
  BY DEF Drafts!Init
<1>3. Held(Drafts!NoRow)
  BY <1>1, <1>2 DEF Held
<1>4. window \in Windows /\ \A w \in Window : window[w].record = Drafts!NoRow
  BY <1>1 DEF Drafts!Init, Windows
<1>5. asked \in [Window -> Request] /\ \A w \in Window : asked[w].record = Drafts!NoRow
  BY <1>1 DEF Drafts!Init, Drafts!NoRequest, Request
<1> QED
  BY <1>1, <1>2, <1>3, <1>4, <1>5 DEF DraftInv, Windows, Request

LEMMA DraftStep == DraftInv /\ [Drafts!Next]_(Drafts!vars) => DraftInv'
<1> SUFFICES ASSUME DraftInv, [Drafts!Next]_(Drafts!vars) PROVE DraftInv'
  OBVIOUS
<1>1. CASE UNCHANGED Drafts!vars
  BY <1>1 DEF DraftInv, Drafts!vars, Held
<1>2. window \in Windows /\ asked \in [Window -> Request]
  BY DEF DraftInv, Windows, Request
<1>3. Drafts!NoRow \in DraftRow /\ Drafts!NoRequest \in Request
  BY DEF Drafts!NoRow, Drafts!NoRequest, DraftRow, Request
<1>4. ASSUME NEW w \in Window, NEW kind \in {"get", "put", "delete"}, Drafts!Ask(w, kind)
      PROVE  /\ asked' \in [Window -> Request]
             /\ \A v \in Window : asked'[v].record \in {asked[v].record, window[v].record, Drafts!NoRow}
  <2>1. asked' = [asked EXCEPT ![w] = [Drafts!NoRequest EXCEPT !.kind = kind, !.record = window[w].record,
                                                               !.text = window[w].text]]
    BY <1>4 DEF Drafts!Ask
  <2>2. [Drafts!NoRequest EXCEPT !.kind = kind, !.record = window[w].record, !.text = window[w].text]
          \in Request
    BY <1>2, <1>3 DEF Request, Windows
  <2> QED
    BY <1>2, <2>1, <2>2
<1>5. ASSUME NEW w \in Window, Drafts!Load(w) PROVE DraftInv'
  <2>1. window' \in Windows /\ \A v \in Window : window'[v].record = window[v].record
    BY <1>2, <1>5 DEF Drafts!Load, Windows
  <2> QED
    BY <1>4, <1>5, <2>1, WindowsKeep DEF Drafts!Load
<1>6. ASSUME NEW w \in Window, NEW text \in Text, Drafts!Edit(w, text) PROVE DraftInv'
  <2>1. window' \in Windows /\ \A v \in Window : window'[v].record = window[v].record
    BY <1>2, <1>6 DEF Drafts!Edit, Windows
  <2> QED
    BY <1>2, <1>6, <2>1, WindowsKeep DEF Drafts!Edit
<1>7. ASSUME NEW w \in Window, Drafts!Save(w) PROVE DraftInv'
  <2>1. window' \in Windows /\ \A v \in Window : window'[v].record = window[v].record
    BY <1>2, <1>7 DEF Drafts!Save, Windows
  <2> QED
    BY <1>4, <1>7, <2>1, WindowsKeep DEF Drafts!Save
<1>8. ASSUME NEW w \in Window, Drafts!Clear(w) PROVE DraftInv'
  <2>1. window' \in Windows /\ \A v \in Window : window'[v].record = window[v].record
    <3>1. window' = [window EXCEPT ![w].error = FALSE]
          \/ window' = [window EXCEPT ![w].text = Blank, ![w].error = FALSE]
      BY <1>8 DEF Drafts!Clear
    <3>2. CASE window' = [window EXCEPT ![w].error = FALSE]
      BY <1>2, <3>2 DEF Windows
    <3>3. CASE window' = [window EXCEPT ![w].text = Blank, ![w].error = FALSE]
      <4>1. [window[w] EXCEPT !.text = Blank, !.error = FALSE]
              \in [text : Text \cup {Blank}, record : DraftRow, initialized : BOOLEAN,
                   conflict : BOOLEAN, error : BOOLEAN]
        BY <1>2 DEF Windows
      <4>2. window' = [window EXCEPT ![w] = [window[w] EXCEPT !.text = Blank, !.error = FALSE]]
        BY <1>2, <3>3 DEF Windows
      <4> QED
        BY <1>2, <4>1, <4>2 DEF Windows
    <3> QED
      BY <3>1, <3>2, <3>3
  <2>2. /\ asked' \in [Window -> Request]
        /\ \A v \in Window : asked'[v].record \in {asked[v].record, window[v].record, Drafts!NoRow}
    BY <1>2, <1>4, <1>8 DEF Drafts!Clear
  <2> QED
    BY <1>8, <2>1, <2>2, WindowsKeep DEF Drafts!Clear
<1>9. ASSUME NEW w \in Window, Drafts!Lose(w) PROVE DraftInv'
  <2>1. window' \in Windows /\ \A v \in Window : window'[v].record = window[v].record
    BY <1>2, <1>9 DEF Drafts!Lose, Windows
  <2>2. /\ asked' \in [Window -> Request]
        /\ \A v \in Window : asked'[v].record \in {asked[v].record, window[v].record, Drafts!NoRow}
    BY <1>2, <1>3, <1>9 DEF Drafts!Lose, Drafts!NoRequest
  <2>3. late' \subseteq late \cup {asked[v] : v \in Window} /\ UNCHANGED <<row, rows>>
    BY <1>9 DEF Drafts!Lose
  <2> QED
    BY <2>1, <2>2, <2>3, WindowsKeep
<1>10. ASSUME NEW w \in Window, Drafts!Receive(w) PROVE DraftInv'
  <2>1. RowMoves
    BY <1>2, <1>10, ServingMoves DEF Drafts!Receive, Request
  <2>2. rows' \in Nat /\ Held(row)' /\ (row'.id = 0 => row' = Drafts!NoRow) /\ \A r : Held(r) => Held(r)'
    BY <2>1, HeldStays
  <2>3. window' = window /\ late' = late
    BY <1>10 DEF Drafts!Receive
  <2>4. PICK answer \in {"found", "missing", "saved", "conflict", "deleted"}, record \in {row', asked[w].record} :
          asked' = [asked EXCEPT ![w].answer = answer, ![w].record = record]
    <3>1. Drafts!Answer(asked[w]) \in {"found", "missing", "saved", "conflict", "deleted"}
      BY <1>10, <1>2 DEF Drafts!Answer, Drafts!Receive, Request
    <3> HIDE DEF Drafts!Answer
    <3> QED
      BY <1>10, <3>1 DEF Drafts!Receive
  <2>5. record \in DraftRow
    BY <1>2, <2>2, <2>4 DEF Held, Request
  <2>6. /\ asked' \in [Window -> Request]
        /\ \A v \in Window : asked'[v].record = IF v = w THEN record ELSE asked[v].record
    <3>1. [asked[w] EXCEPT !.answer = answer, !.record = record] \in Request
      BY <1>2, <2>4, <2>5 DEF Request
    <3>2. asked' = [asked EXCEPT ![w] = [asked[w] EXCEPT !.answer = answer, !.record = record]]
      BY <1>2, <2>4
    <3> QED
      BY <1>2, <3>1, <3>2 DEF Request
  <2>7. Held(record)'
    BY <2>2, <2>4 DEF DraftInv
  <2>8. \A v \in Window : Held(asked[v].record)'
    <3> SUFFICES ASSUME NEW v \in Window PROVE Held(asked[v].record)'
      OBVIOUS
    <3>1. PICK r : r = asked'[v].record
      OBVIOUS
    <3>2. Held(r)'
      BY <2>2, <2>6, <2>7, <3>1 DEF DraftInv
    <3> QED
      BY <3>1, <3>2
  <2>9. \A v \in Window : Held(window[v].record)'
    BY <2>2, <2>3 DEF DraftInv
  <2>10. \A call \in late' : Held(call.record)' /\ call.text \in Text \cup {Blank}
    BY <2>2, <2>3 DEF DraftInv
  <2> QED
    BY <1>2, <2>2, <2>3, <2>6, <2>8, <2>9, <2>10 DEF DraftInv, Windows, Request
<1>11. ASSUME RowMoves, UNCHANGED <<window, asked>>, late' \subseteq late PROVE DraftInv'
  <2>1. rows' \in Nat /\ Held(row)' /\ (row'.id = 0 => row' = Drafts!NoRow) /\ \A r : Held(r) => Held(r)'
    BY <1>11, HeldStays
  <2>2. \A v \in Window : Held(window[v].record)' /\ Held(asked[v].record)'
    BY <1>11, <2>1 DEF DraftInv
  <2>3. \A call \in late' : Held(call.record)' /\ call.text \in Text \cup {Blank}
    BY <1>11, <2>1 DEF DraftInv
  <2> QED
    BY <1>2, <1>11, <2>1, <2>2, <2>3 DEF DraftInv, Windows, Request
<1>12. ASSUME NEW call \in late, Drafts!ReceiveLate(call) PROVE DraftInv'
  <2>1. call.text \in Text \cup {Blank}
    BY DEF DraftInv
  <2>2. RowMoves
    BY <1>12, <2>1, ServingMoves DEF Drafts!ReceiveLate
  <2> QED
    BY <1>11, <1>12, <2>2 DEF Drafts!ReceiveLate
<1>13. CASE Drafts!Expire \/ Drafts!Purge
  <2>1. RowMoves /\ UNCHANGED <<window, asked, late>>
    BY <1>13 DEF Drafts!Expire, Drafts!Purge, RowMoves
  <2> QED
    BY <1>11, <2>1
<1>14. ASSUME NEW w \in Window, Drafts!Finish(w) PROVE DraftInv'
  <2> DEFINE a == asked[w].answer
             record == CASE a \in {"found", "saved"} -> asked[w].record
                         [] a \in {"missing", "deleted"} -> Drafts!NoRow
                         [] OTHER -> window[w].record
             text == CASE a = "found" -> asked[w].record.text
                       [] a = "missing" -> Blank
                       [] a = "saved" -> Drafts!TextAfterSave(w)
                       [] a = "deleted" -> IF Drafts!Untouched(w) THEN Blank ELSE window[w].text
                       [] OTHER -> window[w].text
             conflict == IF a \in {"found", "missing"} THEN FALSE ELSE Drafts!Conflicting(w)
             new == [window[w] EXCEPT !.initialized = TRUE, !.conflict = conflict, !.record = record,
                                      !.text = text]
  <2>1. window' = [window EXCEPT ![w] = new]
    BY <1>2, <1>14 DEF Drafts!Finish, Windows
  <2>2. record \in {asked[w].record, window[w].record, Drafts!NoRow}
    OBVIOUS
  <2>3. text \in Text \cup {Blank}
    BY <1>2 DEF Windows, Request, DraftRow, Drafts!TextAfterSave
  <2>4. conflict \in BOOLEAN
    BY DEF Drafts!Conflicting
  <2>5. record \in DraftRow /\ Held(record)
    BY <1>2, <1>3, <2>2, BlankIsHeld DEF DraftInv, Request, Windows
  <2> HIDE DEF record, text, conflict
  <2>6. /\ new \in [text : Text \cup {Blank}, record : DraftRow, initialized : BOOLEAN,
                    conflict : BOOLEAN, error : BOOLEAN]
        /\ new.record = record
    BY <1>2, <2>3, <2>4, <2>5 DEF Windows
  <2> HIDE DEF new
  <2>7. window' \in Windows /\ \A v \in Window : Held(window'[v].record)
    BY <1>2, <2>1, <2>5, <2>6 DEF Windows, DraftInv
  <2>8. /\ UNCHANGED <<row, rows, late>> /\ asked' \in [Window -> Request]
        /\ \A v \in Window : asked'[v].record \in {asked[v].record, Drafts!NoRow}
    BY <1>2, <1>3, <1>14 DEF Drafts!Finish, Drafts!NoRequest
  <2>9. \A v \in Window : Held(asked'[v].record)
    BY <2>8, BlankIsHeld DEF DraftInv
  <2>10. \A v \in Window : Held(window[v].record)' /\ Held(asked[v].record)'
    BY <2>7, <2>8, <2>9 DEF Held
  <2>11. Held(row)' /\ \A call \in late' : Held(call.record)' /\ call.text \in Text \cup {Blank}
    BY <2>8 DEF DraftInv, Held
  <2> QED
    BY <2>7, <2>8, <2>10, <2>11 DEF DraftInv, Windows, Request
<1> QED
  BY <1>1, <1>5, <1>6, <1>7, <1>8, <1>9, <1>10, <1>12, <1>13, <1>14 DEF Drafts!Next, Drafts!OfWindow

(* A window, or a request it sent however long ago, changes or removes a   *)
(* row only in the state the window had seen, for any windows, texts and   *)
(* losses: a number and a version never name two texts.                    *)
THEOREM DraftsOverwriteWhatWasSeen == Drafts!Spec => OverwritesWhatWasSeen
<1> DEFINE Seen == \A call \in late \cup {asked[w] : w \in Window} :
                     Drafts!Serve(call) /\ row' # row /\ row.live /\ call.record.id = row.id
                       => call.record.text = row.text
<1>1. DraftInv => Seen
  <2> SUFFICES ASSUME DraftInv, NEW call \in late \cup {asked[w] : w \in Window},
                      Drafts!Serve(call), row' # row, row.live, call.record.id = row.id
               PROVE  call.record.text = row.text
    OBVIOUS
  <2>1. Held(call.record)
    BY DEF DraftInv
  <2>2. call.record.version = row.version
    <3>1. CASE Drafts!GetDraft(call)
      BY <3>1 DEF Drafts!GetDraft
    <3>2. CASE Drafts!SaveDraft(call)
      BY <3>2 DEF Drafts!SaveDraft, Drafts!Version
    <3>3. CASE Drafts!DeleteDraft(call)
      BY <3>3 DEF Drafts!DeleteDraft
    <3> QED
      BY <3>1, <3>2, <3>3 DEF Drafts!Serve
  <2> QED
    BY <2>1, <2>2 DEF Held
<1> HIDE DEF Seen
<1>2. Drafts!Spec => [][Seen]_(Drafts!vars)
  BY <1>1, DraftInit, DraftStep, PTL DEF Drafts!Spec
<1> QED
  BY <1>2, PTL DEF OverwritesWhatWasSeen, Drafts!OverwritesWhatWasSeen, Seen

-----------------------------------------------------------------------------
(***************************************************************************)
(* The onboarding of a zone.                                               *)
(***************************************************************************)
IsZone(z) == z = [i \in Dns!Id |-> z[i]]
FreshFrom(z, n) == \A j \in Dns!Id : j >= n => z[j] = Dns!Gone

DnsTypes ==
  /\ IsZone(zone) /\ IsZone(tool.expected) /\ (snapshot # None => IsZone(snapshot))
  /\ next \in Nat \ {0} /\ FreshFrom(zone, next)
  /\ outside \in Nat /\ quiet \in BOOLEAN
  /\ tool = [phase |-> tool.phase, at |-> tool.at, expected |-> tool.expected, result |-> tool.result]
  /\ tool.phase \in {"idle", "exporting", "read", "prepared", "sent"}
  /\ tool.at \in Nat /\ tool.result \in Nat
  /\ zoneReceipt = [state |-> zoneReceipt.state, operations |-> zoneReceipt.operations]
  /\ undo = [state |-> undo.state, operations |-> undo.operations]

\* An action of a plan speaks of a record as it was inspected.
Reviewed(a, records) ==
  /\ a.operation \in {"create", "update", "delete"}
  /\ a.operation # "create" => /\ a.id \in Dns!Id /\ records[a.id] # Dns!Gone
                               /\ a.before = records[a.id]
  /\ a.operation = "delete" => a.after = Dns!Gone

\* No two actions of a plan speak of one record.
PlanReviewed(p) ==
  /\ IsZone(p.records)
  /\ Len(p.actions) \in Nat /\ DOMAIN p.actions = 1..Len(p.actions)
  /\ \A n \in DOMAIN p.actions : Reviewed(p.actions[n], p.records)
  /\ \A n, m \in DOMAIN p.actions :
       n # m /\ p.actions[n].operation # "create" /\ p.actions[m].operation # "create"
         => p.actions[n].id # p.actions[m].id

Ops == zoneReceipt.operations
ActionAt(n) == zonePlan.actions[n]
Confirmed(n) == Ops[n].state = "confirmed"

\* The record an action was carried out on.
ResultOf(a, r) ==
  /\ r \in Dns!Id /\ r < next
  /\ IF a.operation = "create" THEN zonePlan.records[r] = Dns!Gone ELSE r = a.id

ReceiptHolds ==
  /\ Len(Ops) \in Nat /\ DOMAIN Ops = 1..Len(Ops)
  /\ \E all : Ops \in Seq(all)
  /\ zoneReceipt.state = "none" => zoneReceipt = Dns!NoReceipt
  /\ zoneReceipt.state # "none" =>
       /\ zonePlan # None /\ FreshFrom(zonePlan.records, next)
       /\ Len(Ops) <= Len(zonePlan.actions)
       /\ \A n \in DOMAIN Ops :
            Ops[n] = [action |-> ActionAt(n), state |-> Ops[n].state, result |-> Ops[n].result]
       /\ \A n \in DOMAIN Ops : Confirmed(n) => ResultOf(ActionAt(n), Ops[n].result)
       /\ \A n, m \in DOMAIN Ops :
            n # m /\ Confirmed(n) /\ Confirmed(m) => Ops[n].result # Ops[m].result

Stages ==
  /\ undo.state = "none" => undo = Dns!NoReceipt
  /\ tool.phase = "exporting" => zoneReceipt.state = "none"
  /\ zoneReceipt.state = "none" => undo.state = "none" /\ tool.phase \in {"idle", "exporting"}
  /\ undo.state \notin {"none", "running"} => tool.phase = "idle"
  /\ undo.state = "running" => tool.phase # "sent"

\* While the plan is applied: what is still to be done finds the records as inspected.
ApplyHolds ==
  undo.state = "none" /\ tool.phase \in {"read", "prepared", "sent"} =>
    /\ tool.at >= 1 /\ Len(Ops) = IF tool.phase = "read" THEN tool.at - 1 ELSE tool.at
    /\ \A n \in DOMAIN Ops : n < tool.at => Confirmed(n)
    /\ quiet => zone = tool.expected
    /\ \A n \in DOMAIN zonePlan.actions :
         (n > tool.at \/ (n = tool.at /\ tool.phase # "sent")) /\ ActionAt(n).operation # "create"
           => tool.expected[ActionAt(n).id] = zonePlan.records[ActionAt(n).id]
    /\ tool.phase = "sent" => /\ ResultOf(ActionAt(tool.at), tool.result)
                              /\ \A n \in DOMAIN Ops : n < tool.at => Ops[n].result # tool.result

TakenBack(n) ==
  LET a == ActionAt(n)
  IN /\ a.operation = "create" => tool.expected[Ops[n].result] = Dns!Gone
     /\ a.operation = "update" => tool.expected[Ops[n].result] = a.before
     /\ a.operation = "delete" =>
          \E i \in Dns!Id : /\ i < next /\ tool.expected[i] = a.before
                            /\ \A m \in DOMAIN Ops : Ops[m].result # i

\* While it is taken back: the last operations are, the others are as they were left.
UndoHolds ==
  undo.state = "running" /\ tool.phase \in {"read", "prepared"} =>
    /\ tool.at <= Len(Ops) /\ (tool.phase = "prepared" => tool.at >= 1)
    /\ \A n \in DOMAIN Ops : Confirmed(n)
    /\ quiet => zone = tool.expected
    /\ \A n \in DOMAIN Ops : n <= tool.at /\ ActionAt(n).operation # "delete"
         => tool.expected[Ops[n].result] = ActionAt(n).after
    /\ \A n \in DOMAIN Ops : n > tool.at => TakenBack(n)

DnsInv ==
  /\ DnsTypes
  /\ zonePlan # None => PlanReviewed(zonePlan)
  /\ ReceiptHolds /\ Stages /\ ApplyHolds /\ UndoHolds

LEMMA IdleTool ==
  /\ IsZone(Zone) /\ Dns!Idle.expected = Zone /\ Dns!Idle.phase = "idle" /\ Dns!Idle.at = 1
  /\ Dns!Idle.result = 0
  /\ Dns!Idle = [phase |-> "idle", at |-> 1, expected |-> Zone, result |-> 0]
BY OnboardingConstants DEF Dns!Idle, IsZone, Dns!Id

\* The tool stops, however far it was and whatever it writes down about it.
LEMMA StopKeeps ==
  ASSUME DnsInv, UNCHANGED <<zone, next, outside, snapshot, zonePlan>>, quiet' \in BOOLEAN,
         tool' = Dns!Idle,
         \/ zoneReceipt' = zoneReceipt
         \/ /\ zoneReceipt.state # "none"
            /\ \E s : s # "none" /\ zoneReceipt' = [zoneReceipt EXCEPT !.state = s],
         \/ undo' = undo
         \/ undo.state = "running" /\ \E s : s # "none" /\ undo' = [undo EXCEPT !.state = s]
  PROVE  DnsInv'
<1>1. /\ zoneReceipt'.operations = zoneReceipt.operations
      /\ zoneReceipt'.state = "none" <=> zoneReceipt.state = "none"
      /\ zoneReceipt'.state = "none" => zoneReceipt' = zoneReceipt
      /\ zoneReceipt' = [state |-> zoneReceipt'.state, operations |-> zoneReceipt'.operations]
  BY DEF DnsInv, DnsTypes
<1>2. /\ undo'.state = "none" <=> undo.state = "none"
      /\ undo'.state = "none" => undo' = undo
      /\ undo' = [state |-> undo'.state, operations |-> undo'.operations]
  BY DEF DnsInv, DnsTypes
<1>3. DnsTypes'
  BY <1>1, <1>2, IdleTool DEF DnsInv, DnsTypes, IsZone, FreshFrom
<1>4. ReceiptHolds'
  BY <1>1, SMTT(30) DEF DnsInv, ReceiptHolds, Ops, ActionAt, Confirmed, ResultOf, FreshFrom
<1>5. Stages' /\ ApplyHolds' /\ UndoHolds'
  BY <1>1, <1>2, IdleTool DEF DnsInv, Stages, ApplyHolds, UndoHolds
<1> QED
  BY <1>3, <1>4, <1>5 DEF DnsInv, PlanReviewed

LEMMA DnsInit == Dns!Init => DnsInv
<1> SUFFICES ASSUME Dns!Init PROVE DnsInv
  OBVIOUS
<1>1. PICK known \in 0..MaxId : \A i \in 1..MaxId : Zone[i] # Dns!Gone <=> i <= known
  BY OnboardingConstants
<1>2. /\ zone = Zone /\ snapshot = None /\ zonePlan = None /\ zoneReceipt = Dns!NoReceipt
      /\ tool = Dns!Idle /\ undo = Dns!NoReceipt /\ outside = 0 /\ quiet = TRUE
      /\ next = Dns!Cardinality(Dns!Records) + 1
  BY DEF Dns!Init
<1>3. Dns!Records = 1..known
  BY <1>1, <1>2, OnboardingConstants DEF Dns!Records, Dns!Id
<1>4. next = known + 1 /\ known \in Nat
  <2>1. known \in Nat /\ 1 \in Int /\ known \in Int
    BY OnboardingConstants
  <2>2. Cardinality(1..known) = IF 1 > known THEN 0 ELSE known - 1 + 1
    BY <2>1, FS_Interval
  <2>3. Cardinality(1..known) = known
    BY <2>1, <2>2
  <2>4. Dns!Cardinality(Dns!Records) = Cardinality(Dns!Records)
    BY DEF Dns!Cardinality, Cardinality
  <2> QED
    BY <1>2, <1>3, <2>1, <2>3, <2>4
<1>5. IsZone(Zone) /\ FreshFrom(Zone, next)
  BY <1>1, <1>4, IdleTool, OnboardingConstants DEF FreshFrom, Dns!Id
<1>6. DnsTypes
  BY <1>2, <1>4, <1>5, IdleTool DEF DnsTypes, Dns!NoReceipt
<1>7. Len(Ops) = 0 /\ DOMAIN Ops = 1..0 /\ zoneReceipt.state = "none" /\ undo.state = "none"
  BY <1>2 DEF Ops, Dns!NoReceipt
<1>8. ReceiptHolds /\ Stages /\ ApplyHolds /\ UndoHolds
  BY <1>2, <1>7, IdleTool DEF ReceiptHolds, Stages, ApplyHolds, UndoHolds
<1> QED
  BY <1>2, <1>6, <1>8 DEF DnsInv

\* Numbers are only given out: what was below the next one still is.
LEMMA NextGrows ==
  ASSUME DnsInv, next' \in Nat, next' >= next, UNCHANGED zonePlan
  PROVE  /\ \A z : FreshFrom(z, next) => FreshFrom(z, next')
         /\ \A a, r : ResultOf(a, r) => ResultOf(a, r)'
         /\ \A i \in Dns!Id : i < next => i < next'
<1>1. next \in Nat /\ Dns!Id \subseteq Nat
  BY DEF DnsInv, DnsTypes, Dns!Id
<1>2. \A j \in Dns!Id : (j >= next' => j >= next) /\ (j < next => j < next')
  BY <1>1
<1> QED
  BY <1>1, <1>2 DEF FreshFrom, ResultOf

\* Others edit the zone: what the tool has read is not the zone any more.
LEMMA OutsideKeeps == DnsInv /\ Dns!OutsideEdit => DnsInv'
<1> SUFFICES ASSUME DnsInv, Dns!OutsideEdit PROVE DnsInv'
  OBVIOUS
<1>1. /\ outside' = outside + 1 /\ quiet' = FALSE
      /\ UNCHANGED <<snapshot, zonePlan, zoneReceipt, tool, undo>>
  BY DEF Dns!OutsideEdit
<1>2. IsZone(zone)' /\ next' \in Nat \ {0} /\ next' >= next /\ FreshFrom(zone, next)'
  <2>1. ASSUME NEW i \in Dns!Records, NEW record, zone' = [zone EXCEPT ![i] = record], next' = next
        PROVE  IsZone(zone)' /\ next' \in Nat \ {0} /\ next' >= next /\ FreshFrom(zone, next)'
    <3>1. i \in Dns!Id /\ ~(i >= next)
      BY DEF Dns!Records, DnsInv, DnsTypes, FreshFrom
    <3> QED
      BY <2>1, <3>1 DEF DnsInv, DnsTypes, IsZone, FreshFrom
  <2>2. ASSUME NEW record, next <= MaxId, zone' = [zone EXCEPT ![next] = record], next' = next + 1
        PROVE  IsZone(zone)' /\ next' \in Nat \ {0} /\ next' >= next /\ FreshFrom(zone, next)'
    <3>1. IsZone(zone) /\ FreshFrom(zone, next) /\ next \in Nat \ {0} /\ Dns!Id \subseteq Nat
      BY DEF DnsInv, DnsTypes, Dns!Id
    <3>2. IsZone(zone)'
      BY <2>2, <3>1 DEF IsZone
    <3>3. \A j \in Dns!Id : j >= next + 1 => j # next /\ j >= next
      BY <3>1
    <3>4. FreshFrom(zone, next)'
      BY <2>2, <3>1, <3>3 DEF FreshFrom, IsZone
    <3> QED
      BY <2>2, <3>1, <3>2, <3>4
  <2> QED
    BY <2>1, <2>2 DEF Dns!OutsideEdit
<1>3. DnsTypes'
  <2>1. IsZone(tool.expected)' /\ (snapshot' # None => IsZone(snapshot)')
    BY <1>1 DEF DnsInv, DnsTypes, IsZone
  <2>2. outside' \in Nat
    BY <1>1 DEF DnsInv, DnsTypes
  <2>3. quiet' \in BOOLEAN
    BY <1>1
  <2> QED
    BY <1>1, <1>2, <2>1, <2>2, <2>3 DEF DnsInv, DnsTypes
<1>4. /\ \A z : FreshFrom(z, next) => FreshFrom(z, next')
      /\ \A a, r : ResultOf(a, r) => ResultOf(a, r)'
      /\ \A i \in Dns!Id : i < next => i < next'
  BY <1>1, <1>2, NextGrows
<1>5. ReceiptHolds'
  BY <1>1, <1>4 DEF DnsInv, ReceiptHolds, Ops, ActionAt, Confirmed
<1>6. Stages'
  BY <1>1 DEF DnsInv, Stages
<1>7. ApplyHolds'
  BY <1>1, <1>4 DEF DnsInv, ApplyHolds, Ops, ActionAt, Confirmed
<1>8. UndoHolds'
  BY <1>1, <1>4 DEF DnsInv, UndoHolds, Ops, ActionAt, Confirmed, TakenBack
<1> QED
  BY <1>1, <1>3, <1>5, <1>6, <1>7, <1>8 DEF DnsInv, PlanReviewed

LEMMA InspectKeeps == DnsInv /\ (Dns!InspectBefore \/ Dns!InspectAfter) => DnsInv'
<1> SUFFICES ASSUME DnsInv, Dns!InspectBefore \/ Dns!InspectAfter PROVE DnsInv'
  OBVIOUS
<1>1. /\ UNCHANGED <<zone, next, outside, zonePlan, zoneReceipt, undo>> /\ quiet' = TRUE
      /\ zoneReceipt.state = "none" /\ undo.state = "none"
      /\ tool'.phase \in {"idle", "exporting"} /\ tool'.at = 1 /\ tool'.result = 0
      /\ tool' = [phase |-> tool'.phase, at |-> tool'.at, expected |-> tool'.expected, result |-> tool'.result]
      /\ tool'.expected \in {zone, Zone} /\ snapshot' \in {zone, snapshot, None}
  <2>1. CASE Dns!InspectBefore
    BY <2>1, IdleTool DEF DnsInv, Stages, Dns!InspectBefore, Dns!NoReceipt
  <2>2. CASE Dns!InspectAfter
    BY <2>2, IdleTool DEF DnsInv, Stages, Dns!InspectAfter
  <2> QED
    BY <2>1, <2>2
<1>2. DnsTypes'
  BY <1>1, IdleTool DEF DnsInv, DnsTypes, IsZone, FreshFrom
<1>3. ReceiptHolds' /\ Stages' /\ ApplyHolds' /\ UndoHolds'
  BY <1>1 DEF DnsInv, ReceiptHolds, Stages, ApplyHolds, UndoHolds, Ops
<1> QED
  BY <1>1, <1>2, <1>3 DEF DnsInv, PlanReviewed

-----------------------------------------------------------------------------
\* The m-th number of a set of numbers, and no other.
LEMMA NthOfASet ==
  ASSUME NEW S \in SUBSET Nat, IsFiniteSet(S), NEW m \in 1..Cardinality(S)
  PROVE  Dns!Nth(S, m) \in S /\ Cardinality(Below(S, Dns!Nth(S, m))) = m - 1
<1>1. m - 1 \in 0..(Cardinality(S) - 1)
  BY FS_CardinalityType
<1>2. \E u \in S : Cardinality(Below(S, u)) = m - 1
  BY <1>1, RankIsOnto
<1>3. \E u \in S : Dns!Cardinality({k \in S : k < u}) = m - 1
  BY <1>2 DEF Dns!Cardinality, Cardinality, Below
<1>4. Dns!Nth(S, m) \in S /\ Dns!Cardinality({k \in S : k < Dns!Nth(S, m)}) = m - 1
  BY <1>3, Zenon DEF Dns!Nth
<1> QED
  BY <1>4 DEF Dns!Cardinality, Cardinality, Below

\* What an item of a configuration gives rise to.
LEMMA ActionIsReviewed ==
  ASSUME NEW z, NEW config \in Config, NEW n \in DOMAIN config,
         Dns!Plannable(z, config[n]), Dns!ActionOf(z, config[n]) # None
  PROVE  LET a == Dns!ActionOf(z, config[n])
         IN Reviewed(a, z) /\ (a.operation # "create" => a.id = Dns!Before(z, config[n]))
<1> DEFINE item == config[n]
           i == Dns!Before(z, item)
           a == Dns!ActionOf(z, item)
<1>1. item.adopt \in 0..MaxId /\ item.state \in {"present", "absent"}
  BY OnboardingConstants
<1> HIDE DEF item
<1>2. Dns!Owned(z, item.key) # {} => i \in Dns!Owned(z, item.key)
  BY DEF Dns!Before
<1>3. Dns!Owned(z, item.key) # {} => i \in Dns!Id /\ z[i] # Dns!Gone
  BY <1>2 DEF Dns!Owned
<1>4. Dns!Owned(z, item.key) = {} => i = item.adopt
  BY DEF Dns!Before
<1>5. CASE item.state = "absent"
  <2>1. Dns!Owned(z, item.key) # {} /\ a = [operation |-> "delete", id |-> i, before |-> z[i], after |-> Dns!Gone]
    BY <1>5 DEF Dns!ActionOf, item
  <2> QED
    BY <1>3, <2>1 DEF Reviewed, item
<1>6. CASE item.state = "present" /\ i = 0
  <2>1. a = [operation |-> "create", id |-> 0, before |-> Dns!Gone, after |-> Dns!Wanted(item)]
    BY <1>6 DEF Dns!ActionOf, item
  <2> QED
    BY <2>1 DEF Reviewed, item
<1>7. CASE item.state = "present" /\ i # 0
  <2>1. a = [operation |-> "update", id |-> i, before |-> z[i], after |-> Dns!Wanted(item)]
    BY <1>7 DEF Dns!ActionOf, item
  <2>2. Dns!Owned(z, item.key) = {} => i \in Dns!Id /\ z[i] # Dns!Gone
    BY <1>1, <1>4, <1>7, OnboardingConstants DEF Dns!Plannable, Dns!Id, item
  <2> QED
    BY <1>3, <2>1, <2>2 DEF Reviewed, item
<1> QED
  BY <1>1, <1>5, <1>6, <1>7

LEMMA BuildKeeps ==
  ASSUME DnsInv, NEW config \in Config, Dns!BuildPlan(config) PROVE DnsInv'
<1> DEFINE acting == {n \in DOMAIN config : Dns!ActionOf(snapshot, config[n]) # None}
           size == Cardinality(acting)
           nth == [m \in 1..size |-> Dns!Nth(acting, m)]
           actions == [m \in 1..size |-> Dns!ActionOf(snapshot, config[Dns!Nth(acting, m)])]
<1>1. /\ snapshot # None /\ zonePlan = None
      /\ UNCHANGED <<zone, next, outside, quiet, snapshot, zoneReceipt, tool, undo>>
      /\ \A n \in DOMAIN config :
           /\ Dns!Plannable(snapshot, config[n])
           /\ \A m \in 1..(n - 1) : Dns!Apart(snapshot, config[n], config[m])
  BY DEF Dns!BuildPlan
<1>2. zonePlan' = [records |-> snapshot, actions |-> actions]
  <2>1. Dns!Cardinality(acting) = size
    BY DEF Dns!Cardinality, Cardinality
  <2> QED
    BY <2>1 DEF Dns!BuildPlan
<1>3. Len(config) \in Nat /\ DOMAIN config = 1..Len(config) /\ DOMAIN config \subseteq Nat
  BY OnboardingConstants
<1>4. acting \in SUBSET Nat /\ acting \subseteq DOMAIN config /\ IsFiniteSet(acting) /\ size \in Nat
  <2>1. IsFiniteSet(1..Len(config))
    <3>1. 1 \in Int /\ Len(config) \in Int
      BY <1>3
    <3> QED
      BY <3>1, FS_Interval
  <2>2. acting \subseteq 1..Len(config)
    BY <1>3
  <2>3. IsFiniteSet(acting)
    BY <2>1, <2>2, FS_Subset
  <2> QED
    BY <1>3, <2>3, FS_CardinalityType
<1> HIDE DEF acting
<1>5. \A m \in 1..size : nth[m] \in acting /\ Cardinality(Below(acting, nth[m])) = m - 1
  <2> SUFFICES ASSUME NEW m \in 1..size
               PROVE  Dns!Nth(acting, m) \in acting /\ Cardinality(Below(acting, Dns!Nth(acting, m))) = m - 1
    OBVIOUS
  <2> QED
    BY <1>4, NthOfASet
<1>6. \A m, k \in 1..size : m # k => nth[m] # nth[k]
  BY <1>4, <1>5
<1>7. ASSUME NEW m \in 1..size
      PROVE  /\ actions[m] = Dns!ActionOf(snapshot, config[nth[m]])
             /\ nth[m] \in DOMAIN config /\ Reviewed(actions[m], snapshot)
             /\ actions[m].operation # "create" => actions[m].id = Dns!Before(snapshot, config[nth[m]])
  <2>1. PICK n \in acting : n = Dns!Nth(acting, m)
    BY <1>5
  <2>2. n \in DOMAIN config /\ Dns!ActionOf(snapshot, config[n]) # None
    BY <2>1 DEF acting
  <2>3. Reviewed(Dns!ActionOf(snapshot, config[n]), snapshot)
        /\ (Dns!ActionOf(snapshot, config[n]).operation # "create"
              => Dns!ActionOf(snapshot, config[n]).id = Dns!Before(snapshot, config[n]))
    BY <1>1, <2>2, ActionIsReviewed
  <2> QED
    BY <2>1, <2>2, <2>3
<1>8. ASSUME NEW m \in 1..size, NEW k \in 1..size, m # k,
             actions[m].operation # "create", actions[k].operation # "create"
      PROVE  actions[m].id # actions[k].id
  <2>1. nth[m] \in DOMAIN config /\ nth[k] \in DOMAIN config /\ nth[m] # nth[k]
    BY <1>6, <1>7, <1>8
  <2>2. /\ actions[m].id = Dns!Before(snapshot, config[nth[m]])
        /\ actions[k].id = Dns!Before(snapshot, config[nth[k]])
        /\ actions[m].id \in Dns!Id /\ actions[k].id \in Dns!Id
    BY <1>7, <1>8 DEF Reviewed
  <2>3. \A x, y \in DOMAIN config :
          x < y /\ Dns!Before(snapshot, config[y]) # 0
            => Dns!Before(snapshot, config[y]) # Dns!Before(snapshot, config[x])
    <3> SUFFICES ASSUME NEW x \in DOMAIN config, NEW y \in DOMAIN config, x < y,
                        Dns!Before(snapshot, config[y]) # 0
                 PROVE  Dns!Before(snapshot, config[y]) # Dns!Before(snapshot, config[x])
      OBVIOUS
    <3>1. x \in 1..(y - 1)
      BY <1>3
    <3>2. Dns!Apart(snapshot, config[y], config[x])
      BY <1>1, <3>1
    <3> QED
      BY <3>2 DEF Dns!Apart
  <2>4. nth[m] < nth[k] \/ nth[k] < nth[m]
    BY <1>3, <2>1
  <2>5. 0 \notin Dns!Id
    BY DEF Dns!Id
  <2> HIDE DEF nth, actions
  <2> QED
    BY <2>1, <2>2, <2>3, <2>4, <2>5
<1> HIDE DEF size
<1>9. DOMAIN actions = 1..size /\ Len(actions) = size
  BY <1>4
<1>10. PlanReviewed(zonePlan)'
  <2> HIDE DEF actions
  <2>1. zonePlan'.records = snapshot /\ zonePlan'.actions = actions /\ IsZone(snapshot)
    BY <1>1, <1>2 DEF DnsInv, DnsTypes
  <2>2. PICK p : p = zonePlan'
    OBVIOUS
  <2>3. PlanReviewed(p)
    BY <1>4, <1>7, <1>8, <1>9, <2>1, <2>2 DEF PlanReviewed
  <2>4. p = zonePlan' => (PlanReviewed(p) <=> PlanReviewed(zonePlan)')
    BY DEF PlanReviewed
  <2> QED
    BY <2>2, <2>3, <2>4
<1>11. zoneReceipt.state = "none" /\ undo.state = "none" /\ tool.phase \in {"idle", "exporting"}
  BY <1>1 DEF DnsInv, ReceiptHolds, Stages
<1>12. DnsTypes'
  BY <1>1 DEF DnsInv, DnsTypes, IsZone, FreshFrom
<1>13. ReceiptHolds' /\ Stages' /\ ApplyHolds' /\ UndoHolds'
  BY <1>1, <1>11 DEF DnsInv, ReceiptHolds, Stages, ApplyHolds, UndoHolds, Ops
<1> QED
  BY <1>10, <1>12, <1>13 DEF DnsInv

\* The receipt is opened when nothing has changed since the inspection.
LEMMA ApplyKeeps == DnsInv /\ Dns!ApplyPlan => DnsInv'
<1> SUFFICES ASSUME DnsInv, Dns!ApplyPlan PROVE DnsInv'
  OBVIOUS
<1>1. /\ zonePlan # None /\ zoneReceipt = Dns!NoReceipt /\ tool = Dns!Idle /\ zone = zonePlan.records
      /\ zoneReceipt' = [state |-> "running", operations |-> << >>]
      /\ tool' = [phase |-> "read", at |-> 1, expected |-> zonePlan.records, result |-> 0]
      /\ quiet' = TRUE /\ UNCHANGED <<zone, next, outside, snapshot, zonePlan, undo>>
  BY IdleTool DEF Dns!ApplyPlan, Dns!Receipt, Dns!NoReceipt
<1>2. zoneReceipt.state = "none" /\ undo.state = "none" /\ Len(Ops') = 0 /\ DOMAIN Ops' = 1..0
  BY <1>1 DEF DnsInv, Stages, Dns!NoReceipt, Ops
<1>3. DnsTypes'
  BY <1>1 DEF DnsInv, DnsTypes, IsZone, FreshFrom
<1>4. ReceiptHolds'
  <2>1. FreshFrom(zonePlan.records, next)' /\ Len(zonePlan'.actions) \in Nat
    BY <1>1 DEF DnsInv, DnsTypes, FreshFrom, PlanReviewed
  <2> QED
    BY <1>1, <1>2, <2>1 DEF ReceiptHolds
<1>5. Stages' /\ UndoHolds'
  BY <1>1, <1>2 DEF DnsInv, Stages, UndoHolds
<1>6. ApplyHolds'
  BY <1>1, <1>2 DEF ApplyHolds, ActionAt
<1> QED
  BY <1>1, <1>3, <1>4, <1>5, <1>6 DEF DnsInv, PlanReviewed

-----------------------------------------------------------------------------
\* The next operation is written down, unless the zone is not the one that was read last.
LEMMA ReadKeeps == DnsInv /\ Dns!FreshRead => DnsInv'
<1> SUFFICES ASSUME DnsInv, Dns!FreshRead PROVE DnsInv'
  OBVIOUS
<1>1. /\ undo = Dns!NoReceipt /\ undo.state = "none" /\ tool.phase = "read" /\ zoneReceipt.state # "none"
      /\ zonePlan # None /\ tool.at <= Len(zonePlan.actions)
      /\ UNCHANGED <<zone, next, outside, snapshot, zonePlan, undo>> /\ quiet' = TRUE
  BY DEF Dns!FreshRead, Dns!Apply, Dns!NoReceipt, DnsInv, Stages, ReceiptHolds
<1>2. CASE Dns!Drift
  <2>1. zoneReceipt' = [zoneReceipt EXCEPT !.state = "needs_reconciliation"] /\ tool' = Dns!Idle
    BY <1>2 DEF Dns!FreshRead, Dns!Receipt
  <2> QED
    BY <1>1, <2>1, StopKeeps, Zenon
<1>3. CASE ~Dns!Drift
  <2> DEFINE new == [action |-> ActionAt(tool.at), state |-> "prepared", result |-> 0]
  <2>1. /\ zone = tool.expected
        /\ zoneReceipt' = [zoneReceipt EXCEPT !.operations = Append(@, new)]
        /\ tool' = [tool EXCEPT !.phase = "prepared"]
    BY <1>3 DEF Dns!FreshRead, Dns!Drift, Dns!Prepared, Dns!Act, ActionAt
  <2>2. /\ tool.at >= 1 /\ Len(Ops) = tool.at - 1 /\ tool.at \in Nat
        /\ DOMAIN Ops = 1..Len(Ops)
    BY <1>1 DEF DnsInv, DnsTypes, ApplyHolds, ReceiptHolds
  <2>3. /\ zoneReceipt' = [state |-> zoneReceipt.state, operations |-> Append(Ops, new)]
        /\ tool' = [phase |-> "prepared", at |-> tool.at, expected |-> tool.expected, result |-> tool.result]
    BY <2>1 DEF DnsInv, DnsTypes, Ops
  <2>4. Ops' = Append(Ops, new)
    BY <2>3 DEF Ops
  <2> HIDE DEF new
  <2>5. /\ Len(Ops') = tool.at /\ DOMAIN Ops' = 1..tool.at
        /\ \A n \in 1..tool.at : Ops'[n] = IF n = tool.at THEN new ELSE Ops[n]
        /\ \E all : Ops' \in Seq(all)
    <3>1. PICK some : Ops \in Seq(some)
      BY DEF DnsInv, ReceiptHolds
    <3>2. PICK all : all = some \cup {new}
      OBVIOUS
    <3>3. Ops \in Seq(all) /\ new \in all
      BY <3>1, <3>2
    <3>4. /\ Append(Ops, new) \in Seq(all) /\ Len(Append(Ops, new)) = Len(Ops) + 1
          /\ \A n \in 1..Len(Ops) : Append(Ops, new)[n] = Ops[n]
          /\ Append(Ops, new)[Len(Ops) + 1] = new
      BY <3>3, AppendProperties
    <3>5. \A n \in 1..tool.at : n = tool.at \/ n \in 1..Len(Ops)
      BY <2>2
    <3> QED
      BY <2>2, <2>4, <3>4, <3>5
  <2>6. Ops'[tool.at] = new /\ \A n \in DOMAIN Ops' : n # tool.at => n \in DOMAIN Ops /\ Ops'[n] = Ops[n]
    BY <2>2, <2>5
  <2>7. DnsTypes'
    BY <1>1, <2>3 DEF DnsInv, DnsTypes, IsZone, FreshFrom
  <2>8. ReceiptHolds'
    <3>1. \A n \in DOMAIN Ops' : Ops'[n].state = "confirmed" => n # tool.at
      BY <2>6 DEF new
    <3>2. \A n \in DOMAIN Ops' :
            Ops'[n] = [action |-> ActionAt(n)', state |-> Ops'[n].state, result |-> Ops'[n].result]
      BY <1>1, <2>6 DEF DnsInv, ReceiptHolds, ActionAt, new
    <3>3. FreshFrom(zonePlan.records, next)'
      BY <1>1 DEF DnsInv, ReceiptHolds, FreshFrom
    <3> QED
      BY <1>1, <2>2, <2>3, <2>5, <2>6, <3>1, <3>2, <3>3
      DEF DnsInv, ReceiptHolds, ActionAt, Confirmed, ResultOf
  <2>9. Stages' /\ UndoHolds'
    BY <1>1, <2>3 DEF DnsInv, Stages, UndoHolds
  <2>10. ApplyHolds'
    <3>1. \A n \in DOMAIN Ops' : n < tool.at => Confirmed(n)'
      BY <1>1, <2>2, <2>6 DEF DnsInv, ApplyHolds, Confirmed
    <3>2. \A n \in DOMAIN zonePlan.actions :
            (n > tool.at \/ n = tool.at) /\ ActionAt(n).operation # "create"
              => tool.expected[ActionAt(n).id] = zonePlan.records[ActionAt(n).id]
      BY <1>1 DEF DnsInv, ApplyHolds
    <3> QED
      BY <1>1, <2>1, <2>2, <2>3, <2>5, <3>1, <3>2 DEF ApplyHolds, ActionAt, DnsInv, PlanReviewed
  <2> QED
    BY <1>1, <2>7, <2>8, <2>9, <2>10 DEF DnsInv, PlanReviewed
<1> QED
  BY <1>2, <1>3

-----------------------------------------------------------------------------
\* What one request does to the zone and to what the tool expects of it.
LEMMA Carried ==
  ASSUME DnsInv, NEW a, a.operation \in {"create", "update", "delete"}, Dns!Carry(a),
         a.operation # "create" => a.id \in Dns!Id,
         a.operation = "delete" => a.after = Dns!Gone
  PROVE  LET t == Dns!Target(a)
         IN /\ t \in Dns!Id /\ zone' = [zone EXCEPT ![t] = a.after]
            /\ t = IF a.operation = "create" THEN next ELSE a.id
            /\ t < next' /\ next' \in Nat \ {0} /\ next' >= next
            /\ IsZone(zone)' /\ FreshFrom(zone, next)'
<1> DEFINE t == Dns!Target(a)
<1>1. /\ IsZone(zone) /\ FreshFrom(zone, next) /\ next \in Nat \ {0} /\ Dns!Id = 1..MaxId /\ MaxId \in Nat
  BY OnboardingConstants DEF DnsInv, DnsTypes, Dns!Id
<1>2. CASE a.operation = "create"
  <2>1. next <= MaxId /\ t = next /\ next' = next + 1 /\ zone' = [zone EXCEPT ![t] = a.after]
    BY <1>2 DEF Dns!Carry, Dns!Target
  <2>2. t \in Dns!Id
    BY <1>1, <2>1
  <2>3. \A j \in Dns!Id : j >= next + 1 => j # next /\ j >= next
    BY <1>1
  <2>4. IsZone(zone)'
    BY <1>1, <2>1 DEF IsZone
  <2>5. FreshFrom(zone, next)'
    BY <1>1, <2>1, <2>3 DEF FreshFrom, IsZone
  <2> QED
    BY <1>1, <1>2, <2>1, <2>2, <2>4, <2>5
<1>3. CASE a.operation # "create"
  <2>1. zone[a.id] # Dns!Gone /\ t = a.id /\ next' = next /\ a.id \in Dns!Id
    BY <1>3 DEF Dns!Carry, Dns!Target
  <2>2. zone' = [zone EXCEPT ![t] = a.after]
    BY <1>3, <2>1 DEF Dns!Carry
  <2>3. ~(a.id >= next)
    BY <1>1, <2>1 DEF FreshFrom
  <2>4. IsZone(zone)'
    BY <1>1, <2>2 DEF IsZone
  <2>5. FreshFrom(zone, next)'
    BY <1>1, <2>1, <2>2, <2>3 DEF FreshFrom, IsZone
  <2> QED
    BY <1>1, <1>3, <2>1, <2>2, <2>3, <2>4, <2>5
<1> QED
  BY <1>2, <1>3

\* The request is sent: nobody else's record is touched, and no record twice.
LEMMA MutateKeeps == DnsInv /\ Dns!Mutate => DnsInv'
<1> SUFFICES ASSUME DnsInv, Dns!Mutate PROVE DnsInv'
  OBVIOUS
<1> DEFINE a == ActionAt(tool.at)
           t == Dns!Target(a)
<1>1. /\ undo = Dns!NoReceipt /\ undo.state = "none" /\ tool.phase = "prepared"
      /\ UNCHANGED <<outside, quiet, snapshot, zonePlan, zoneReceipt, undo>>
      /\ Dns!Carry(a)
      /\ tool' = [tool EXCEPT !.phase = "sent", !.result = t, !.expected = [@ EXCEPT ![t] = a.after]]
  BY DEF Dns!Mutate, Dns!Apply, Dns!NoReceipt, Dns!Act, ActionAt
<1>2. /\ zoneReceipt.state # "none" /\ zonePlan # None
      /\ Len(Ops) = tool.at /\ tool.at \in DOMAIN Ops /\ tool.at \in Nat /\ DOMAIN Ops = 1..tool.at
      /\ tool.at \in DOMAIN zonePlan.actions
      /\ FreshFrom(zonePlan.records, next) /\ next \in Nat
      /\ PlanReviewed(zonePlan)
  BY <1>1 DEF DnsInv, Stages, ReceiptHolds, ApplyHolds, DnsTypes, PlanReviewed
<1>3. Reviewed(a, zonePlan.records)
  BY <1>2 DEF PlanReviewed, ActionAt
<1>4. /\ t \in Dns!Id /\ zone' = [zone EXCEPT ![t] = a.after]
      /\ t = IF a.operation = "create" THEN next ELSE a.id
      /\ t < next' /\ next' \in Nat \ {0} /\ next' >= next
      /\ IsZone(zone)' /\ FreshFrom(zone, next)'
  <2> HIDE DEF a
  <2> QED
    BY <1>1, <1>3, Carried DEF Reviewed
<1> HIDE DEF t
<1>5. tool' = [phase |-> "sent", at |-> tool.at, expected |-> [tool.expected EXCEPT ![t] = a.after], result |-> t]
  BY <1>1 DEF DnsInv, DnsTypes
<1>6. /\ \A z : FreshFrom(z, next) => FreshFrom(z, next')
      /\ \A b, r : ResultOf(b, r) => ResultOf(b, r)'
  BY <1>1, <1>4, NextGrows
<1>7. \A i \in Dns!Id : zonePlan.records[i] # Dns!Gone => i < next
  <2>1. \A i \in Dns!Id : ~(i >= next) => i < next
    BY <1>2 DEF Dns!Id
  <2> QED
    BY <1>2, <2>1 DEF FreshFrom
<1>8. IsZone(tool.expected)
  BY DEF DnsInv, DnsTypes
<1>9. DnsTypes'
  <2>1. IsZone(tool.expected)'
    BY <1>5, <1>8 DEF IsZone
  <2>2. t \in Nat
    BY <1>4 DEF Dns!Id
  <2> QED
    BY <1>1, <1>4, <1>5, <2>1, <2>2 DEF DnsInv, DnsTypes, IsZone
<1>10. ReceiptHolds'
  BY <1>1, <1>6 DEF DnsInv, ReceiptHolds, Ops, ActionAt, Confirmed
<1>11. Stages' /\ UndoHolds'
  BY <1>1, <1>2, <1>5 DEF DnsInv, Stages, UndoHolds
<1>12. ResultOf(ActionAt(tool.at), tool.result)'
  <2>1. a.operation = "create" => zonePlan.records[t] = Dns!Gone
    <3>1. next \in Dns!Id => zonePlan.records[next] = Dns!Gone
      BY <1>2 DEF FreshFrom
    <3> QED
      BY <1>4, <3>1
  <2> QED
    BY <1>1, <1>4, <1>5, <2>1 DEF ResultOf, ActionAt
<1>13. \A n \in DOMAIN Ops : n < tool.at => Ops[n].result # t
  <2> SUFFICES ASSUME NEW n \in DOMAIN Ops, n < tool.at PROVE Ops[n].result # t
    OBVIOUS
  <2>1. Confirmed(n) /\ ResultOf(ActionAt(n), Ops[n].result)
    BY <1>1, <1>2 DEF DnsInv, ApplyHolds, ReceiptHolds
  <2>2. n \in DOMAIN zonePlan.actions /\ n # tool.at
    BY <1>2 DEF PlanReviewed
  <2>3. CASE a.operation = "create"
    BY <1>2, <1>4, <2>1, <2>3 DEF ResultOf, Dns!Id
  <2>4. CASE a.operation # "create"
    <3>1. t = a.id /\ zonePlan.records[t] # Dns!Gone
      BY <1>3, <1>4, <2>4 DEF Reviewed
    <3>2. ActionAt(n).operation # "create" => ActionAt(n).id # a.id
      BY <1>2, <2>2, <2>4 DEF PlanReviewed, ActionAt
    <3> QED
      BY <2>1, <3>1, <3>2 DEF ResultOf
  <2> QED
    BY <2>3, <2>4
<1>14. \A n \in DOMAIN zonePlan.actions :
         n > tool.at /\ ActionAt(n).operation # "create"
           => tool'.expected[ActionAt(n).id] = zonePlan.records[ActionAt(n).id]
  <2> SUFFICES ASSUME NEW n \in DOMAIN zonePlan.actions, n > tool.at, ActionAt(n).operation # "create"
               PROVE  tool'.expected[ActionAt(n).id] = zonePlan.records[ActionAt(n).id]
    OBVIOUS
  <2>1. tool.expected[ActionAt(n).id] = zonePlan.records[ActionAt(n).id]
    BY <1>1 DEF DnsInv, ApplyHolds
  <2>2. ActionAt(n).id \in Dns!Id /\ zonePlan.records[ActionAt(n).id] # Dns!Gone
    BY <1>2 DEF PlanReviewed, Reviewed, ActionAt
  <2>3. ActionAt(n).id # t
    <3>1. ActionAt(n).id < next /\ ActionAt(n).id \in Nat
      BY <1>7, <2>2 DEF Dns!Id
    <3>2. n # tool.at
      BY <1>2
    <3>3. a.operation # "create" => ActionAt(n).id # a.id
      BY <1>2, <3>2 DEF PlanReviewed, ActionAt
    <3> QED
      BY <1>2, <1>4, <3>1, <3>3
  <2> QED
    BY <1>5, <1>8, <2>1, <2>2, <2>3 DEF IsZone
<1>15. quiet => zone' = tool'.expected
  BY <1>1, <1>4, <1>5 DEF DnsInv, ApplyHolds
<1>16. ApplyHolds'
  BY <1>1, <1>2, <1>5, <1>12, <1>13, <1>14, <1>15 DEF DnsInv, ApplyHolds, Ops, ActionAt, Confirmed
<1> QED
  BY <1>1, <1>9, <1>10, <1>11, <1>16 DEF DnsInv, PlanReviewed

-----------------------------------------------------------------------------
\* The answer came: the operation is confirmed with the record it was carried out on.
LEMMA ConfirmKeeps == DnsInv /\ Dns!Confirm => DnsInv'
<1> SUFFICES ASSUME DnsInv, Dns!Confirm PROVE DnsInv'
  OBVIOUS
<1> DEFINE at == tool.at
           done == [action |-> ActionAt(at), state |-> "confirmed", result |-> tool.result]
<1>1. /\ undo = Dns!NoReceipt /\ undo.state = "none" /\ tool.phase = "sent"
      /\ UNCHANGED <<zone, next, outside, quiet, snapshot, zonePlan, undo>>
      /\ zoneReceipt' = [zoneReceipt EXCEPT !.operations[tool.at].state = "confirmed",
                                            !.operations[tool.at].result = tool.result]
      /\ tool' = [tool EXCEPT !.phase = "read", !.at = tool.at + 1]
  BY DEF Dns!Confirm, Dns!Apply, Dns!NoReceipt
<1>2. /\ zoneReceipt.state # "none" /\ zonePlan # None
      /\ Len(Ops) = at /\ at \in DOMAIN Ops /\ at \in Nat /\ DOMAIN Ops = 1..at
      /\ FreshFrom(zonePlan.records, next) /\ Len(Ops) <= Len(zonePlan.actions)
  BY <1>1 DEF DnsInv, Stages, ReceiptHolds, ApplyHolds, DnsTypes
<1>3. tool' = [phase |-> "read", at |-> at + 1, expected |-> tool.expected, result |-> tool.result]
  BY <1>1 DEF DnsInv, DnsTypes
<1>4. zoneReceipt' = [state |-> zoneReceipt.state, operations |-> [Ops EXCEPT ![at] = done]]
  <2>1. Ops[at] = [action |-> ActionAt(at), state |-> Ops[at].state, result |-> Ops[at].result]
    BY <1>2 DEF DnsInv, ReceiptHolds
  <2>2. [[Ops[at] EXCEPT !.state = "confirmed"] EXCEPT !.result = tool.result] = done
    <3>1. PICK opened : opened = [Ops[at] EXCEPT !.state = "confirmed"]
      OBVIOUS
    <3>2. opened = [action |-> ActionAt(at), state |-> "confirmed", result |-> Ops[at].result]
      BY <2>1, <3>1
    <3>3. [opened EXCEPT !.result = tool.result] = done
      BY <3>2
    <3> QED
      BY <3>1, <3>3
  <2>3. zoneReceipt = [state |-> zoneReceipt.state, operations |-> zoneReceipt.operations]
    BY DEF DnsInv, DnsTypes
  <2>4. PICK opened : opened = [Ops EXCEPT ![at] = [@ EXCEPT !.state = "confirmed"]]
    OBVIOUS
  <2>5. opened[at] = [Ops[at] EXCEPT !.state = "confirmed"]
    BY <1>2, <2>4
  <2>6. [opened EXCEPT ![at] = [@ EXCEPT !.result = tool.result]] = [Ops EXCEPT ![at] = done]
    BY <1>2, <2>2, <2>4, <2>5
  <2>7. zoneReceipt' = [state |-> zoneReceipt.state,
                        operations |-> [opened EXCEPT ![at] = [@ EXCEPT !.result = tool.result]]]
    BY <1>1, <2>3, <2>4 DEF Ops
  <2> QED
    BY <2>6, <2>7
<1>5. /\ Ops' = [Ops EXCEPT ![at] = done]
      /\ zoneReceipt'.state = zoneReceipt.state
      /\ zoneReceipt' = [state |-> zoneReceipt'.state, operations |-> zoneReceipt'.operations]
  BY <1>4 DEF Ops
<1>6. \E all : Ops' \in Seq(all) /\ Len(Ops') = Len(Ops)
  <2>1. PICK some : Ops \in Seq(some)
    BY DEF DnsInv, ReceiptHolds
  <2>2. PICK all : all = some \cup {done}
    OBVIOUS
  <2>3. Ops \in Seq(all) /\ done \in all
    BY <2>1, <2>2
  <2>4. [Ops EXCEPT ![at] = done] \in Seq(all) /\ Len([Ops EXCEPT ![at] = done]) = Len(Ops)
    BY <1>2, <2>3, ExceptSeq
  <2> QED
    BY <1>5, <2>4
<1>7. /\ DOMAIN Ops' = DOMAIN Ops
      /\ \A n \in DOMAIN Ops : Ops'[n] = IF n = at THEN done ELSE Ops[n]
  BY <1>5
<1> HIDE DEF at
<1>8. DnsTypes'
  <2>1. at + 1 \in Nat
    BY <1>2
  <2> DEFINE following == at + 1
  <2> HIDE DEF following
  <2>2. /\ tool' = [phase |-> "read", at |-> following, expected |-> tool.expected, result |-> tool.result]
        /\ following \in Nat
    BY <1>3, <2>1 DEF following
  <2>3. /\ tool' = [phase |-> tool'.phase, at |-> tool'.at, expected |-> tool'.expected, result |-> tool'.result]
        /\ tool'.phase = "read" /\ tool'.at \in Nat /\ tool'.result = tool.result
        /\ tool'.expected = tool.expected
    BY <2>2
  <2> QED
    BY <1>1, <1>5, <2>3 DEF DnsInv, DnsTypes, IsZone, FreshFrom
<1>9. ReceiptHolds'
  <2>1. \A n \in DOMAIN Ops : Ops[n] = [action |-> ActionAt(n), state |-> Ops[n].state, result |-> Ops[n].result]
    BY <1>2 DEF DnsInv, ReceiptHolds
  <2>2. \A n \in DOMAIN Ops' :
          Ops'[n] = [action |-> ActionAt(n)', state |-> Ops'[n].state, result |-> Ops'[n].result]
    BY <1>1, <1>7, <2>1 DEF ActionAt
  <2>3. \A n \in DOMAIN Ops' : Ops'[n].state = "confirmed" => ResultOf(ActionAt(n), Ops'[n].result)
    <3>1. ResultOf(ActionAt(at), tool.result)
      BY <1>1 DEF DnsInv, ApplyHolds, at
    <3>2. \A n \in DOMAIN Ops : Confirmed(n) => ResultOf(ActionAt(n), Ops[n].result)
      BY <1>2 DEF DnsInv, ReceiptHolds
    <3> QED
      BY <1>7, <3>1, <3>2 DEF Confirmed
  <2>4. \A n, m \in DOMAIN Ops' :
          n # m /\ Ops'[n].state = "confirmed" /\ Ops'[m].state = "confirmed"
            => Ops'[n].result # Ops'[m].result
    <3>1. \A n \in DOMAIN Ops : n < at => Ops[n].result # tool.result
      BY <1>1 DEF DnsInv, ApplyHolds, at
    <3>2. \A n \in DOMAIN Ops : n # at => n < at
      BY <1>2
    <3>3. \A n, m \in DOMAIN Ops : n # m /\ Confirmed(n) /\ Confirmed(m) => Ops[n].result # Ops[m].result
      BY <1>2 DEF DnsInv, ReceiptHolds
    <3> QED
      BY <1>7, <3>1, <3>2, <3>3 DEF Confirmed
  <2>5. FreshFrom(zonePlan.records, next)'
    BY <1>1, <1>2 DEF FreshFrom
  <2>6. \A a, r : ResultOf(a, r) => ResultOf(a, r)'
    BY <1>1 DEF ResultOf
  <2>7. \A n \in DOMAIN Ops' : Confirmed(n)' => ResultOf(ActionAt(n), Ops[n].result)'
    <3>1. \A n : Confirmed(n)' <=> Ops'[n].state = "confirmed"
      BY DEF Confirmed
    <3>2. \A n : ResultOf(ActionAt(n), Ops'[n].result) => ResultOf(ActionAt(n), Ops[n].result)'
      BY <1>1 DEF ResultOf, ActionAt
    <3> QED
      BY <2>3, <3>1, <3>2
  <2> QED
    BY <1>1, <1>2, <1>5, <1>6, <1>7, <2>2, <2>4, <2>5, <2>7 DEF ReceiptHolds, Confirmed
<1>10. Stages' /\ UndoHolds'
  BY <1>1, <1>2, <1>3, <1>5 DEF DnsInv, Stages, UndoHolds
<1>11. ApplyHolds'
  <2>1. \A n \in DOMAIN Ops' : Confirmed(n)'
    <3>1. \A n \in DOMAIN Ops : n # at => Confirmed(n)
      <4>1. \A n \in DOMAIN Ops : n # at => n < at
        BY <1>2
      <4> QED
        BY <1>1, <4>1 DEF DnsInv, ApplyHolds, at
    <3> QED
      BY <1>7, <3>1 DEF Confirmed
  <2>2. \A n \in DOMAIN zonePlan.actions :
          (n > at + 1 \/ n = at + 1) /\ ActionAt(n).operation # "create"
            => tool.expected[ActionAt(n).id] = zonePlan.records[ActionAt(n).id]
    <3>1. \A n \in DOMAIN zonePlan.actions : n > at + 1 \/ n = at + 1 => n > at
      BY <1>2 DEF DnsInv, PlanReviewed
    <3> QED
      BY <1>1, <3>1 DEF DnsInv, ApplyHolds, at
  <2>3. quiet => zone = tool.expected
    BY <1>1 DEF DnsInv, ApplyHolds
  <2>4. at + 1 >= 1 /\ Len(Ops') = at + 1 - 1
    BY <1>2, <1>6
  <2>5. tool'.phase = "read" /\ tool'.at = at + 1 /\ tool'.expected = tool.expected
    BY <1>3
  <2>6. tool'.at >= 1 /\ Len(Ops') = tool'.at - 1 /\ (quiet' => zone' = tool'.expected)
    BY <1>1, <1>2, <2>3, <2>4, <2>5
  <2>7. \A n \in DOMAIN zonePlan'.actions :
          (n > tool'.at \/ n = tool'.at) /\ zonePlan'.actions[n].operation # "create"
            => tool'.expected[zonePlan'.actions[n].id] = zonePlan'.records[zonePlan'.actions[n].id]
    BY <1>1, <2>2, <2>5 DEF ActionAt
  <2> QED
    BY <2>1, <2>4, <2>5, <2>6, <2>7 DEF ApplyHolds, ActionAt
<1> QED
  BY <1>1, <1>8, <1>9, <1>10, <1>11 DEF DnsInv, PlanReviewed

\* Every other way in which the tool ends.
LEMMA EndKeeps ==
  DnsInv /\ (Dns!Unanswered \/ Dns!FinishApply \/ Dns!Crash \/ Dns!UndoUnanswered \/ Dns!FinishUndo)
    => DnsInv'
<1> SUFFICES ASSUME DnsInv,
                    Dns!Unanswered \/ Dns!FinishApply \/ Dns!Crash \/ Dns!UndoUnanswered \/ Dns!FinishUndo
             PROVE  DnsInv'
  OBVIOUS
<1>1. /\ UNCHANGED <<zone, next, outside, snapshot, zonePlan>> /\ tool' = Dns!Idle /\ quiet' \in BOOLEAN
  BY DEF Dns!Unanswered, Dns!FinishApply, Dns!Crash, Dns!UndoUnanswered, Dns!FinishUndo, DnsInv, DnsTypes
<1>2. ASSUME Dns!Unanswered \/ Dns!FinishApply
      PROVE  /\ zoneReceipt.state # "none" /\ undo' = undo
             /\ \E s : s # "none" /\ zoneReceipt' = [zoneReceipt EXCEPT !.state = s]
  <2>1. zoneReceipt.state # "none"
    BY <1>2 DEF Dns!Unanswered, Dns!FinishApply, Dns!Apply, DnsInv, Stages
  <2>2. PICK s \in {"needs_reconciliation", "succeeded"} : zoneReceipt' = [zoneReceipt EXCEPT !.state = s]
    BY <1>2 DEF Dns!Unanswered, Dns!FinishApply, Dns!Receipt
  <2>3. undo' = undo
    BY <1>2 DEF Dns!Unanswered, Dns!FinishApply
  <2> QED
    BY <2>1, <2>2, <2>3
<1>3. ASSUME Dns!UndoUnanswered \/ Dns!FinishUndo
      PROVE  /\ undo.state = "running" /\ zoneReceipt' = zoneReceipt
             /\ \E s : s # "none" /\ undo' = [undo EXCEPT !.state = s]
  <2>1. undo.state = "running" /\ zoneReceipt' = zoneReceipt
    BY <1>3 DEF Dns!UndoUnanswered, Dns!FinishUndo, Dns!Undo
  <2>2. PICK s \in {"needs_reconciliation", "succeeded"} : undo' = [undo EXCEPT !.state = s]
    BY <1>3 DEF Dns!UndoUnanswered, Dns!FinishUndo
  <2> QED
    BY <2>1, <2>2
<1>4. Dns!Crash => zoneReceipt' = zoneReceipt /\ undo' = undo
  BY DEF Dns!Crash
<1> QED
  BY <1>1, <1>2, <1>3, <1>4, StopKeeps

-----------------------------------------------------------------------------
\* A rollback begins when everything the receipt names is as it was left.
LEMMA RollbackKeeps == DnsInv /\ Dns!Rollback => DnsInv'
<1> SUFFICES ASSUME DnsInv, Dns!Rollback PROVE DnsInv'
  OBVIOUS
<1>1. /\ zoneReceipt.operations # << >> /\ tool = Dns!Idle
      /\ undo' = [state |-> "running", operations |-> << >>]
      /\ quiet' = TRUE /\ UNCHANGED <<zone, next, outside, snapshot, zonePlan, zoneReceipt>>
      /\ \A n \in DOMAIN Ops : Confirmed(n)
      /\ \A n \in DOMAIN Ops : Dns!Unchanged(Ops[n])
  BY DEF Dns!Rollback, Dns!AllConfirmed, Dns!Operation, Ops, Confirmed
<1>2. tool' = [phase |-> "read", at |-> Len(Ops), expected |-> zone, result |-> 0]
  BY IdleTool DEF Dns!Rollback, Ops
<1>3. zoneReceipt.state # "none"
  BY <1>1 DEF DnsInv, ReceiptHolds, Dns!NoReceipt
<1>4. Len(Ops) \in Nat /\ DOMAIN Ops = 1..Len(Ops)
  BY DEF DnsInv, ReceiptHolds
<1>5. DnsTypes'
  BY <1>1, <1>2, <1>4 DEF DnsInv, DnsTypes, IsZone, FreshFrom
<1>6. ReceiptHolds'
  BY <1>1 DEF DnsInv, ReceiptHolds, Ops, ActionAt, Confirmed, ResultOf, FreshFrom
<1>7. Stages' /\ ApplyHolds'
  BY <1>1, <1>2, <1>3 DEF DnsInv, Stages, ApplyHolds
<1>8. \A n \in DOMAIN Ops : ActionAt(n).operation # "delete" => zone[Ops[n].result] = ActionAt(n).after
  <2>1. \A n \in DOMAIN Ops : Ops[n].action = ActionAt(n)
    BY <1>3 DEF DnsInv, ReceiptHolds
  <2> QED
    BY <1>1, <2>1 DEF Dns!Unchanged
<1>9. \A n \in DOMAIN Ops : ~(n > Len(Ops))
  BY <1>4
<1>10. UndoHolds'
  BY <1>1, <1>2, <1>4, <1>8, <1>9 DEF UndoHolds, Ops, ActionAt, Confirmed
<1> QED
  BY <1>1, <1>5, <1>6, <1>7, <1>10 DEF DnsInv, PlanReviewed

LEMMA UndoReadKeeps == DnsInv /\ Dns!UndoRead => DnsInv'
<1> SUFFICES ASSUME DnsInv, Dns!UndoRead PROVE DnsInv'
  OBVIOUS
<1>1. /\ undo.state = "running" /\ tool.phase = "read" /\ tool.at > 0
      /\ UNCHANGED <<zone, next, outside, snapshot, zonePlan, zoneReceipt>> /\ quiet' = TRUE
  BY DEF Dns!UndoRead, Dns!Undo
<1>2. CASE Dns!Drift
  <2>1. undo' = [undo EXCEPT !.state = "needs_reconciliation"] /\ tool' = Dns!Idle
    BY <1>2 DEF Dns!UndoRead
  <2> QED
    BY <1>1, <2>1, StopKeeps, Zenon
<1>3. CASE ~Dns!Drift
  <2>1. zone = tool.expected /\ undo' = undo /\ tool' = [tool EXCEPT !.phase = "prepared"]
    BY <1>3 DEF Dns!UndoRead, Dns!Drift
  <2>2. tool' = [phase |-> "prepared", at |-> tool.at, expected |-> tool.expected, result |-> tool.result]
    BY <2>1 DEF DnsInv, DnsTypes
  <2>3. DnsTypes'
    BY <1>1, <2>1, <2>2 DEF DnsInv, DnsTypes, IsZone, FreshFrom
  <2>4. ReceiptHolds'
    BY <1>1 DEF DnsInv, ReceiptHolds, Ops, ActionAt, Confirmed, ResultOf, FreshFrom
  <2>5. Stages' /\ ApplyHolds'
    BY <1>1, <2>1, <2>2 DEF DnsInv, Stages, ApplyHolds
  <2>6. tool.at >= 1
    BY <1>1 DEF DnsInv, DnsTypes
  <2>7. UndoHolds'
    BY <1>1, <2>1, <2>2, <2>6 DEF DnsInv, UndoHolds, Ops, ActionAt, Confirmed, TakenBack
  <2> QED
    BY <1>1, <2>3, <2>4, <2>5, <2>7 DEF DnsInv, PlanReviewed
<1> QED
  BY <1>2, <1>3

-----------------------------------------------------------------------------
\* What is taken back is one record that no other operation speaks of.
LEMMA TakeBackKeeps == DnsInv /\ Dns!UndoMutate => DnsInv'
<1> SUFFICES ASSUME DnsInv, Dns!UndoMutate PROVE DnsInv'
  OBVIOUS
<1> DEFINE at == tool.at
           o == Ops[at]
           b == ActionAt(at)
           a == Dns!Inverse(o)
           t == Dns!Target(a)
           expected == [tool.expected EXCEPT ![t] = a.after]
<1>1. /\ undo.state = "running" /\ tool.phase = "prepared"
      /\ UNCHANGED <<outside, quiet, snapshot, zonePlan, zoneReceipt, undo>>
      /\ Dns!Carry(a)
      /\ tool' = [tool EXCEPT !.phase = "read", !.at = tool.at - 1,
                              !.expected = [@ EXCEPT ![t] = a.after]]
  BY DEF Dns!UndoMutate, Dns!Undo, Dns!Operation, Ops
<1>2. /\ zoneReceipt.state # "none" /\ zonePlan # None
      /\ at \in Nat /\ at >= 1 /\ at <= Len(Ops) /\ Len(Ops) \in Nat /\ DOMAIN Ops = 1..Len(Ops)
      /\ Len(Ops) <= Len(zonePlan.actions) /\ next \in Nat
      /\ \A n \in DOMAIN Ops : Confirmed(n)
      /\ PlanReviewed(zonePlan)
  BY <1>1 DEF DnsInv, Stages, ReceiptHolds, UndoHolds, DnsTypes
<1>3. /\ at \in DOMAIN Ops /\ at \in DOMAIN zonePlan.actions
      /\ Len(zonePlan.actions) \in Nat
  BY <1>2 DEF PlanReviewed
<1>4. Reviewed(b, zonePlan.records) /\ o.action = b /\ ResultOf(b, o.result)
  <2>1. Reviewed(b, zonePlan.records)
    BY <1>2, <1>3 DEF PlanReviewed, ActionAt
  <2>2. o = [action |-> b, state |-> o.state, result |-> o.result]
    BY <1>2, <1>3 DEF DnsInv, ReceiptHolds
  <2>3. ResultOf(b, o.result)
    BY <1>2, <1>3 DEF DnsInv, ReceiptHolds
  <2> QED
    BY <2>1, <2>2, <2>3
<1>5. b.operation \in {"create", "update", "delete"} /\ o.result \in Dns!Id /\ o.result < next
  BY <1>4 DEF Reviewed, ResultOf
<1>6. /\ b.operation = "create" => /\ a.operation = "delete" /\ a.id = o.result /\ a.after = Dns!Gone
      /\ b.operation = "update" => /\ a.operation = "update" /\ a.id = o.result /\ a.after = b.before
      /\ b.operation = "delete" => a.operation = "create" /\ a.after = b.before
  <2> HIDE DEF o, b
  <2> QED
    BY <1>4 DEF Dns!Inverse
<1> HIDE DEF o, b, a
<1>7. /\ t \in Dns!Id /\ zone' = [zone EXCEPT ![t] = a.after]
      /\ t = IF b.operation = "delete" THEN next ELSE o.result
      /\ t < next' /\ next' \in Nat \ {0} /\ next' >= next
      /\ IsZone(zone)' /\ FreshFrom(zone, next)'
  BY <1>1, <1>5, <1>6, Carried
<1>8. tool' = [phase |-> "read", at |-> at - 1, expected |-> expected, result |-> tool.result]
  BY <1>1 DEF DnsInv, DnsTypes
<1> HIDE DEF t, at
<1>9. /\ \A z : FreshFrom(z, next) => FreshFrom(z, next')
      /\ \A c, r : ResultOf(c, r) => ResultOf(c, r)'
      /\ \A i \in Dns!Id : i < next => i < next'
  BY <1>1, <1>7, NextGrows
<1>10. IsZone(tool.expected) /\ tool.result \in Nat
  BY DEF DnsInv, DnsTypes
<1>11. /\ expected[t] = a.after
       /\ \A i \in Dns!Id : i # t => expected[i] = tool.expected[i]
  BY <1>7, <1>10 DEF IsZone
<1>12. IsZone(expected)
  BY <1>7, <1>10 DEF IsZone
<1> HIDE DEF expected
<1>13. /\ tool' = [phase |-> tool'.phase, at |-> tool'.at, expected |-> tool'.expected, result |-> tool'.result]
       /\ tool'.phase = "read" /\ tool'.at = at - 1 /\ tool'.at \in Nat /\ tool'.result = tool.result
       /\ tool'.expected = expected
  <2>1. at - 1 \in Nat
    BY <1>2
  <2> QED
    BY <1>8, <2>1
<1>14. DnsTypes'
  BY <1>1, <1>7, <1>10, <1>12, <1>13 DEF DnsInv, DnsTypes, IsZone
<1>15. ReceiptHolds'
  BY <1>1, <1>9 DEF DnsInv, ReceiptHolds, Ops, ActionAt, Confirmed
<1>16. Stages' /\ ApplyHolds'
  BY <1>1, <1>2, <1>13 DEF DnsInv, Stages, ApplyHolds
<1>17. quiet => zone' = expected
  BY <1>1, <1>7 DEF DnsInv, UndoHolds, expected
\* The record of another operation is not the one that is written.
<1>18. ASSUME NEW n \in DOMAIN Ops, n # at PROVE Ops[n].result # t /\ Ops[n].result \in Dns!Id
  <2>1. ResultOf(ActionAt(n), Ops[n].result)
    BY <1>2 DEF DnsInv, ReceiptHolds
  <2>2. Ops[n].result \in Dns!Id /\ Ops[n].result < next /\ Ops[n].result \in Nat
    BY <2>1 DEF ResultOf, Dns!Id
  <2>3. Ops[n].result # o.result
    BY <1>2, <1>3, <1>18 DEF DnsInv, ReceiptHolds, o
  <2> QED
    BY <1>2, <1>7, <2>2, <2>3
<1>19. ASSUME NEW n \in DOMAIN Ops, n <= at - 1, ActionAt(n).operation # "delete"
       PROVE  expected[Ops[n].result] = ActionAt(n).after
  <2>1. n # at /\ n <= at
    BY <1>2, <1>19
  <2>2. tool.expected[Ops[n].result] = ActionAt(n).after
    BY <1>1, <1>19, <2>1 DEF DnsInv, UndoHolds, at
  <2> QED
    BY <1>11, <1>18, <2>1, <2>2
<1> DEFINE Back(n) ==
      /\ ActionAt(n).operation = "create" => expected[Ops[n].result] = Dns!Gone
      /\ ActionAt(n).operation = "update" => expected[Ops[n].result] = ActionAt(n).before
      /\ ActionAt(n).operation = "delete" =>
           \E i \in Dns!Id : /\ i < next' /\ expected[i] = ActionAt(n).before
                             /\ \A m \in DOMAIN Ops : Ops[m].result # i
<1>20. Back(at)
  <2>1. \A m \in DOMAIN Ops : Ops[m].result < next /\ Ops[m].result \in Nat
    BY <1>2 DEF DnsInv, ReceiptHolds, ResultOf, Dns!Id
  <2>2. CASE b.operation = "delete"
    <3>1. t = next /\ expected[t] = b.before
      BY <1>6, <1>7, <1>11, <2>2
    <3>2. \A m \in DOMAIN Ops : Ops[m].result # t
      BY <1>2, <2>1, <3>1
    <3> QED
      BY <1>7, <2>2, <3>1, <3>2 DEF b
  <2>3. CASE b.operation # "delete"
    <3>1. t = o.result /\ expected[o.result] = a.after
      BY <1>7, <1>11, <2>3
    <3> QED
      BY <1>6, <2>3, <3>1 DEF b, o
  <2> QED
    BY <2>2, <2>3
<1>21. ASSUME NEW n \in DOMAIN Ops, n > at PROVE Back(n)
  <2>1. TakenBack(n) /\ n # at
    BY <1>1, <1>2, <1>21 DEF DnsInv, UndoHolds, at
  <2>2. Ops[n].result # t /\ Ops[n].result \in Dns!Id
    BY <1>18, <2>1
  <2>3. expected[Ops[n].result] = tool.expected[Ops[n].result]
    BY <1>11, <2>2
  <2>4. ASSUME ActionAt(n).operation = "delete"
        PROVE  \E i \in Dns!Id : /\ i < next' /\ expected[i] = ActionAt(n).before
                                 /\ \A m \in DOMAIN Ops : Ops[m].result # i
    <3>1. PICK i \in Dns!Id : /\ i < next /\ tool.expected[i] = ActionAt(n).before
                              /\ \A m \in DOMAIN Ops : Ops[m].result # i
      BY <2>1, <2>4 DEF TakenBack
    <3>2. i # next
      BY <1>2, <3>1 DEF Dns!Id
    <3>3. i # t
      BY <1>3, <1>7, <3>1, <3>2 DEF o
    <3> QED
      BY <1>9, <1>11, <3>1, <3>3
  <2> QED
    BY <2>1, <2>3, <2>4 DEF TakenBack
<1>22. \A n \in DOMAIN Ops : n > at - 1 => Back(n)
  <2>1. \A n \in DOMAIN Ops : n > at - 1 => n = at \/ n > at
    BY <1>2
  <2> QED
    BY <1>20, <1>21, <2>1
<1>23. UndoHolds'
  <2>1. Ops' = Ops /\ zonePlan' = zonePlan /\ undo' = undo /\ quiet' = quiet
    BY <1>1 DEF Ops
  <2>2. tool'.at <= Len(Ops)
    BY <1>2, <1>13
  <2>3. \A n \in DOMAIN Ops : n > tool'.at => TakenBack(n)'
    <3> SUFFICES ASSUME NEW n \in DOMAIN Ops, n > tool'.at PROVE TakenBack(n)'
      OBVIOUS
    <3>1. Back(n)
      BY <1>13, <1>22
    <3> QED
      BY <1>13, <2>1, <3>1 DEF TakenBack, ActionAt
  <2>4. \A n \in DOMAIN Ops : Confirmed(n)'
    BY <1>2, <2>1 DEF Confirmed
  <2>5. \A n \in DOMAIN Ops : n <= tool'.at /\ ActionAt(n)'.operation # "delete"
          => tool'.expected[Ops[n].result] = ActionAt(n)'.after
    BY <1>13, <1>19, <2>1 DEF ActionAt
  <2> QED
    BY <1>13, <1>17, <2>1, <2>2, <2>3, <2>4, <2>5 DEF UndoHolds
<1> QED
  BY <1>1, <1>14, <1>15, <1>16, <1>23 DEF DnsInv, PlanReviewed

-----------------------------------------------------------------------------
LEMMA DnsStep == DnsInv /\ [Dns!Next]_(Dns!vars) => DnsInv'
<1> SUFFICES ASSUME DnsInv, [Dns!Next]_(Dns!vars) PROVE DnsInv'
  OBVIOUS
<1>1. CASE UNCHANGED Dns!vars
  <2>1. UNCHANGED <<zone, next, outside, quiet, snapshot, zonePlan, zoneReceipt, tool, undo>>
    BY <1>1 DEF Dns!vars
  <2>2. DnsTypes' /\ ReceiptHolds' /\ Stages'
    BY <2>1, ZenonT(40) DEF DnsInv, DnsTypes, ReceiptHolds, Stages, IsZone, FreshFrom, Ops, ActionAt, Confirmed, ResultOf
  <2>3. ApplyHolds'
    BY <2>1 DEF DnsInv, ApplyHolds, Ops, ActionAt, Confirmed, ResultOf
  <2>4. UndoHolds'
    BY <2>1 DEF DnsInv, UndoHolds, Ops, ActionAt, Confirmed, TakenBack
  <2> QED
    BY <2>1, <2>2, <2>3, <2>4 DEF DnsInv, PlanReviewed
<1>2. CASE \E config \in Config : Dns!BuildPlan(config)
  BY <1>2, BuildKeeps
<1> QED
  BY <1>1, <1>2, OutsideKeeps, InspectKeeps, ApplyKeeps, ReadKeeps, MutateKeeps, ConfirmKeeps,
     EndKeeps, RollbackKeeps, UndoReadKeeps, TakeBackKeeps DEF Dns!Next

-----------------------------------------------------------------------------
\* Only a request changes the zone without somebody else's edit.
LEMMA OnlyRequests ==
  ASSUME DnsInv, [Dns!Next]_(Dns!vars), zone' # zone, outside' = outside
  PROVE  Dns!Mutate \/ Dns!UndoMutate
<1>1. outside + 1 # outside
  BY DEF DnsInv, DnsTypes
<1>2. ~ UNCHANGED Dns!vars
  BY DEF Dns!vars
<1>3. ~ Dns!OutsideEdit
  BY <1>1 DEF Dns!OutsideEdit
<1> QED
  BY <1>2, <1>3
  DEF Dns!Next, Dns!InspectBefore, Dns!InspectAfter, Dns!BuildPlan, Dns!ApplyPlan, Dns!FreshRead,
      Dns!Confirm, Dns!Unanswered, Dns!FinishApply, Dns!Crash, Dns!Rollback, Dns!UndoRead,
      Dns!UndoUnanswered, Dns!FinishUndo

\* The request of an operation: what it is, where it goes, and that it is on the receipt.
LEMMA RequestIsPlanned ==
  ASSUME DnsInv, Dns!Mutate
  PROVE  LET a == ActionAt(tool.at)
             t == Dns!Target(a)
         IN /\ tool.at \in DOMAIN zonePlan.actions /\ Reviewed(a, zonePlan.records)
            /\ undo.state = "none" /\ Len(Ops) = tool.at /\ tool.at \in DOMAIN Ops
            /\ Ops[tool.at].action = a
            /\ t \in Dns!Id /\ zone' = [zone EXCEPT ![t] = a.after]
            /\ IF a.operation = "create"
               THEN zone[t] = Dns!Gone /\ zonePlan.records[t] = Dns!Gone
               ELSE t = a.id
            /\ quiet /\ a.operation # "create" => zone[t] = zonePlan.records[t]
<1> DEFINE a == ActionAt(tool.at)
           t == Dns!Target(a)
<1>1. /\ undo = Dns!NoReceipt /\ undo.state = "none" /\ tool.phase = "prepared" /\ Dns!Carry(a)
  BY DEF Dns!Mutate, Dns!Apply, Dns!NoReceipt, Dns!Act, ActionAt
<1>2. /\ zoneReceipt.state # "none"
      /\ Len(Ops) = tool.at /\ tool.at \in DOMAIN Ops
      /\ tool.at \in DOMAIN zonePlan.actions /\ PlanReviewed(zonePlan)
      /\ FreshFrom(zonePlan.records, next) /\ FreshFrom(zone, next) /\ next \in Nat
  BY <1>1 DEF DnsInv, Stages, ReceiptHolds, ApplyHolds, DnsTypes, PlanReviewed
<1>3. Reviewed(a, zonePlan.records)
  BY <1>2 DEF PlanReviewed, ActionAt
<1>4. Ops[tool.at].action = a
  <2>1. Ops[tool.at] = [action |-> a, state |-> Ops[tool.at].state, result |-> Ops[tool.at].result]
    BY <1>2 DEF DnsInv, ReceiptHolds
  <2> QED
    BY <2>1
<1>5. quiet => zone = tool.expected
  BY <1>1 DEF DnsInv, ApplyHolds
<1>6. a.operation # "create" => tool.expected[a.id] = zonePlan.records[a.id]
  BY <1>1, <1>2 DEF DnsInv, ApplyHolds
<1> HIDE DEF a
<1>7. /\ t \in Dns!Id /\ zone' = [zone EXCEPT ![t] = a.after]
      /\ t = IF a.operation = "create" THEN next ELSE a.id
  BY <1>1, <1>3, Carried DEF Reviewed
<1> HIDE DEF t
<1>8. a.operation = "create" => zone[t] = Dns!Gone /\ zonePlan.records[t] = Dns!Gone
  BY <1>2, <1>7 DEF FreshFrom
<1>9. /\ IF a.operation = "create"
         THEN zone[t] = Dns!Gone /\ zonePlan.records[t] = Dns!Gone
         ELSE t = a.id
      /\ quiet /\ a.operation # "create" => zone[t] = zonePlan.records[t]
  BY <1>5, <1>6, <1>7, <1>8
<1> QED
  BY <1>1, <1>2, <1>3, <1>4, <1>7, <1>9 DEF a, t

\* What is taken back is as the tool left it, or a record that does not exist yet.
LEMMA UndoIsOwn ==
  ASSUME DnsInv, Dns!UndoMutate
  PROVE  /\ undo.state = "running"
         /\ \A i \in Dns!Id : zone'[i] # zone[i] /\ quiet =>
              zone[i] = Dns!Gone \/ \E n \in DOMAIN Ops : Ops[n].result = i /\ zone[i] = Ops[n].action.after
<1> DEFINE o == Ops[tool.at]
           b == ActionAt(tool.at)
           a == Dns!Inverse(o)
           t == Dns!Target(a)
<1>1. /\ undo.state = "running" /\ tool.phase = "prepared" /\ Dns!Carry(a)
  BY DEF Dns!UndoMutate, Dns!Undo, Dns!Operation, Ops
<1>2. /\ zoneReceipt.state # "none" /\ tool.at \in DOMAIN Ops /\ Confirmed(tool.at)
      /\ tool.at \in DOMAIN zonePlan.actions /\ PlanReviewed(zonePlan)
      /\ FreshFrom(zone, next) /\ IsZone(zone) /\ next \in Nat /\ tool.at \in Nat
  BY <1>1 DEF DnsInv, Stages, ReceiptHolds, UndoHolds, DnsTypes, PlanReviewed
<1>3. Reviewed(b, zonePlan.records) /\ o.action = b /\ ResultOf(b, o.result)
  <2>1. Reviewed(b, zonePlan.records)
    BY <1>2 DEF PlanReviewed, ActionAt
  <2>2. o = [action |-> b, state |-> o.state, result |-> o.result]
    BY <1>2 DEF DnsInv, ReceiptHolds
  <2>3. ResultOf(b, o.result)
    BY <1>2 DEF DnsInv, ReceiptHolds
  <2> QED
    BY <2>1, <2>2, <2>3
<1>4. b.operation \in {"create", "update", "delete"} /\ o.result \in Dns!Id
  BY <1>3 DEF Reviewed, ResultOf
<1>5. quiet /\ b.operation # "delete" => zone[o.result] = b.after
  <2>1. tool.at <= tool.at
    BY <1>2
  <2> QED
    BY <1>1, <1>2, <2>1 DEF DnsInv, UndoHolds
<1> HIDE DEF o, b
<1>6. /\ b.operation = "create" => /\ a.operation = "delete" /\ a.id = o.result /\ a.after = Dns!Gone
      /\ b.operation = "update" => /\ a.operation = "update" /\ a.id = o.result
      /\ b.operation = "delete" => a.operation = "create"
  BY <1>3 DEF Dns!Inverse
<1> HIDE DEF a
<1>7. /\ t \in Dns!Id /\ zone' = [zone EXCEPT ![t] = a.after]
      /\ t = IF b.operation = "delete" THEN next ELSE o.result
  BY <1>1, <1>4, <1>6, Carried
<1> HIDE DEF t
<1>8. \A i \in Dns!Id : zone'[i] # zone[i] => i = t
  BY <1>2, <1>7 DEF IsZone
<1>9. b.operation = "delete" => zone[t] = Dns!Gone
  BY <1>2, <1>7 DEF FreshFrom
<1>10. quiet /\ b.operation # "delete" => Ops[tool.at].result = t /\ zone[t] = Ops[tool.at].action.after
  BY <1>3, <1>5, <1>7 DEF o
<1> QED
  BY <1>1, <1>2, <1>8, <1>9, <1>10

LEMMA DnsAlways == Dns!Spec => []DnsInv
BY DnsInit, DnsStep, PTL DEF Dns!Spec

-----------------------------------------------------------------------------
LEMMA RequestsAreRecorded ==
  ASSUME DnsInv, [Dns!Next]_(Dns!vars), zone' # zone, outside' = outside, undo = Dns!NoReceipt
  PROVE  /\ zoneReceipt.operations # << >>
         /\ LET a == zoneReceipt.operations[Len(zoneReceipt.operations)].action
            IN \A i \in Dns!Id : zone'[i] # zone[i] =>
                 (zone[i] = Dns!Gone /\ zone'[i] = a.after) \/ i = a.id
<1> DEFINE a == ActionAt(tool.at)
           t == Dns!Target(a)
<1>1. Dns!Mutate
  BY OnlyRequests, UndoIsOwn DEF Dns!NoReceipt
<1>2. /\ Len(Ops) = tool.at /\ tool.at \in DOMAIN Ops /\ Ops[tool.at].action = a
      /\ t \in Dns!Id /\ zone' = [zone EXCEPT ![t] = a.after]
      /\ IF a.operation = "create" THEN zone[t] = Dns!Gone ELSE t = a.id
  BY <1>1, RequestIsPlanned
<1> HIDE DEF a, t
<1>3. zoneReceipt.operations # << >>
  BY <1>2 DEF Ops
<1>4. IsZone(zone)
  BY DEF DnsInv, DnsTypes
<1>5. \A i \in Dns!Id : zone'[i] # zone[i] => i = t /\ zone'[i] = a.after
  BY <1>2, <1>4 DEF IsZone
<1> QED
  BY <1>2, <1>3, <1>5 DEF Ops

LEMMA RequestsAreReviewed ==
  ASSUME DnsInv, [Dns!Next]_(Dns!vars), outside' = outside, quiet, NEW i \in Dns!Id, zone'[i] # zone[i]
  PROVE  IF undo = Dns!NoReceipt
         THEN zone[i] = zonePlan.records[i]
         ELSE zone[i] = Dns!Gone \/ \E n \in DOMAIN zoneReceipt.operations :
                Dns!Operation(n).result = i /\ zone[i] = Dns!Operation(n).action.after
<1>1. Dns!Mutate \/ Dns!UndoMutate
  <2>1. zone' # zone
    OBVIOUS
  <2> QED
    BY <2>1, OnlyRequests
<1>2. CASE Dns!Mutate
  <2> DEFINE a == ActionAt(tool.at)
             t == Dns!Target(a)
  <2>1. /\ undo.state = "none" /\ t \in Dns!Id /\ zone' = [zone EXCEPT ![t] = a.after]
        /\ IF a.operation = "create"
           THEN zone[t] = Dns!Gone /\ zonePlan.records[t] = Dns!Gone
           ELSE t = a.id
        /\ a.operation # "create" => zone[t] = zonePlan.records[t]
    BY <1>2, RequestIsPlanned
  <2> HIDE DEF a, t
  <2>2. undo = Dns!NoReceipt
    BY <2>1 DEF DnsInv, Stages
  <2>3. i = t
    BY <2>1 DEF DnsInv, DnsTypes, IsZone
  <2> QED
    BY <2>1, <2>2, <2>3
<1>3. CASE Dns!UndoMutate
  <2>1. undo # Dns!NoReceipt
    BY <1>3, UndoIsOwn DEF Dns!NoReceipt
  <2>2. zone[i] = Dns!Gone \/ \E n \in DOMAIN Ops : Ops[n].result = i /\ zone[i] = Ops[n].action.after
    BY <1>3, UndoIsOwn
  <2> QED
    BY <2>1, <2>2 DEF Ops, Dns!Operation
<1> QED
  BY <1>1, <1>2, <1>3

LEMMA RollbackIsComplete ==
  ASSUME DnsInv, [Dns!Next]_(Dns!vars), undo.state # "succeeded", undo'.state = "succeeded",
         NEW n \in DOMAIN zonePlan.actions, n \in DOMAIN zoneReceipt.operations
  PROVE  LET a == zonePlan.actions[n]
         IN CASE a.operation = "update" -> zone[a.id] = a.before
              [] a.operation = "delete" -> \E i \in Dns!Id : zone[i] = a.before
              [] a.operation = "create" -> zone[Dns!Operation(n).result] = Dns!Gone
<1>1. Dns!FinishUndo /\ ~Dns!Drift
  <2>1. ~ UNCHANGED Dns!vars
    BY DEF Dns!vars
  <2>2. Dns!FinishUndo
    <3>1. ~ UNCHANGED undo
      OBVIOUS
    <3>2. \A s : [undo EXCEPT !.state = s].state = s
      BY DEF DnsInv, DnsTypes
    <3>3. ~ Dns!Rollback
      BY DEF Dns!Rollback
    <3>4. ~ Dns!UndoRead /\ ~ Dns!UndoUnanswered
      BY <3>1, <3>2 DEF Dns!UndoRead, Dns!UndoUnanswered
    <3> QED
      BY <2>1, <3>1, <3>3, <3>4
      DEF Dns!Next, Dns!OutsideEdit, Dns!InspectBefore, Dns!InspectAfter, Dns!BuildPlan, Dns!ApplyPlan,
          Dns!FreshRead, Dns!Mutate, Dns!Confirm, Dns!Unanswered, Dns!FinishApply, Dns!Crash, Dns!UndoMutate
  <2>3. undo' = [undo EXCEPT !.state = IF Dns!Drift THEN "needs_reconciliation" ELSE "succeeded"]
    BY <2>2 DEF Dns!FinishUndo
  <2>4. undo'.state = IF Dns!Drift THEN "needs_reconciliation" ELSE "succeeded"
    BY <2>3 DEF DnsInv, DnsTypes
  <2> QED
    BY <2>2, <2>4
<1>2. zone = tool.expected /\ undo.state = "running" /\ tool.phase = "read" /\ tool.at = 0
  BY <1>1 DEF Dns!FinishUndo, Dns!Undo, Dns!Drift
<1>3. /\ n \in DOMAIN Ops /\ n > tool.at /\ zoneReceipt.state # "none" /\ PlanReviewed(zonePlan)
  BY <1>2 DEF DnsInv, Stages, ReceiptHolds, Ops
<1>4. TakenBack(n) /\ Confirmed(n)
  BY <1>2, <1>3 DEF DnsInv, UndoHolds
<1>5. ResultOf(ActionAt(n), Ops[n].result) /\ Reviewed(ActionAt(n), zonePlan.records)
  BY <1>3, <1>4 DEF DnsInv, ReceiptHolds, PlanReviewed, ActionAt
<1> DEFINE a == ActionAt(n)
<1>6. /\ a.operation = "update" => zone[a.id] = a.before
      /\ a.operation = "delete" => \E i \in Dns!Id : zone[i] = a.before
      /\ a.operation = "create" => zone[Ops[n].result] = Dns!Gone
  BY <1>2, <1>4, <1>5 DEF TakenBack, ResultOf
<1>7. a.operation \in {"create", "update", "delete"} /\ a = zonePlan.actions[n]
      /\ Ops[n] = Dns!Operation(n)
  BY <1>5 DEF Reviewed, ActionAt, Ops, Dns!Operation
<1> HIDE DEF a
<1> QED
  BY <1>6, <1>7

\* The onboarding acts on what was reviewed: whatever it does to the zone, the operation is on
\* the receipt on disk before the request is sent, and a record is replaced or removed only in
\* the state that was inspected (or, in a rollback, left behind), unless somebody edited it
\* after the last read (cloudflare_onboard.py apply_plan and rollback_plan).
THEOREM ZoneActsAsReviewed == Dns!Spec => ActsAsReviewed
<1>1. DnsInv /\ [Dns!Next]_(Dns!vars) =>
        [zone' # zone /\ outside' = outside /\ undo = Dns!NoReceipt
           => /\ zoneReceipt.operations # << >>
              /\ LET a == zoneReceipt.operations[Len(zoneReceipt.operations)].action
                 IN \A i \in Dns!Id : zone'[i] # zone[i] =>
                      (zone[i] = Dns!Gone /\ zone'[i] = a.after) \/ i = a.id]_(Dns!vars)
  BY RequestsAreRecorded
<1>2. DnsInv /\ [Dns!Next]_(Dns!vars) =>
        [outside' = outside /\ quiet =>
           \A i \in Dns!Id : zone'[i] # zone[i] =>
             IF undo = Dns!NoReceipt
             THEN zone[i] = zonePlan.records[i]
             ELSE zone[i] = Dns!Gone \/ \E n \in DOMAIN zoneReceipt.operations :
                    Dns!Operation(n).result = i /\ zone[i] = Dns!Operation(n).action.after]_(Dns!vars)
  BY RequestsAreReviewed
<1>3. Dns!Spec => Dns!NothingUnrecorded
  BY <1>1, DnsAlways, PTL DEF Dns!Spec, Dns!NothingUnrecorded
<1>4. Dns!Spec => Dns!DriftStops
  BY <1>2, DnsAlways, PTL DEF Dns!Spec, Dns!DriftStops
<1> QED
  BY <1>3, <1>4 DEF ActsAsReviewed, Dns!ActsAsReviewed

\* A rollback that reports success has put every record the plan changed back as it was
\* inspected, and nothing that the plan created is left (cloudflare_onboard.py rollback_plan).
THEOREM ZoneRollbackRestores == Dns!Spec => RollbackRestores
<1>1. DnsInv /\ [Dns!Next]_(Dns!vars) =>
        [undo.state # "succeeded" /\ undo'.state = "succeeded" =>
           \A n \in DOMAIN zonePlan.actions :
             LET a == zonePlan.actions[n]
             IN (n \in DOMAIN zoneReceipt.operations) =>
                  CASE a.operation = "update" -> zone[a.id] = a.before
                    [] a.operation = "delete" -> \E i \in Dns!Id : zone[i] = a.before
                    [] a.operation = "create" -> zone[Dns!Operation(n).result] = Dns!Gone]_(Dns!vars)
  BY RollbackIsComplete
<1> QED
  BY <1>1, DnsAlways, PTL DEF Dns!Spec, RollbackRestores, Dns!RollbackRestores
===============================================================================
