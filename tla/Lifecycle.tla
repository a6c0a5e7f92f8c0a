------------------------------- MODULE Lifecycle -------------------------------
(***************************************************************************)
(* The end of an organization: request, reviewed offboarding, approved     *)
(* retention, and the erasure an operator runs from a reviewed plan        *)
(* (lifecycle.py, lifecycle_routes.py, scripts/tenant_data.py), beside the *)
(* workers that are still busy with the organization's jobs (worker.py).   *)
(*                                                                         *)
(* Requests, workers and the first transaction of the erasure hold the     *)
(* organization's lock.  Users belong to several organizations and have    *)
(* row locks of their own; files are written and removed under no lock.    *)
(***************************************************************************)
EXTENDS Naturals

CONSTANTS
  Tenant, User, Report, Mail,
  OwnerOf,                  \* the organization of each report and mail job
  Members, Leaving, Stored, \* initial memberships, organizations approved for
                            \* erasure, and the files of each organization
  Invitation,               \* memberships that may still be added
  MaxClaims, MaxCrashes,    \* bounds: claims of a job, stops of an erasure
  None

Job == Report \cup Mail
File == (Report \X (1..MaxClaims)) \cup UNION {Stored[t] : t \in Tenant}

ASSUME LifecycleConstants ==
  /\ Report \cap Mail = {} /\ OwnerOf \in [Job -> Tenant]
  /\ Members \subseteq User \X Tenant /\ Invitation \subseteq User \X Tenant
  /\ Stored \in [Tenant -> SUBSET File]
  /\ \A t \in Tenant, j \in Report, c \in 1..MaxClaims : <<j, c>> \notin Stored[t]
  /\ None \notin Tenant /\ MaxClaims \in Nat

VARIABLES status, request, preview, job, message, writing, written, object, member,
          inviting, anonymous, userLock, plan, eraser, receipt, crashes
work == <<job, message, writing, written>>
people == <<member, inviting, anonymous, userLock>>
erasure == <<plan, eraser, receipt, crashes>>
vars == <<status, request, preview, work, object, people, erasure>>

Of(t) == {j \in Job : OwnerOf[j] = t}
MembersOf(t) == {u \in User : <<u, t>> \in member}
NoJob == [status |-> "none", claim |-> 0]
Off == [phase |-> "off", plan |-> None, todo |-> {}, forget |-> {}, left |-> {}]
NoReceipt == [status |-> "none", plan |-> [objects |-> {}, rows |-> None]]

\* No other transaction holds the organization's lock.
Unlocked(t) == eraser[t].phase # "locking" /\ \A u \in User : <<u, t>> \notin inviting

-----------------------------------------------------------------------------
\* The workers.  A claim that is lost may still write its file.

Submit(j) ==
  /\ Unlocked(OwnerOf[j]) /\ status[OwnerOf[j]] = "active" /\ job[j] = NoJob
  /\ job' = [job EXCEPT ![j].status = "queued"]
  /\ message' = IF j \in Mail THEN [message EXCEPT ![j] = "planned"] ELSE message
  /\ UNCHANGED <<status, request, preview, writing, written, object, people, erasure>>

Claim(j) ==
  /\ Unlocked(OwnerOf[j]) /\ status[OwnerOf[j]] = "active"
  /\ job[j].status = "queued" /\ job[j].claim < MaxClaims
  /\ job' = [job EXCEPT ![j] = [status |-> "running", claim |-> job[j].claim + 1]]
  /\ writing' = IF j \in Report THEN writing \cup {<<j, job[j].claim + 1>>} ELSE writing
  /\ UNCHANGED <<status, request, preview, message, written, object, people, erasure>>

GenerateBundle(w) ==
  /\ w \in writing
  /\ object' = [object EXCEPT ![OwnerOf[w[1]]] = @ \cup {w}]
  /\ writing' = writing \ {w} /\ written' = written \cup {w}
  /\ UNCHANGED <<status, request, preview, job, message, people, erasure>>

\* The claim is looked at again; one that was lost changes nothing.
FinishReport(w) ==
  /\ w \in writing \cup written /\ Unlocked(OwnerOf[w[1]])
  /\ job' = IF job[w[1]] = [status |-> "running", claim |-> w[2]]
            THEN [job EXCEPT ![w[1]].status = IF w \in written THEN "completed" ELSE "failed"]
            ELSE job
  /\ writing' = writing \ {w} /\ written' = written \ {w}
  /\ UNCHANGED <<status, request, preview, message, object, people, erasure>>

SettleMail(j) ==
  /\ j \in Mail /\ Unlocked(OwnerOf[j]) /\ job[j].status = "running"
  /\ job' = [job EXCEPT ![j].status = "completed"]
  /\ message' = [message EXCEPT ![j] = "accepted"]
  /\ UNCHANGED <<status, request, preview, writing, written, object, people, erasure>>

RecoverExpired(j) ==
  /\ Unlocked(OwnerOf[j]) /\ job[j].status = "running"
  /\ job' = [job EXCEPT ![j].status = IF j \in Report THEN "queued" ELSE "needs_review"]
  /\ message' = IF j \in Mail THEN [message EXCEPT ![j] = "unknown"] ELSE message
  /\ UNCHANGED <<status, request, preview, writing, written, object, people, erasure>>

Reconcile(j) ==
  /\ j \in Mail /\ Unlocked(OwnerOf[j]) /\ status[OwnerOf[j]] = "active"
  /\ message[j] = "unknown"
  /\ message' = [message EXCEPT ![j] = "accepted"]
  /\ job' = [job EXCEPT ![j].status = "completed"]
  /\ UNCHANGED <<status, request, preview, writing, written, object, people, erasure>>

-----------------------------------------------------------------------------
\* Offboarding.

\* What offboard_manifest puts under its hash.
Rows(t) == [jobs |-> [j \in Of(t) |-> job[j]], mails |-> [j \in Of(t) \cap Mail |-> message[j]],
            members |-> MembersOf(t)]
RunningJobs(t) == {j \in Of(t) : job[j].status = "running"}
UnknownMessages(t) == {j \in Of(t) \cap Mail : message[j] = "unknown"}
\* Mutant: only unknown deliveries block.
BusyWithMail(t) == UnknownMessages(t) # {}
Busy(t) == RunningJobs(t) # {} \/ UnknownMessages(t) # {}

CreateRequest(t) ==
  /\ Unlocked(t) /\ status[t] = "active" /\ request[t] = "none"
  /\ request' = [request EXCEPT ![t] = "requested"]
  /\ UNCHANGED <<status, preview, work, object, people, erasure>>

CreatePlan(t) ==
  /\ Unlocked(t) /\ status[t] = "active" /\ request[t] = "requested"
  /\ preview' = [preview EXCEPT ![t] = Rows(t)]
  /\ UNCHANGED <<status, request, work, object, people, erasure>>

PreviewExpires(t) ==
  /\ preview[t] # None
  /\ preview' = [preview EXCEPT ![t] = None]
  /\ UNCHANGED <<status, request, work, object, people, erasure>>

\* Mutant: the plan is executed whatever happened since it was shown.
AsShown(t) == preview[t] # None
AsPreviewed(t) == preview[t] = Rows(t)

Offboard(t) ==
  /\ Unlocked(t) /\ status[t] = "active" /\ AsPreviewed(t) /\ ~Busy(t)
  /\ message' = [j \in Mail |->
        IF OwnerOf[j] = t /\ message[j] = "planned" THEN "cancelled" ELSE message[j]]
  /\ job' = [j \in Job |-> IF OwnerOf[j] = t /\ job[j].status = "queued"
                           THEN [job[j] EXCEPT !.status = "cancelled"] ELSE job[j]]
  /\ status' = [status EXCEPT ![t] = "offboarding"]
  /\ request' = [request EXCEPT ![t] = "offboarded"]
  /\ preview' = [preview EXCEPT ![t] = None]  \* its execution changes what it describes
  /\ UNCHANGED <<writing, written, object, people, erasure>>

ApproveRetention(t) ==
  /\ Unlocked(t) /\ status[t] = "offboarding" /\ request[t] = "offboarded"
  /\ request' = [request EXCEPT ![t] = "erasure_approved"]
  /\ UNCHANGED <<status, preview, work, object, people, erasure>>

\* platform_routes.member: the user is looked up, then the row is inserted; its
\* reference waits for whoever has the user locked.
Invite(u, t) ==
  /\ <<u, t>> \in Invitation \ member /\ Unlocked(t)
  /\ status[t] \in {"active", "offboarding"} /\ u \notin anonymous
  /\ inviting' = inviting \cup {<<u, t>>}
  /\ UNCHANGED <<status, request, preview, work, object, member, anonymous, userLock, erasure>>

AddMember(u, t) ==
  /\ <<u, t>> \in inviting /\ userLock[u] = None
  /\ member' = member \cup {<<u, t>>}
  /\ inviting' = inviting \ {<<u, t>>}
  /\ UNCHANGED <<status, request, preview, work, object, anonymous, userLock, erasure>>

-----------------------------------------------------------------------------
\* Erasure: a plan is written to a file, reviewed, and executed, again if need be.
\* Of the plans that were written only the last can still describe the organization.

Erasable(t) == status[t] = "offboarding" /\ request[t] = "erasure_approved" /\ ~Busy(t)
Manifest(t) == [objects |-> object[t], rows |-> Rows(t)]

PlanErasure(t) ==
  /\ Unlocked(t) /\ Erasable(t) /\ Manifest(t) # plan[t]
  /\ plan' = [plan EXCEPT ![t] = Manifest(t)]
  /\ UNCHANGED <<status, request, preview, work, object, people, eraser, receipt, crashes>>

BeginErasure(t) ==
  /\ eraser[t] = Off /\ Unlocked(t)
  /\ receipt[t] = NoReceipt /\ Erasable(t) /\ plan[t] = Manifest(t)
  /\ eraser' = [eraser EXCEPT ![t] = [Off EXCEPT !.phase = "locking", !.plan = plan[t],
                                                 !.todo = MembersOf(t)]]
  /\ UNCHANGED <<status, request, preview, work, object, people, plan, receipt, crashes>>

\* SELECT ... FOR UPDATE on the user, then a look for other memberships, which
\* sees what is committed now and this transaction's own deletions.
\* Mutant: the user is not locked while the others look.
Unguarded(u) == TRUE
UserFree(u) == userLock[u] = None
LockUser(t, u) ==
  /\ eraser[t].phase = "locking" /\ u \in eraser[t].todo /\ UserFree(u)
  /\ userLock' = [userLock EXCEPT ![u] = t]
  /\ eraser' = [eraser EXCEPT ![t].todo = @ \ {u},
                  ![t].forget = IF \E s \in Tenant \ {t} : <<u, s>> \in member
                                THEN @ ELSE @ \cup {u}]
  /\ UNCHANGED <<status, request, preview, work, object, member, inviting, anonymous, plan,
                 receipt, crashes>>

Released(t) == [u \in User |-> IF userLock[u] = t THEN None ELSE userLock[u]]

CommitErasure(t) ==
  /\ eraser[t].phase = "locking" /\ eraser[t].todo = {}
  /\ member' = {m \in member : m[2] # t}
  /\ anonymous' = anonymous \cup eraser[t].forget
  /\ userLock' = Released(t)
  /\ job' = [j \in Job |-> IF OwnerOf[j] = t THEN [NoJob EXCEPT !.status = "deleted"] ELSE job[j]]
  /\ message' = [j \in Mail |-> IF OwnerOf[j] = t THEN "deleted" ELSE message[j]]
  /\ status' = [status EXCEPT ![t] = "erasing"]
  /\ receipt' = [receipt EXCEPT ![t] = [status |-> "objects_pending", plan |-> eraser[t].plan]]
  /\ eraser' = [eraser EXCEPT ![t].phase = "inventory"]
  /\ UNCHANGED <<request, preview, writing, written, object, inviting, plan, crashes>>

\* The same plan again, after the database part was done.
\* Mutant: what the database holds is compared with the plan again.
StillErasable(t) == receipt[t].status = "objects_pending" /\ Erasable(t)
Begun(t) == receipt[t].status = "objects_pending"
ResumeErasure(t) ==
  /\ eraser[t] = Off /\ Begun(t)
  /\ eraser' = [eraser EXCEPT ![t] = [Off EXCEPT !.phase = "inventory", !.plan = receipt[t].plan]]
  /\ UNCHANGED <<status, request, preview, work, object, people, plan, receipt, crashes>>

\* Mutant: whatever is there is removed.
TakesAll(t) == TRUE
NothingNew(t) == object[t] \subseteq eraser[t].plan.objects
Inventory(t) ==
  /\ eraser[t].phase = "inventory"
  /\ eraser' = [eraser EXCEPT ![t] =
       IF NothingNew(t)
       THEN [eraser[t] EXCEPT !.phase = "unlink", !.left = object[t]]
       ELSE Off]
  /\ UNCHANGED <<status, request, preview, work, object, people, plan, receipt, crashes>>

Unlink(t, f) ==
  /\ eraser[t].phase = "unlink" /\ f \in eraser[t].left
  /\ object' = [object EXCEPT ![t] = @ \ {f}]
  /\ eraser' = [eraser EXCEPT ![t].left = @ \ {f}]
  /\ UNCHANGED <<status, request, preview, work, people, plan, receipt, crashes>>

CloseErasure(t) ==
  /\ eraser[t].phase = "unlink" /\ eraser[t].left = {} /\ Unlocked(t)
  /\ receipt' = [receipt EXCEPT ![t].status = "erased"]
  /\ status' = [status EXCEPT ![t] = "erased"]
  /\ eraser' = [eraser EXCEPT ![t] = Off]
  /\ UNCHANGED <<request, preview, work, object, people, plan, crashes>>

\* Two erasures wait for each other's users: the database ends one of them.
Deadlocked(t) ==
  /\ eraser[t].phase = "locking"
  /\ \E s \in Tenant \ {t} :
       /\ eraser[s].phase = "locking"
       /\ \E u \in eraser[t].todo, v \in eraser[s].todo : userLock[u] = s /\ userLock[v] = t
Stop(t) ==
  /\ eraser[t] # Off
  /\ Deadlocked(t) \/ crashes < MaxCrashes
  /\ crashes' = IF Deadlocked(t) THEN crashes ELSE crashes + 1
  /\ eraser' = [eraser EXCEPT ![t] = Off]
  /\ userLock' = IF eraser[t].phase = "locking" THEN Released(t) ELSE userLock
  /\ UNCHANGED <<status, request, preview, work, object, member, inviting, anonymous, plan,
                 receipt>>

Init ==
  /\ status = [t \in Tenant |-> IF t \in Leaving THEN "offboarding" ELSE "active"]
  /\ request = [t \in Tenant |-> IF t \in Leaving THEN "erasure_approved" ELSE "none"]
  /\ preview = [t \in Tenant |-> None]
  /\ job = [j \in Job |-> NoJob] /\ message = [j \in Mail |-> "none"]
  /\ writing = {} /\ written = {}
  /\ object = Stored
  /\ member = Members /\ inviting = {} /\ anonymous = {}
  /\ userLock = [u \in User |-> None]
  /\ plan = [t \in Tenant |-> None] /\ eraser = [t \in Tenant |-> Off]
  /\ receipt = [t \in Tenant |-> NoReceipt] /\ crashes = 0

Cleanup(t) ==
  \/ ResumeErasure(t) \/ Inventory(t) \/ CloseErasure(t)
  \/ \E f \in eraser[t].left : Unlink(t, f)
Erase(t) ==
  \/ PlanErasure(t) \/ BeginErasure(t) \/ CommitErasure(t) \/ Cleanup(t) \/ Stop(t)
  \/ \E u \in User : LockUser(t, u)
Next ==
  \/ \E j \in Job : Submit(j) \/ Claim(j) \/ SettleMail(j) \/ RecoverExpired(j) \/ Reconcile(j)
  \/ \E w \in writing \cup written : GenerateBundle(w) \/ FinishReport(w)
  \/ \E t \in Tenant : \/ CreateRequest(t) \/ CreatePlan(t) \/ PreviewExpires(t)
                       \/ Offboard(t) \/ ApproveRetention(t) \/ Erase(t)
  \/ \E u \in User, t \in Tenant : Invite(u, t) \/ AddMember(u, t)

\* An operator runs an interrupted erasure again, and a run that is not stopped goes on.
Fairness == \A t \in Tenant : WF_vars(Cleanup(t))
Spec == Init /\ [][Next]_vars /\ Fairness

-----------------------------------------------------------------------------
\* Once an organization is offboarded nothing works for it any more: no job of it
\* waits or runs and no mail of it is planned or in doubt, whatever the workers
\* claimed, lost or recovered between the preview and the execution.
OffboardedIsQuiet ==
  \A t \in Tenant : status[t] # "active" =>
    \A j \in Of(t) : /\ job[j].status \notin {"queued", "running"}
                     /\ j \in Mail => message[j] \notin {"planned", "unknown"}

\* What is offboarded is what the reviewers were shown: an organization stops being
\* active only in the state its present plan describes.
OffboardsAsPreviewed ==
  [][\A t \in Tenant : status[t] = "active" /\ status'[t] # "active"
        => preview[t] = Rows(t)]_vars

\* A person no organization knows any more is anonymized, also when the last two
\* organizations of that person are erased at the same time.
NobodyForgotten ==
  \A m \in Members : status[m[2]] \in {"erasing", "erased"} =>
    m[1] \in anonymous \/ \E t \in Tenant : <<m[1], t>> \in member

\* Only files of the reviewed plan are removed, and only after the database part was
\* committed; a file that a worker writes late stays.
OnlyReviewedRemoved ==
  [][\A t \in Tenant : object[t] \ object'[t] # {} =>
        /\ receipt[t] # NoReceipt
        /\ object[t] \ object'[t] \subseteq receipt[t].plan.objects]_vars

\* An erasure that is reported as finished left no reviewed file behind, however
\* often it was stopped and run again.
ReviewedAreGone ==
  \A t \in Tenant : receipt[t].status = "erased" => object[t] \cap receipt[t].plan.objects = {}

\* An erasure that was begun is finished when it is run again after each stop,
\* unless a file turned up that nobody reviewed: then it waits for a person.
ErasureFinishes ==
  \A t \in Tenant :
    receipt[t].status = "objects_pending"
      ~> receipt[t].status = "erased" \/ ~(object[t] \subseteq receipt[t].plan.objects)

\* An organization is offboarded as reviewed and is quiet from then on (lifecycle.py:75).
OffboardingIsFinal == []OffboardedIsQuiet /\ OffboardsAsPreviewed

\* Erasure removes the reviewed files, all of them and no other (lifecycle.py:230-247).
ErasesWhatWasReviewed == []ReviewedAreGone /\ OnlyReviewedRemoved
===============================================================================
