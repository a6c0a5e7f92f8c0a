---------------------------- MODULE MailDispatch ----------------------------
(***************************************************************************)
(* Campaigns and their mail: planned by a customer (campaign_routes.py),   *)
(* claimed and sent by workers that may crash or fall behind (worker.py),  *)
(* each message paid by a reservation of one point.                        *)
(*                                                                         *)
(* One tenant: everything here happens under its advisory lock, so each    *)
(* transaction is one action.  A worker needs several: it reads the        *)
(* expired claims, recovers each, claims a job, and handles what it        *)
(* claimed, and anything may happen in between.                            *)
(***************************************************************************)
EXTENDS Integers

CONSTANTS
  Campaign,    \* campaigns
  Message,     \* message_plans: one for each recipient of a campaign
  Worker,      \* worker processes
  CampaignOf,  \* the campaign of each message
  Window,      \* time after the start in which mail may be sent (one hour)
  Lease,       \* LEASE_DURATION
  MaxStart,    \* bound: latest start of a campaign
  MaxTime,     \* bound: last instant
  MaxClaims    \* bound: claims ever made

ASSUME DispatchConstants ==
  /\ CampaignOf \in [Message -> Campaign]
  /\ Window \in Nat \ {0} /\ Lease \in Nat \ {0}
  /\ MaxStart \in Nat /\ MaxTime \in Nat /\ MaxClaims \in Nat

VARIABLES
  now,       \* the clock m.now()
  tenant,    \* tenants.status
  campaign,  \* campaigns: status and scheduled_at
  message,   \* message_plans.status
  hold,      \* status of the reservation of each message
  job,       \* the sandbox_mail row of jobs for each message
  claims,    \* claim tokens handed out so far (m.uid() never repeats)
  scan,      \* expired claims a worker has read and not yet recovered
  mine       \* the claim each worker is working on

rows == <<campaign, message, hold, job>>
workers == <<scan, mine>>
vars == <<now, tenant, campaign, message, hold, job, claims, scan, mine>>

Time == 0..MaxTime
NoToken == 0
NoJob == [status |-> "none", token |-> NoToken, lease |-> 0, due |-> 0, attempts |-> 0]
RetryLimit == 3
Claimed == [message : Message, token : 0..MaxClaims]
NoClaim == [message |-> "none", token |-> NoToken]

Ends(m) == campaign[CampaignOf[m]].start + Window   \* reservations.expires_at
Messages(c) == {m \in Message : CampaignOf[m] = c}

\* Mutant: what was perhaps sent counts as not sent.
Undecided(c) == {m \in Messages(c) : message[m] \in {"planned", "unknown"}}

Planned(c) == {m \in Messages(c) : message[m] = "planned"}
State(m) == campaign[CampaignOf[m]].status
Running(c) == campaign[c].status \in {"scheduled", "observing"}

Init ==
  /\ now = 0
  /\ tenant = "active"
  /\ campaign = [c \in Campaign |-> [status |-> "none", start |-> 0]]
  /\ message = [m \in Message |-> "none"]
  /\ hold = [m \in Message |-> "none"]
  /\ job = [m \in Message |-> NoJob]
  /\ claims = 0
  /\ scan = [w \in Worker |-> {}]
  /\ mine = [w \in Worker |-> NoClaim]

Tick ==
  /\ now < MaxTime
  /\ now' = now + 1
  /\ UNCHANGED <<tenant, rows, claims, workers>>

-----------------------------------------------------------------------------
(***************************************************************************)
(* Shared steps.  Each maps a set of messages; the others keep theirs.     *)
(***************************************************************************)
Become(ms, status) == message' = [m \in Message |-> IF m \in ms THEN status ELSE message[m]]

\* Mutant: points return only while the message could still be sent.
ReleasedInWindow(ms) ==
  [m \in Message |-> IF m \in ms /\ hold[m] = "reserved" /\ now <= Ends(m) THEN "released" ELSE hold[m]]

\* wallet.release: only a reservation still held changes.
Released(ms) ==
  [m \in Message |-> IF m \in ms /\ hold[m] = "reserved" THEN "released" ELSE hold[m]]

\* wallet.consume with the current time.
Consumes(m) == hold[m] = "reserved" /\ now <= Ends(m)

Stop(j, status) == [j EXCEPT !.status = status, !.token = NoToken, !.lease = 0]

(* _cancel_unsent: planned messages are cancelled and their points freed.  *)
CancelUnsent(ms, status) ==
  /\ Become(ms, "cancelled")
  /\ hold' = Released(ms)
  /\ job' = [m \in Message |->
       IF m \in ms /\ job[m].status \in {"queued", "paused", "running", "failed", "dead_letter"}
       THEN Stop(job[m], status)
       ELSE job[m]]

-----------------------------------------------------------------------------
(***************************************************************************)
(* The customer.  Requests of a tenant that is not active are refused.     *)
(***************************************************************************)
CreateCampaign(c, start) ==
  /\ tenant = "active"
  /\ campaign[c].status = "none"
  /\ start >= now
  /\ campaign' = [campaign EXCEPT ![c] = [status |-> "draft", start |-> start]]
  /\ UNCHANGED <<now, tenant, message, hold, job, claims, workers>>

\* schedule_campaign: one point is reserved for every recipient, or none at all.
Schedule(c) ==
  /\ tenant = "active"
  /\ campaign[c].status = "draft"
  /\ Messages(c) # {}
  /\ campaign[c].start + Window > now
  /\ Become(Messages(c), "planned")
  /\ hold' = [m \in Message |-> IF m \in Messages(c) THEN "reserved" ELSE hold[m]]
  /\ job' = [m \in Message |->
       IF m \in Messages(c)
       THEN [NoJob EXCEPT !.status = "queued", !.due = campaign[c].start]
       ELSE job[m]]
  /\ campaign' = [campaign EXCEPT ![c].status = "scheduled"]
  /\ UNCHANGED <<now, tenant, claims, workers>>

\* Mutant: every job of the campaign is marked, done or not.
PausesAll(c) == {m \in Messages(c) : job[m].status # "running"}

Pausable(c) == {m \in Messages(c) : job[m].status = "queued"}

Pause(c) ==
  /\ tenant = "active"
  /\ Running(c)
  /\ campaign' = [campaign EXCEPT ![c].status = "paused"]
  /\ job' = [m \in Message |-> IF m \in Pausable(c) THEN [job[m] EXCEPT !.status = "paused"] ELSE job[m]]
  /\ UNCHANGED <<now, tenant, message, hold, claims, workers>>

(* Resuming cancels what has lapsed during the pause and queues the rest.  *)
(* The job of a message that a worker has claimed is not touched.          *)
Later(a, b) == IF a >= b THEN a ELSE b

Resume(c) ==
  /\ tenant = "active"
  /\ campaign[c].status = "paused"
  /\ LET lapsed == {m \in Planned(c) : Ends(m) <= now}
         left == Planned(c) \ lapsed
     IN  /\ Become(lapsed, "cancelled")
         /\ hold' = Released(lapsed)
         /\ job' = [m \in Message |->
              IF m \in Planned(c) /\ job[m].status = "paused"
              THEN [job[m] EXCEPT !.status = IF m \in lapsed THEN "cancelled" ELSE "queued",
                                  !.due = Later(campaign[c].start, now)]
              ELSE job[m]]
         /\ campaign' = [campaign EXCEPT
              ![c].status = IF left # {} THEN "scheduled" ELSE "observing"]
  /\ UNCHANGED <<now, tenant, claims, workers>>

\* Cancelling keeps unknown messages reserved; the rows of claimed jobs keep their token.
Cancel(c) ==
  /\ tenant = "active"
  /\ campaign[c].status \notin {"none", "cancelled"}
  /\ Become(Planned(c), "cancelled")
  /\ hold' = Released(Planned(c))
  /\ job' = [m \in Message |-> IF m \in Planned(c) THEN [job[m] EXCEPT !.status = "cancelled"] ELSE job[m]]
  /\ campaign' = [campaign EXCEPT ![c].status = "cancelled"]
  /\ UNCHANGED <<now, tenant, claims, workers>>

(* settle_message for every planned message, with an outcome of the        *)
(* sandbox provider.  One reservation that cannot be consumed undoes all.  *)
HoldAfter(outcome, m) ==
  IF outcome = "accepted" THEN "consumed" ELSE IF outcome = "rejected" THEN "released" ELSE hold[m]

Settle(ms, outcome) ==
  /\ outcome = "accepted" => \A m \in ms : Consumes(m)
  /\ Become(ms, outcome)
  /\ hold' = [m \in Message |-> IF m \in ms THEN HoldAfter(outcome, m) ELSE hold[m]]
  /\ job' = [m \in Message |->
       IF m \in ms
       THEN Stop(job[m], IF outcome = "unknown" THEN "needs_review" ELSE "completed")
       ELSE job[m]]

Dispatch(c, outcome) ==
  /\ tenant = "active"
  /\ Running(c)
  /\ Settle(Planned(c), outcome)
  /\ campaign' = [campaign EXCEPT ![c].status = "observing"]
  /\ UNCHANGED <<now, tenant, claims, workers>>

(* Finance decides an unknown message from the provider's record.  For an  *)
(* acceptance it gives a time inside the reservation, which always exists. *)
Reconcile(m, outcome) ==
  /\ tenant = "active"
  /\ message[m] = "unknown"
  /\ hold[m] = "reserved"
  /\ Become({m}, outcome)
  /\ hold' = [hold EXCEPT ![m] = HoldAfter(outcome, m)]
  /\ job' = [job EXCEPT ![m] = Stop(@, "completed")]
  /\ UNCHANGED <<now, tenant, campaign, claims, workers>>

-----------------------------------------------------------------------------
(***************************************************************************)
(* The platform suspends and reactivates the tenant, or offboards it once  *)
(* no claim is running and no message is unknown.                          *)
(***************************************************************************)
SetStatus(status) ==
  /\ {tenant, status} = {"active", "suspended"}
  /\ tenant' = status
  /\ UNCHANGED <<now, rows, claims, workers>>

Offboard ==
  LET unsent == {m \in Message : message[m] = "planned"} IN
  /\ tenant = "active"
  /\ \A m \in Message : job[m].status # "running" /\ message[m] # "unknown"
  /\ Become(unsent, "cancelled")
  /\ hold' = Released(unsent)
  /\ job' = [m \in Message |->
       IF job[m].status \in {"queued", "paused"} THEN Stop(job[m], "cancelled") ELSE job[m]]
  /\ campaign' = [c \in Campaign |->
       IF campaign[c].status = "none" THEN campaign[c] ELSE [campaign[c] EXCEPT !.status = "cancelled"]]
  /\ tenant' = "offboarding"
  /\ UNCHANGED <<now, claims, workers>>

-----------------------------------------------------------------------------
(***************************************************************************)
(* The worker.                                                             *)
(***************************************************************************)
Idle(w) == scan[w] = {} /\ mine[w] = NoClaim

\* Mutant: only claims on planned messages are looked for.
ExpiredPlanned(m) == job[m].status = "running" /\ job[m].lease <= now /\ message[m] = "planned"

Expired(m) == job[m].status = "running" /\ job[m].lease <= now

\* _recover_expired reads the expired claims without a lock ...
ReadExpired(w) ==
  /\ Idle(w)
  /\ \E m \in Message : Expired(m)
  /\ scan' = [scan EXCEPT ![w] = {[message |-> m, token |-> job[m].token] : m \in {x \in Message : Expired(x)}}]
  /\ UNCHANGED <<now, tenant, rows, claims, mine>>

\* Mutant: the message is given the status of its job.
RecoveredAlike(m) == [status |-> "needs_review", job |-> "needs_review"]

\* Mutant: the expired claim is simply queued again.
RequeueExpired(m) == [status |-> message[m], job |-> "queued"]

\* A planned message may have been sent: it becomes unknown, for a review.
Recovered(m) ==
  [status |-> IF message[m] = "planned" THEN "unknown" ELSE message[m],
   job |-> IF message[m] \in {"planned", "unknown"} THEN "needs_review" ELSE "completed"]

\* ... and recovers one of them under the lock, unless it changed since.
Recover(w, seen) ==
  /\ seen \in scan[w]
  /\ scan' = [scan EXCEPT ![w] = @ \ {seen}]
  /\ LET m == seen.message IN
     IF Expired(m) /\ job[m].token = seen.token
     THEN /\ Become({m}, Recovered(m).status)
          /\ job' = [job EXCEPT ![m] = Stop(@, Recovered(m).job)]
     ELSE UNCHANGED <<message, job>>
  /\ UNCHANGED <<now, tenant, campaign, hold, claims, mine>>

Lapsed(m) == message[m] = "planned" /\ (State(m) = "cancelled" \/ Ends(m) <= now)

\* Mutant: the campaign's pause is not read.
SuspendsNever(m) == FALSE

Suspended(m) == State(m) = "paused"

Sendable(m) == message[m] = "planned" /\ ~Lapsed(m) /\ ~Suspended(m)

\* How the job of a message ends that needs no sending any more.
Settled(m) == IF message[m] = "unknown" THEN "needs_review" ELSE "completed"

SetJob(m, status) ==
  /\ job' = [job EXCEPT ![m] = Stop(@, status)]
  /\ UNCHANGED <<message, hold>>

(* claim_job takes one queued job that is due.  It cancels the mail of a   *)
(* tenant that is not active, mail past its window, and mail that was      *)
(* tried too often.                                                        *)
Claim(w, m) ==
  /\ Idle(w)
  /\ job[m].status = "queued" /\ job[m].due <= now
  /\ claims < MaxClaims /\ now + Lease <= MaxTime
  /\ IF tenant = "active" /\ Sendable(m) /\ job[m].attempts < RetryLimit
     THEN /\ claims' = claims + 1
          /\ job' = [job EXCEPT ![m] = [status |-> "running", token |-> claims + 1, lease |-> now + Lease,
                                        due |-> job[m].due, attempts |-> job[m].attempts + 1]]
          /\ mine' = [mine EXCEPT ![w] = [message |-> m, token |-> claims + 1]]
          /\ UNCHANGED <<message, hold>>
     ELSE /\ IF message[m] # "planned"
             THEN SetJob(m, IF tenant = "active" THEN Settled(m) ELSE "cancelled")
             ELSE IF tenant # "active" \/ Lapsed(m)
             THEN CancelUnsent({m}, "cancelled")
             ELSE IF Suspended(m)
             THEN SetJob(m, "paused")
             ELSE CancelUnsent({m}, "dead_letter")
          /\ UNCHANGED <<claims, mine>>
  /\ UNCHANGED <<now, tenant, campaign, scan>>

\* _renew_current and _finish_claim: the claim is still this worker's.
Current(claim) ==
  /\ job[claim.message].status = "running"
  /\ job[claim.message].token = claim.token
  /\ job[claim.message].lease > now

\* Mutant: a claim that found the campaign paused counts as an attempt.
PutAsideAtCost(m) == [job EXCEPT ![m] = Stop(@, "paused")]

\* A claim that finds the campaign paused gives its attempt back.
PutAside(m) == [job EXCEPT ![m] = [Stop(job[m], "paused") EXCEPT !.attempts = Later(job[m].attempts - 1, 0)]]

(* process_once handles the claimed mail in a second transaction, where    *)
(* everything is read again: the sandbox accepts what may still be sent.   *)
Process(w) ==
  LET m == mine[w].message IN
  /\ mine[w] # NoClaim
  /\ mine' = [mine EXCEPT ![w] = NoClaim]
  /\ IF ~Current(mine[w])
     THEN UNCHANGED <<message, hold, job>>
     ELSE IF Lapsed(m)
     THEN CancelUnsent({m}, "cancelled")
     ELSE IF message[m] # "planned"
     THEN SetJob(m, Settled(m))
     ELSE IF Suspended(m)
     THEN job' = PutAside(m) /\ UNCHANGED <<message, hold>>
     ELSE Settle({m}, "accepted")
  /\ UNCHANGED <<now, tenant, campaign, claims, scan>>

(* The transaction fails and is undone; a third one records the failure    *)
(* and cancels the message, if the claim is still the worker's.            *)
Fail(w) ==
  LET m == mine[w].message IN
  /\ mine[w] # NoClaim
  /\ mine' = [mine EXCEPT ![w] = NoClaim]
  /\ IF ~Current(mine[w])
     THEN UNCHANGED <<message, hold, job>>
     ELSE IF message[m] = "planned"
     THEN CancelUnsent({m}, "failed")
     ELSE SetJob(m, "failed")
  /\ UNCHANGED <<now, tenant, campaign, claims, scan>>

\* A worker stops at any point and starts again with nothing in hand.
Crash(w) ==
  /\ ~Idle(w)
  /\ scan' = [scan EXCEPT ![w] = {}]
  /\ mine' = [mine EXCEPT ![w] = NoClaim]
  /\ UNCHANGED <<now, tenant, rows, claims>>

\* Mutant: paused campaigns are left alone.
LateUnpaused == {m \in Message : message[m] = "planned" /\ Ends(m) <= now /\ State(m) # "paused"}

Late == {m \in Message : message[m] = "planned" /\ Ends(m) <= now}

\* expire_training, for an active tenant: unsent mail past its window is cancelled.
Sweep ==
  /\ tenant = "active"
  /\ Late # {}
  /\ CancelUnsent(Late, "cancelled")
  /\ UNCHANGED <<now, tenant, campaign, claims, workers>>

-----------------------------------------------------------------------------
Next ==
  \/ Tick
  \/ \E c \in Campaign, start \in 0..MaxStart : CreateCampaign(c, start)
  \/ \E c \in Campaign : Schedule(c)
  \/ \E c \in Campaign : Pause(c)
  \/ \E c \in Campaign : Resume(c)
  \/ \E c \in Campaign : Cancel(c)
  \/ \E c \in Campaign, outcome \in {"accepted", "rejected", "unknown"} : Dispatch(c, outcome)
  \/ \E m \in Message, outcome \in {"accepted", "rejected"} : Reconcile(m, outcome)
  \/ \E status \in {"active", "suspended"} : SetStatus(status)
  \/ Offboard
  \/ \E w \in Worker : ReadExpired(w)
  \/ \E w \in Worker : \E seen \in scan[w] : Recover(w, seen)
  \/ \E w \in Worker, m \in Message : Claim(w, m)
  \/ \E w \in Worker : Process(w)
  \/ \E w \in Worker : Fail(w)
  \/ \E w \in Worker : Crash(w)
  \/ Sweep

Spec == Init /\ [][Next]_vars

-----------------------------------------------------------------------------
(***************************************************************************)
(* Properties.                                                             *)
(***************************************************************************)
JobStatus == {"none", "queued", "paused", "running", "needs_review", "completed", "failed",
              "dead_letter", "cancelled"}

TypeOK ==
  /\ now \in Time
  /\ tenant \in {"active", "suspended", "offboarding"}
  /\ campaign \in [Campaign -> [status : {"none", "draft", "scheduled", "observing", "paused", "cancelled"},
                                start : 0..MaxStart]]
  /\ message \in [Message -> {"none", "planned", "unknown", "accepted", "rejected", "cancelled"}]
  /\ hold \in [Message -> {"none", "reserved", "consumed", "released"}]
  /\ job \in [Message -> [status : JobStatus, token : 0..MaxClaims, lease : Nat, due : Nat, attempts : 0..RetryLimit]]
  /\ claims \in 0..MaxClaims
  /\ scan \in [Worker -> SUBSET Claimed]
  /\ mine \in [Worker -> Claimed \cup {NoClaim}]

HoldOf ==
  [none |-> "none", planned |-> "reserved", unknown |-> "reserved",
   accepted |-> "consumed", rejected |-> "released", cancelled |-> "released"]

(* The customer pays for a message exactly when the provider accepted it:  *)
(* the reservation follows the message through pauses, cancellations,      *)
(* crashes, sweeps and reviews, although different code writes the two.    *)
HoldFollowsMessage == \A m \in Message : hold[m] = HoldOf[message[m]]

(* A message that is still to be sent has a job that will reach a worker,  *)
(* or waits for its campaign to be resumed; an unknown one waits for a     *)
(* review, and its job can no longer be claimed.                           *)
JobFollowsMessage ==
  \A m \in Message :
    /\ message[m] = "planned" => job[m].status \in {"queued", "paused", "running"}
    /\ message[m] = "unknown" => job[m].status = "needs_review"
    /\ job[m].status = "queued" => message[m] = "planned" /\ Running(CampaignOf[m])
    /\ job[m].status = "paused" => message[m] = "planned" /\ State(m) = "paused"

(* A pause costs no attempt: a message waits for a worker with all its     *)
(* attempts, however often its campaign was paused after a claim, so that  *)
(* pauses never use up the retry limit (test_worker_recovery.py:197).      *)
PausesCostNoAttempt ==
  \A m \in Message : job[m].status \in {"queued", "paused"} => job[m].attempts = 0

(* Jobs serve their mail: what is to be sent can be claimed, what is in    *)
(* doubt cannot, and waiting for a paused campaign costs no attempt.       *)
JobsServeMail == JobFollowsMessage /\ PausesCostNoAttempt

(* Mail goes out inside its window and only while its campaign runs, even  *)
(* when a worker claimed it before a pause or a cancellation.              *)
SentOnlyWhileRunning ==
  [][\A m \in Message : message[m] = "planned" /\ message'[m] = "accepted" =>
       Running(CampaignOf[m]) /\ now <= Ends(m)]_vars

(* A message that may have been sent is never sent again: unknown ends     *)
(* only with finance's decision, and decided messages stay as they are.    *)
NeverResent ==
  [][\A m \in Message :
       /\ message[m] = "unknown" =>
            message'[m] \in {"unknown", "accepted", "rejected"} /\ job'[m].status # "running"
       /\ message[m] \in {"accepted", "rejected", "cancelled"} => message'[m] = message[m]]_vars

(* Finished jobs are not run again, not even when a suspended tenant is    *)
(* reactivated (docs/learning-authorizations.md:66).                       *)
FinishedJobsStay ==
  [][\A m \in Message :
       job[m].status \in {"completed", "failed", "cancelled"} => job'[m].status = job[m].status]_vars

(* What was decided about a message and its job is final, whatever late    *)
(* worker, recovery, sweep or manual dispatch comes next.                  *)
DecidedStays == NeverResent /\ FinishedJobsStay

(* The clock runs.  The worker loop sweeps, reads expired claims, and ends *)
(* what it claimed, if only by crashing; it does not crash for ever        *)
(* between reading an expired claim and recovering it.                     *)
Fairness ==
  /\ WF_vars(Tick)
  /\ WF_vars(Sweep)
  /\ \A w \in Worker :
       /\ WF_vars(ReadExpired(w))
       /\ WF_vars(Process(w) \/ Fail(w) \/ Crash(w))
       /\ SF_vars(\E seen \in scan[w] : Recover(w, seen))

FairSpec == Spec /\ Fairness

(* No planned message keeps its point for ever while its tenant is active: *)
(* if nobody sends or cancels it, if its campaign stays paused or every    *)
(* worker that claims it crashes, it is cancelled or put up for review.    *)
PlannedIsDecided ==
  <>[](tenant = "active") => \A m \in Message : message[m] = "planned" ~> message[m] # "planned"

(* No claim lasts for ever: a crashed worker's job is completed, cancelled *)
(* or reviewed in the end, so it does not block offboarding.               *)
ClaimsEnd ==
  \A m \in Message : job[m].status = "running" ~> job[m].status # "running"

(* Neither a point nor a claim is kept for ever, with workers that crash.  *)
MailIsSettled == PlannedIsDecided /\ ClaimsEnd
=============================================================================
