------------------------- MODULE MailDispatchProofs -------------------------
(***************************************************************************)
(* Theorems about campaigns and their mail, for any number of campaigns,   *)
(* messages, workers and claims.                                           *)
(***************************************************************************)
EXTENDS MailDispatch, TLAPS

CampaignRow ==
  [status : {"none", "draft", "scheduled", "observing", "paused", "cancelled"}, start : 0..MaxStart]

MessageStatus == {"none", "planned", "unknown", "accepted", "rejected", "cancelled"}

HoldStatus == {"none", "reserved", "consumed", "released"}

JobRow ==
  [status : JobStatus, token : 0..MaxClaims, lease : Nat, due : Nat, attempts : 0..RetryLimit]

RowsOK ==
  /\ message \in [Message -> MessageStatus]
  /\ hold \in [Message -> HoldStatus]
  /\ job \in [Message -> JobRow]

LEMMA TypeParts ==
  TypeOK <=> /\ now \in Time
             /\ tenant \in {"active", "suspended", "offboarding"}
             /\ campaign \in [Campaign -> CampaignRow]
             /\ RowsOK
             /\ claims \in 0..MaxClaims
             /\ scan \in [Worker -> SUBSET Claimed]
             /\ mine \in [Worker -> Claimed \cup {NoClaim}]
BY DEF TypeOK, CampaignRow, MessageStatus, HoldStatus, JobRow, RowsOK

LEMMA TypePartsNext ==
  ASSUME now' \in Time, tenant' \in {"active", "suspended", "offboarding"},
         campaign' \in [Campaign -> CampaignRow], RowsOK', claims' \in 0..MaxClaims,
         scan' \in [Worker -> SUBSET Claimed], mine' \in [Worker -> Claimed \cup {NoClaim}]
  PROVE  TypeOK'
BY DEF TypeOK, CampaignRow, MessageStatus, HoldStatus, JobRow, RowsOK

-----------------------------------------------------------------------------
(***************************************************************************)
(* The steps that several actions share keep the rows well typed.          *)
(***************************************************************************)
LEMMA StopType ==
  ASSUME NEW j \in JobRow, NEW status \in JobStatus
  PROVE  /\ Stop(j, status) \in JobRow
         /\ Stop(j, status).status = status
         /\ Stop(j, status).attempts = j.attempts
<1>1. NoToken \in 0..MaxClaims /\ 0 \in Nat
  BY DispatchConstants DEF NoToken
<1> DEFINE ended == [j EXCEPT !.status = status]
<1>2. ended \in JobRow /\ ended.status = status /\ ended.attempts = j.attempts
  BY DEF JobRow
<1> DEFINE unclaimed == [ended EXCEPT !.token = NoToken]
<1> HIDE DEF ended
<1>3. unclaimed \in JobRow /\ unclaimed.status = status /\ unclaimed.attempts = j.attempts
  BY <1>1, <1>2 DEF JobRow
<1> HIDE DEF unclaimed
<1>4. /\ [unclaimed EXCEPT !.lease = 0] \in JobRow
      /\ [unclaimed EXCEPT !.lease = 0].status = status
      /\ [unclaimed EXCEPT !.lease = 0].attempts = j.attempts
  BY <1>1, <1>3 DEF JobRow
<1> QED
  BY <1>4 DEF Stop, ended, unclaimed

LEMMA CancelUnsentType ==
  ASSUME RowsOK, NEW ms \in SUBSET Message, NEW status \in JobStatus, CancelUnsent(ms, status)
  PROVE  RowsOK'
<1>1. message' \in [Message -> MessageStatus]
  BY DEF RowsOK, CancelUnsent, Become, MessageStatus
<1>2. hold' \in [Message -> HoldStatus]
  BY DEF RowsOK, CancelUnsent, Released, HoldStatus
<1>3. \A m \in Message : Stop(job[m], status) \in JobRow
  BY StopType DEF RowsOK
<1>4. job' \in [Message -> JobRow]
  BY <1>3 DEF RowsOK, CancelUnsent
<1> QED
  BY <1>1, <1>2, <1>4 DEF RowsOK

LEMMA SettleType ==
  ASSUME RowsOK, NEW ms \in SUBSET Message, NEW outcome \in {"accepted", "rejected", "unknown"},
         Settle(ms, outcome)
  PROVE  RowsOK'
<1>1. message' \in [Message -> MessageStatus]
  BY DEF RowsOK, Settle, Become, MessageStatus
<1>2. hold' \in [Message -> HoldStatus]
  BY DEF RowsOK, Settle, HoldAfter, HoldStatus
<1> DEFINE ending == IF outcome = "unknown" THEN "needs_review" ELSE "completed"
<1>3. \A m \in Message : Stop(job[m], ending) \in JobRow
  BY StopType DEF RowsOK, JobStatus
<1>4. job' \in [Message -> JobRow]
  BY <1>3 DEF RowsOK, Settle
<1> QED
  BY <1>1, <1>2, <1>4 DEF RowsOK

LEMMA SetJobType ==
  ASSUME RowsOK, NEW m \in Message, NEW status \in JobStatus, SetJob(m, status)
  PROVE  RowsOK'
<1>1. Stop(job[m], status) \in JobRow
  BY StopType DEF RowsOK
<1> QED
  BY <1>1 DEF RowsOK, SetJob

-----------------------------------------------------------------------------
(***************************************************************************)
(* Type correctness.                                                       *)
(***************************************************************************)
LEMMA NoJobType == NoJob \in JobRow
BY DispatchConstants DEF NoJob, JobRow, JobStatus, NoToken, RetryLimit

LEMMA InitType == Init => TypeOK
<1> SUFFICES ASSUME Init PROVE TypeOK
  OBVIOUS
<1>2. RowsOK
  BY NoJobType DEF Init, RowsOK, MessageStatus, HoldStatus
<1>3. campaign \in [Campaign -> CampaignRow]
  BY DispatchConstants DEF Init, CampaignRow
<1>4. now \in Time /\ claims \in 0..MaxClaims
  BY DispatchConstants DEF Init, Time
<1> QED
  BY <1>2, <1>3, <1>4, TypeParts DEF Init

(* The campaign row after a change of status.                              *)
LEMMA CampaignType ==
  ASSUME campaign \in [Campaign -> CampaignRow], NEW c \in Campaign,
         NEW status \in {"draft", "scheduled", "observing", "paused", "cancelled"},
         campaign' = [campaign EXCEPT ![c].status = status]
  PROVE  campaign' \in [Campaign -> CampaignRow]
BY DEF CampaignRow

LEMMA ScheduleRows ==
  ASSUME RowsOK, campaign \in [Campaign -> CampaignRow], NEW c \in Campaign, Schedule(c)
  PROVE  RowsOK'
<1>1. campaign[c].start \in Nat
  BY DispatchConstants DEF CampaignRow
<1> DEFINE fresh == [NoJob EXCEPT !.status = "queued", !.due = campaign[c].start]
<1>2. fresh \in JobRow
  <2> DEFINE queued == [NoJob EXCEPT !.status = "queued"]
  <2>1. queued \in JobRow
    BY NoJobType DEF JobRow, JobStatus
  <2> HIDE DEF queued
  <2>2. [queued EXCEPT !.due = campaign[c].start] \in JobRow
    BY <1>1, <2>1 DEF JobRow
  <2> QED
    BY <2>2 DEF queued, NoJob
<1>3. job' = [m \in Message |-> IF m \in Messages(c) THEN fresh ELSE job[m]]
  BY DEF Schedule
<1> HIDE DEF fresh
<1>4. job' \in [Message -> JobRow]
  BY <1>2, <1>3 DEF RowsOK
<1>5. message' \in [Message -> MessageStatus] /\ hold' \in [Message -> HoldStatus]
  BY DEF RowsOK, Schedule, Become, MessageStatus, HoldStatus
<1> QED
  BY <1>4, <1>5 DEF RowsOK

LEMMA ResumeRows ==
  ASSUME RowsOK, now \in Time, campaign \in [Campaign -> CampaignRow], NEW c \in Campaign, Resume(c)
  PROVE  RowsOK'
<1> DEFINE due == Later(campaign[c].start, now)
<1>1. due \in Nat
  BY DispatchConstants DEF CampaignRow, Time, Later
<1> DEFINE lapsed == {m \in Planned(c) : Ends(m) <= now}
<1> DEFINE again(m) == IF m \in lapsed THEN "cancelled" ELSE "queued"
<1> DEFINE next(m) == [job[m] EXCEPT !.status = again(m), !.due = due]
<1>2. ASSUME NEW m \in Message PROVE next(m) \in JobRow
  <2>1. job[m] \in JobRow /\ again(m) \in JobStatus
    BY DEF RowsOK, JobStatus
  <2> HIDE DEF due, again
  <2> QED
    BY <1>1, <2>1 DEF JobRow
<1>3. job' = [m \in Message |-> IF m \in Planned(c) /\ job[m].status = "paused" THEN next(m) ELSE job[m]]
  BY DEF Resume
<1>4. message' \in [Message -> MessageStatus] /\ hold' \in [Message -> HoldStatus]
  BY DEF RowsOK, Resume, Become, Released, MessageStatus, HoldStatus
<1> HIDE DEF next
<1>5. job' \in [Message -> JobRow]
  BY <1>2, <1>3 DEF RowsOK
<1> QED
  BY <1>4, <1>5 DEF RowsOK

LEMMA PutAsideRows ==
  ASSUME RowsOK, NEW m \in Message, job' = PutAside(m), UNCHANGED <<message, hold>>
  PROVE  RowsOK'
<1> DEFINE stopped == Stop(job[m], "paused")
<1> DEFINE attempts == Later(job[m].attempts - 1, 0)
<1>1. stopped \in JobRow
  BY StopType DEF RowsOK, JobStatus
<1>2. PutAside(m) = [job EXCEPT ![m] = [stopped EXCEPT !.attempts = attempts]]
  BY DEF PutAside
<1>3. job[m].attempts \in 0..RetryLimit
  BY DEF RowsOK, JobRow
<1>4. attempts \in 0..RetryLimit
  BY <1>3 DEF Later, RetryLimit
<1> HIDE DEF stopped, attempts
<1>5. [stopped EXCEPT !.attempts = attempts] \in JobRow
  BY <1>1, <1>4 DEF JobRow
<1> QED
  BY <1>2, <1>5 DEF RowsOK

(* A claim holds the token it was given.                                   *)
LEMMA ClaimType ==
  ASSUME TypeOK, NEW w \in Worker, NEW m \in Message, Claim(w, m)
  PROVE  TypeOK'
<1>1. /\ now \in Time /\ campaign \in [Campaign -> CampaignRow] /\ RowsOK
      /\ claims \in 0..MaxClaims /\ scan \in [Worker -> SUBSET Claimed]
      /\ mine \in [Worker -> Claimed \cup {NoClaim}] /\ tenant \in {"active", "suspended", "offboarding"}
  BY TypeParts
<1>2. UNCHANGED <<now, tenant, campaign, scan>>
  BY DEF Claim
<1>3. CASE tenant = "active" /\ Sendable(m) /\ job[m].attempts < RetryLimit
  <2>1. /\ claims' = claims + 1
        /\ job' = [job EXCEPT ![m] = [status |-> "running", token |-> claims + 1, lease |-> now + Lease,
                                       due |-> job[m].due, attempts |-> job[m].attempts + 1]]
        /\ mine' = [mine EXCEPT ![w] = [message |-> m, token |-> claims + 1]]
        /\ UNCHANGED <<message, hold>>
        /\ claims < MaxClaims
    BY <1>3 DEF Claim
  <2>2. claims + 1 \in 1..MaxClaims
    BY <1>1, <2>1, DispatchConstants
  <2>3. job[m].due \in Nat /\ job[m].attempts + 1 \in 0..RetryLimit /\ now + Lease \in Nat
    BY <1>1, <1>3, DispatchConstants DEF RowsOK, JobRow, RetryLimit, Time
  <2>4. [status |-> "running", token |-> claims + 1, lease |-> now + Lease,
         due |-> job[m].due, attempts |-> job[m].attempts + 1] \in JobRow
    BY <2>2, <2>3, DispatchConstants DEF JobRow, JobStatus
  <2>5. RowsOK'
    BY <1>1, <2>1, <2>4 DEF RowsOK
  <2>6. mine' \in [Worker -> Claimed \cup {NoClaim}]
    <3>1. [message |-> m, token |-> claims + 1] \in Claimed
      BY <2>2 DEF Claimed
    <3> QED
      BY <1>1, <2>1, <3>1
  <2>7. claims' \in 0..MaxClaims
    BY <2>1, <2>2
  <2> QED
    BY <1>1, <1>2, <2>5, <2>6, <2>7, TypePartsNext
<1>4. CASE ~(tenant = "active" /\ Sendable(m) /\ job[m].attempts < RetryLimit)
  <2>1. /\ UNCHANGED <<claims, mine>>
        /\ \/ \E status \in {"needs_review", "completed", "cancelled", "paused"} : SetJob(m, status)
           \/ \E status \in {"cancelled", "dead_letter"} : CancelUnsent({m}, status)
    BY <1>4 DEF Claim, Settled
  <2>2. ASSUME NEW status \in {"needs_review", "completed", "cancelled", "paused"}, SetJob(m, status)
        PROVE  RowsOK'
    BY <1>1, <2>2, SetJobType DEF JobStatus
  <2>3. ASSUME NEW status \in {"cancelled", "dead_letter"}, CancelUnsent({m}, status)
        PROVE  RowsOK'
    BY <1>1, <2>3, CancelUnsentType DEF JobStatus
  <2>4. RowsOK'
    BY <2>1, <2>2, <2>3
  <2> QED
    BY <1>1, <1>2, <2>1, <2>4, TypePartsNext
<1> QED
  BY <1>3, <1>4

(* Ending a claim, by the work itself or by its failure.                   *)
LEMMA EndType ==
  ASSUME TypeOK, NEW w \in Worker, Process(w) \/ Fail(w)
  PROVE  TypeOK'
<1> DEFINE m == mine[w].message
<1>1. /\ now \in Time /\ campaign \in [Campaign -> CampaignRow] /\ RowsOK
      /\ claims \in 0..MaxClaims /\ scan \in [Worker -> SUBSET Claimed]
      /\ mine \in [Worker -> Claimed \cup {NoClaim}] /\ tenant \in {"active", "suspended", "offboarding"}
  BY TypeParts
<1>2. /\ UNCHANGED <<now, tenant, campaign, claims, scan>>
      /\ mine' = [mine EXCEPT ![w] = NoClaim]
      /\ mine[w] # NoClaim
  BY DEF Process, Fail
<1>3. m \in Message
  BY <1>1, <1>2 DEF Claimed
<1>4. \/ UNCHANGED <<message, hold, job>>
      \/ \E status \in {"cancelled", "failed"} : CancelUnsent({m}, status)
      \/ \E status \in {"needs_review", "completed", "failed"} : SetJob(m, status)
      \/ job' = PutAside(m) /\ UNCHANGED <<message, hold>>
      \/ Settle({m}, "accepted")
  BY DEF Process, Fail, Settled
<1> HIDE DEF m
<1>5. ASSUME UNCHANGED <<message, hold, job>> PROVE RowsOK'
  BY <1>1, <1>5 DEF RowsOK
<1>6. ASSUME NEW status \in {"cancelled", "failed"}, CancelUnsent({m}, status) PROVE RowsOK'
  BY <1>1, <1>3, <1>6, CancelUnsentType DEF JobStatus
<1>7. ASSUME NEW status \in {"needs_review", "completed", "failed"}, SetJob(m, status) PROVE RowsOK'
  BY <1>1, <1>3, <1>7, SetJobType DEF JobStatus
<1>8. ASSUME job' = PutAside(m), UNCHANGED <<message, hold>> PROVE RowsOK'
  BY <1>1, <1>3, <1>8, PutAsideRows
<1>9. ASSUME Settle({m}, "accepted") PROVE RowsOK'
  BY <1>1, <1>3, <1>9, SettleType
<1>10. RowsOK'
  BY <1>4, <1>5, <1>6, <1>7, <1>8, <1>9
<1>11. mine' \in [Worker -> Claimed \cup {NoClaim}]
  BY <1>1, <1>2
<1> QED
  BY <1>1, <1>2, <1>10, <1>11, TypePartsNext

LEMMA RecoverType ==
  ASSUME TypeOK, NEW w \in Worker, NEW seen \in scan[w], Recover(w, seen)
  PROVE  TypeOK'
<1> DEFINE m == seen.message
<1>1. /\ now \in Time /\ campaign \in [Campaign -> CampaignRow] /\ RowsOK
      /\ claims \in 0..MaxClaims /\ scan \in [Worker -> SUBSET Claimed]
      /\ mine \in [Worker -> Claimed \cup {NoClaim}] /\ tenant \in {"active", "suspended", "offboarding"}
  BY TypeParts
<1>2. m \in Message
  BY <1>1 DEF Claimed
<1>3. /\ UNCHANGED <<now, tenant, campaign, claims, hold, mine>>
      /\ scan' = [scan EXCEPT ![w] = scan[w] \ {seen}]
  BY DEF Recover
<1>4. scan' \in [Worker -> SUBSET Claimed]
  BY <1>1, <1>3
<1>5. \/ UNCHANGED <<message, job>>
      \/ Become({m}, Recovered(m).status) /\ job' = [job EXCEPT ![m] = Stop(job[m], Recovered(m).job)]
  BY DEF Recover
<1> HIDE DEF m
<1>6. Recovered(m).status \in MessageStatus /\ Recovered(m).job \in JobStatus
  BY <1>1, <1>2 DEF Recovered, RowsOK, MessageStatus, JobStatus
<1>7. CASE UNCHANGED <<message, job>>
  BY <1>1, <1>3, <1>4, <1>7, TypePartsNext DEF RowsOK
<1>8. CASE Become({m}, Recovered(m).status) /\ job' = [job EXCEPT ![m] = Stop(job[m], Recovered(m).job)]
  <2>1. Stop(job[m], Recovered(m).job) \in JobRow
    BY <1>1, <1>2, <1>6, StopType DEF RowsOK
  <2>2. job' \in [Message -> JobRow]
    BY <1>1, <1>8, <2>1 DEF RowsOK
  <2>3. message' \in [Message -> MessageStatus]
    BY <1>1, <1>6, <1>8 DEF RowsOK, Become
  <2>4. RowsOK'
    BY <1>1, <1>3, <2>2, <2>3 DEF RowsOK
  <2> QED
    BY <1>1, <1>3, <1>4, <2>4, TypePartsNext
<1> QED
  BY <1>5, <1>7, <1>8

(* Pause, Cancel, Offboard and Reconcile change the status of some jobs.   *)
LEMMA StatusType ==
  ASSUME NEW j \in JobRow, NEW status \in JobStatus
  PROVE  [j EXCEPT !.status = status] \in JobRow
BY DEF JobRow

LEMMA TypeStep == TypeOK /\ [Next]_vars => TypeOK'
<1> SUFFICES ASSUME TypeOK, [Next]_vars PROVE TypeOK'
  OBVIOUS
<1>1. /\ now \in Time /\ tenant \in {"active", "suspended", "offboarding"}
      /\ campaign \in [Campaign -> CampaignRow] /\ RowsOK
      /\ claims \in 0..MaxClaims /\ scan \in [Worker -> SUBSET Claimed]
      /\ mine \in [Worker -> Claimed \cup {NoClaim}]
  BY TypeParts
<1>2. CASE UNCHANGED vars
  BY <1>1, <1>2, TypePartsNext DEF vars, rows, workers, RowsOK
<1>3. CASE Tick
  <2>1. now' \in Time
    BY <1>1, <1>3, DispatchConstants DEF Tick, Time
  <2> QED
    BY <1>1, <1>3, <2>1, TypePartsNext DEF Tick, rows, workers, RowsOK
<1>4. ASSUME NEW c \in Campaign, NEW start \in 0..MaxStart, CreateCampaign(c, start) PROVE TypeOK'
  <2>1. campaign' \in [Campaign -> CampaignRow]
    BY <1>1, <1>4 DEF CreateCampaign, CampaignRow
  <2> QED
    BY <1>1, <1>4, <2>1, TypePartsNext DEF CreateCampaign, workers, RowsOK
<1>5. ASSUME NEW c \in Campaign, Schedule(c) PROVE TypeOK'
  <2>1. campaign' \in [Campaign -> CampaignRow]
    BY <1>1, <1>5, CampaignType DEF Schedule
  <2>2. RowsOK'
    BY <1>1, <1>5, ScheduleRows
  <2> QED
    BY <1>1, <1>5, <2>1, <2>2, TypePartsNext DEF Schedule, workers
<1>6. ASSUME NEW c \in Campaign, Pause(c) PROVE TypeOK'
  <2>1. campaign' \in [Campaign -> CampaignRow]
    BY <1>1, <1>6, CampaignType DEF Pause
  <2>2. \A m \in Message : [job[m] EXCEPT !.status = "paused"] \in JobRow
    BY <1>1, StatusType DEF RowsOK, JobStatus
  <2>3. RowsOK'
    BY <1>1, <1>6, <2>2 DEF Pause, RowsOK
  <2> QED
    BY <1>1, <1>6, <2>1, <2>3, TypePartsNext DEF Pause, workers
<1>7. ASSUME NEW c \in Campaign, Resume(c) PROVE TypeOK'
  <2> DEFINE status == IF Planned(c) \ {m \in Planned(c) : Ends(m) <= now} # {} THEN "scheduled" ELSE "observing"
  <2>1. campaign' = [campaign EXCEPT ![c].status = status]
    BY <1>7 DEF Resume
  <2>2. status \in {"draft", "scheduled", "observing", "paused", "cancelled"}
    OBVIOUS
  <2> HIDE DEF status
  <2>3. campaign' \in [Campaign -> CampaignRow]
    BY <1>1, <2>1, <2>2, CampaignType
  <2>4. RowsOK'
    BY <1>1, <1>7, ResumeRows
  <2> QED
    BY <1>1, <1>7, <2>3, <2>4, TypePartsNext DEF Resume, workers
<1>8. ASSUME NEW c \in Campaign, Cancel(c) PROVE TypeOK'
  <2>1. campaign' \in [Campaign -> CampaignRow]
    BY <1>1, <1>8, CampaignType DEF Cancel
  <2>2. \A m \in Message : [job[m] EXCEPT !.status = "cancelled"] \in JobRow
    BY <1>1, StatusType DEF RowsOK, JobStatus
  <2>3. job' \in [Message -> JobRow]
    BY <1>1, <1>8, <2>2 DEF Cancel, RowsOK
  <2>4. message' \in [Message -> MessageStatus] /\ hold' \in [Message -> HoldStatus]
    BY <1>1, <1>8 DEF Cancel, Become, Released, RowsOK, MessageStatus, HoldStatus
  <2>5. RowsOK'
    BY <2>3, <2>4 DEF RowsOK
  <2> QED
    BY <1>1, <1>8, <2>1, <2>5, TypePartsNext DEF Cancel, workers
<1>9. ASSUME NEW c \in Campaign, NEW outcome \in {"accepted", "rejected", "unknown"}, Dispatch(c, outcome)
      PROVE  TypeOK'
  <2>1. campaign' \in [Campaign -> CampaignRow]
    BY <1>1, <1>9, CampaignType DEF Dispatch
  <2>2. Planned(c) \in SUBSET Message
    BY DEF Planned, Messages
  <2>3. RowsOK'
    BY <1>1, <1>9, <2>2, SettleType DEF Dispatch
  <2> QED
    BY <1>1, <1>9, <2>1, <2>3, TypePartsNext DEF Dispatch, workers
<1>10. ASSUME NEW m \in Message, NEW outcome \in {"accepted", "rejected"}, Reconcile(m, outcome) PROVE TypeOK'
  <2>1. Stop(job[m], "completed") \in JobRow
    BY <1>1, StopType DEF RowsOK, JobStatus
  <2>2. RowsOK'
    BY <1>1, <1>10, <2>1 DEF Reconcile, Become, HoldAfter, RowsOK, MessageStatus, HoldStatus
  <2> QED
    BY <1>1, <1>10, <2>2, TypePartsNext DEF Reconcile, workers
<1>11. ASSUME NEW status \in {"active", "suspended"}, SetStatus(status) PROVE TypeOK'
  <2>1. tenant' \in {"active", "suspended", "offboarding"}
    BY <1>11 DEF SetStatus
  <2> QED
    BY <1>1, <1>11, <2>1, TypePartsNext DEF SetStatus, rows, workers, RowsOK
<1>12. CASE Offboard
  <2>1. campaign' \in [Campaign -> CampaignRow]
    BY <1>1, <1>12 DEF Offboard, CampaignRow
  <2>2. \A m \in Message : Stop(job[m], "cancelled") \in JobRow
    BY <1>1, StopType DEF RowsOK, JobStatus
  <2>3. job' \in [Message -> JobRow]
    BY <1>1, <1>12, <2>2 DEF Offboard, RowsOK
  <2>4. message' \in [Message -> MessageStatus] /\ hold' \in [Message -> HoldStatus]
    BY <1>1, <1>12 DEF Offboard, Become, Released, RowsOK, MessageStatus, HoldStatus
  <2>5. RowsOK'
    BY <2>3, <2>4 DEF RowsOK
  <2>6. tenant' = "offboarding" /\ UNCHANGED <<now, claims, workers>>
    BY <1>12 DEF Offboard
  <2> QED
    BY <1>1, <2>1, <2>5, <2>6, TypePartsNext DEF workers
<1>13. ASSUME NEW w \in Worker, ReadExpired(w) PROVE TypeOK'
  <2> DEFINE found == {[message |-> m, token |-> job[m].token] : m \in {x \in Message : Expired(x)}}
  <2>1. scan' = [scan EXCEPT ![w] = found]
    BY <1>13 DEF ReadExpired
  <2>2. found \in SUBSET [message : Message, token : 0..MaxClaims]
    BY <1>1 DEF RowsOK, JobRow
  <2> QED
    BY <1>1, <1>13, <2>1, <2>2, TypePartsNext DEF ReadExpired, rows, RowsOK, Claimed
<1>14. ASSUME NEW w \in Worker, NEW seen \in scan[w], Recover(w, seen) PROVE TypeOK'
  BY <1>14, RecoverType
<1>15. ASSUME NEW w \in Worker, NEW m \in Message, Claim(w, m) PROVE TypeOK'
  BY <1>15, ClaimType
<1>16. ASSUME NEW w \in Worker, Process(w) \/ Fail(w) PROVE TypeOK'
  BY <1>16, EndType
<1>17. ASSUME NEW w \in Worker, Crash(w) PROVE TypeOK'
  <2>1. scan' \in [Worker -> SUBSET Claimed] /\ mine' \in [Worker -> Claimed \cup {NoClaim}]
    BY <1>1, <1>17 DEF Crash
  <2> QED
    BY <1>1, <1>17, <2>1, TypePartsNext DEF Crash, rows, RowsOK
<1>18. CASE Sweep
  <2>1. Late \in SUBSET Message
    BY DEF Late
  <2>2. RowsOK'
    BY <1>1, <1>18, <2>1, CancelUnsentType DEF Sweep, JobStatus
  <2> QED
    BY <1>1, <1>18, <2>2, TypePartsNext DEF Sweep, workers
<1> QED
  BY <1>2, <1>3, <1>4, <1>5, <1>6, <1>7, <1>8, <1>9, <1>10, <1>11, <1>12, <1>13, <1>14, <1>15, <1>16,
     <1>17, <1>18 DEF Next

(* Every row keeps its type, whatever workers, customers and the platform  *)
(* do (models.py: Campaign, MessagePlan, Reservation, Job).                *)
THEOREM MailTypeCorrect == Spec => []TypeOK
BY InitType, TypeStep, PTL DEF Spec

-----------------------------------------------------------------------------
(***************************************************************************)
(* What the rows of one message say of each other, whatever happens.  The  *)
(* invariants of the runs follow from it; that a draft has no mail yet and *)
(* that a claimed job counts exactly one attempt makes it inductive.       *)
(***************************************************************************)
Agrees(state, status, held, ran, attempts) ==
  /\ state \in {"none", "draft"} => status = "none"
  /\ status = "none" => held = "none" /\ ran = "none"
  /\ status \in {"planned", "unknown"} => held = "reserved"
  /\ status = "accepted" => held = "consumed"
  /\ status \in {"rejected", "cancelled"} => held = "released"
  /\ status = "planned" => ran \in {"queued", "paused", "running"}
  /\ status = "unknown" => ran = "needs_review"
  /\ ran = "queued" => status = "planned" /\ state \in {"scheduled", "observing"}
  /\ ran = "paused" => status = "planned" /\ state = "paused"
  /\ ran \in {"queued", "paused"} => attempts = 0
  /\ ran = "running" => attempts = 1

Agree(m) == Agrees(State(m), message[m], hold[m], job[m].status, job[m].attempts)

Inv == TypeOK /\ \A m \in Message : Agree(m)

LEMMA InvHolds ==
  Inv => HoldFollowsMessage /\ JobFollowsMessage /\ PausesCostNoAttempt
<1> SUFFICES ASSUME Inv PROVE HoldFollowsMessage /\ JobFollowsMessage /\ PausesCostNoAttempt
  OBVIOUS
<1>1. \A m \in Message : Agree(m) /\ message[m] \in MessageStatus
  BY TypeParts DEF Inv, RowsOK
<1>2. HoldFollowsMessage
  BY <1>1 DEF HoldFollowsMessage, HoldOf, Agree, Agrees, MessageStatus
<1>3. JobFollowsMessage
  BY <1>1 DEF JobFollowsMessage, Agree, Agrees, Running, State
<1>4. PausesCostNoAttempt
  BY <1>1 DEF PausesCostNoAttempt, Agree, Agrees
<1> QED
  BY <1>2, <1>3, <1>4

LEMMA InitInv == Init => Inv
<1> SUFFICES ASSUME Init PROVE Inv
  OBVIOUS
<1>1. ASSUME NEW m \in Message PROVE Agree(m)
  BY DispatchConstants DEF Init, Agree, Agrees, State, NoJob
<1> QED
  BY <1>1, InitType DEF Inv

(* Rows that an action leaves alone still agree.                           *)
LEMMA SameAgree ==
  ASSUME NEW m \in Message, Agree(m), State(m)' = State(m),
         message'[m] = message[m], hold'[m] = hold[m], job'[m] = job[m]
  PROVE  Agree(m)'
BY DEF Agree

LEMMA CancelUnsentAgree ==
  ASSUME RowsOK, NEW ms \in SUBSET Message, \A m \in ms : message[m] = "planned",
         NEW status \in {"cancelled", "failed", "dead_letter"}, CancelUnsent(ms, status),
         UNCHANGED campaign, NEW m \in Message, Agree(m)
  PROVE  Agree(m)'
<1>1. State(m)' = State(m)
  BY DEF State
<1>2. CASE m \in ms
  <2>1. message[m] = "planned" /\ hold[m] = "reserved" /\ job[m].status \in {"queued", "paused", "running"}
    BY <1>2 DEF Agree, Agrees
  <2>2. job'[m] = Stop(job[m], status)
    BY <1>2, <2>1 DEF CancelUnsent
  <2>3. job'[m].status = status
    BY <2>2, StopType DEF RowsOK, JobStatus
  <2>4. message'[m] = "cancelled" /\ hold'[m] = "released"
    BY <1>2, <2>1 DEF CancelUnsent, Become, Released
  <2>5. State(m) \notin {"none", "draft"}
    BY <2>1 DEF Agree, Agrees
  <2> QED
    BY <1>1, <2>3, <2>4, <2>5 DEF Agree, Agrees
<1>3. CASE m \notin ms
  <2>1. message'[m] = message[m] /\ hold'[m] = hold[m] /\ job'[m] = job[m]
    BY <1>3 DEF CancelUnsent, Become, Released
  <2> QED
    BY <1>1, <2>1, SameAgree
<1> QED
  BY <1>2, <1>3

(* Sending: the messages were planned.                                     *)
LEMMA SettleAgree ==
  ASSUME RowsOK, NEW ms \in SUBSET Message, \A m \in ms : message[m] = "planned",
         NEW outcome \in {"accepted", "rejected", "unknown"}, Settle(ms, outcome),
         NEW m \in Message, Agree(m),
         State(m)' = State(m) \/ {State(m), State(m)'} \subseteq {"scheduled", "observing"}
  PROVE  Agree(m)'
<1>1. CASE m \in ms
  <2> DEFINE ending == IF outcome = "unknown" THEN "needs_review" ELSE "completed"
  <2>1. message[m] = "planned" /\ hold[m] = "reserved" /\ State(m) \notin {"none", "draft"}
    BY <1>1 DEF Agree, Agrees
  <2>2. job'[m] = Stop(job[m], ending)
    BY <1>1 DEF Settle
  <2>3. job'[m].status = ending
    BY <2>2, StopType DEF RowsOK, JobStatus
  <2>4. message'[m] = outcome
    BY <1>1 DEF Settle, Become
  <2>5. hold'[m] = HoldAfter(outcome, m)
    BY <1>1 DEF Settle
  <2> QED
    BY <2>1, <2>3, <2>4, <2>5 DEF Agree, Agrees, HoldAfter
<1>2. CASE m \notin ms
  <2>1. message'[m] = message[m] /\ hold'[m] = hold[m] /\ job'[m] = job[m]
    BY <1>2 DEF Settle, Become
  <2> QED
    BY <2>1 DEF Agree, Agrees
<1> QED
  BY <1>1, <1>2

(* A job that is not to be sent: it no longer waits for a worker.          *)
LEMMA SetJobAgree ==
  ASSUME RowsOK, NEW n \in Message, message[n] \notin {"none", "planned", "unknown"},
         NEW status \in {"completed", "failed"}, SetJob(n, status),
         UNCHANGED campaign, NEW m \in Message, Agree(m)
  PROVE  Agree(m)'
<1>1. State(m)' = State(m) /\ message'[m] = message[m] /\ hold'[m] = hold[m]
  BY DEF State, SetJob
<1>2. CASE m = n
  <2>1. job'[m] = Stop(job[m], status)
    BY <1>2 DEF SetJob, RowsOK
  <2>2. job'[m].status = status
    BY <2>1, StopType DEF RowsOK, JobStatus
  <2> QED
    BY <1>1, <1>2, <2>2 DEF Agree, Agrees
<1>3. CASE m # n
  <2>1. job'[m] = job[m]
    BY <1>3 DEF SetJob, RowsOK
  <2> QED
    BY <1>1, <2>1, SameAgree
<1> QED
  BY <1>2, <1>3

(* The customer's actions.                                                 *)
LEMMA StateChange ==
  ASSUME TypeOK, NEW c \in Campaign, NEW m \in Message,
         NEW status \in {"draft", "scheduled", "observing", "paused", "cancelled"},
         campaign' = [campaign EXCEPT ![c].status = status]
  PROVE  State(m)' = IF CampaignOf[m] = c THEN status ELSE State(m)
<1>1. CampaignOf[m] \in Campaign /\ campaign \in [Campaign -> CampaignRow]
  BY DispatchConstants, TypeParts
<1>2. campaign'[CampaignOf[m]].status = IF CampaignOf[m] = c THEN status ELSE campaign[CampaignOf[m]].status
  BY <1>1 DEF CampaignRow
<1> QED
  BY <1>2 DEF State

LEMMA ScheduleAgree ==
  ASSUME Inv, NEW c \in Campaign, Schedule(c), NEW m \in Message
  PROVE  Agree(m)'
<1>1. Agree(m) /\ State(m)' = IF CampaignOf[m] = c THEN "scheduled" ELSE State(m)
  BY StateChange DEF Inv, Schedule
<1>2. CASE CampaignOf[m] = c
  <2> DEFINE fresh == [NoJob EXCEPT !.status = "queued", !.due = campaign[c].start]
  <2>1. m \in Messages(c)
    BY <1>2 DEF Messages
  <2>2. fresh.status = "queued" /\ fresh.attempts = 0
    BY DEF NoJob
  <2>3. job'[m] = fresh
    BY <2>1 DEF Schedule
  <2>4. message'[m] = "planned" /\ hold'[m] = "reserved"
    BY <2>1 DEF Schedule, Become
  <2> HIDE DEF fresh
  <2> QED
    BY <1>1, <1>2, <2>2, <2>3, <2>4 DEF Agree, Agrees
<1>3. CASE CampaignOf[m] # c
  <2>1. message'[m] = message[m] /\ hold'[m] = hold[m] /\ job'[m] = job[m]
    BY <1>3 DEF Schedule, Become, Messages
  <2> QED
    BY <1>1, <1>3, <2>1, SameAgree
<1> QED
  BY <1>2, <1>3

LEMMA PauseAgree ==
  ASSUME Inv, NEW c \in Campaign, Pause(c), NEW m \in Message
  PROVE  Agree(m)'
<1>1. /\ Agree(m) /\ State(m)' = IF CampaignOf[m] = c THEN "paused" ELSE State(m)
      /\ message'[m] = message[m] /\ hold'[m] = hold[m] /\ job[m] \in JobRow
  BY StateChange, TypeParts DEF Inv, Pause, RowsOK
<1>2. CASE CampaignOf[m] # c
  <2>1. job'[m] = job[m]
    BY <1>2 DEF Pause, Pausable, Messages
  <2> QED
    BY <1>1, <1>2, <2>1, SameAgree
<1>3. CASE CampaignOf[m] = c /\ job[m].status = "queued"
  <2>1. job'[m] = [job[m] EXCEPT !.status = "paused"]
    BY <1>3 DEF Pause, Pausable, Messages
  <2>2. job'[m].status = "paused" /\ job'[m].attempts = job[m].attempts
    BY <1>1, <2>1 DEF JobRow
  <2> QED
    BY <1>1, <1>3, <2>2 DEF Agree, Agrees
<1>4. CASE CampaignOf[m] = c /\ job[m].status # "queued"
  <2>1. job'[m] = job[m]
    BY <1>4 DEF Pause, Pausable, Messages
  <2>2. State(m) \in {"scheduled", "observing"}
    BY <1>4 DEF Pause, Running, State
  <2> QED
    BY <1>1, <1>4, <2>1, <2>2 DEF Agree, Agrees
<1> QED
  BY <1>2, <1>3, <1>4

LEMMA ResumeAgree ==
  ASSUME Inv, NEW c \in Campaign, Resume(c), NEW m \in Message
  PROVE  Agree(m)'
<1> DEFINE lapsed == {n \in Planned(c) : Ends(n) <= now}
<1> DEFINE status == IF Planned(c) \ lapsed # {} THEN "scheduled" ELSE "observing"
<1> DEFINE again == IF m \in lapsed THEN "cancelled" ELSE "queued"
<1> DEFINE due == Later(campaign[c].start, now)
<1>1. campaign' = [campaign EXCEPT ![c].status = status]
  BY DEF Resume
<1>2. status \in {"scheduled", "observing"}
  OBVIOUS
<1>3. /\ Become(lapsed, "cancelled") /\ hold' = Released(lapsed)
      /\ job'[m] = IF m \in Planned(c) /\ job[m].status = "paused"
                   THEN [job[m] EXCEPT !.status = again, !.due = due]
                   ELSE job[m]
  BY DEF Resume
<1>4. again = IF m \in lapsed THEN "cancelled" ELSE "queued"
  OBVIOUS
<1>5. \A n \in lapsed : n \in Planned(c)
  OBVIOUS
<1> HIDE DEF lapsed, status, again, due
<1>6. State(m)' = IF CampaignOf[m] = c THEN status ELSE State(m)
  BY <1>1, <1>2, StateChange DEF Inv
<1>7. Agree(m) /\ job[m] \in JobRow
  BY TypeParts DEF Inv, RowsOK
<1>8. CASE m \in Planned(c)
  <2>1. CampaignOf[m] = c /\ message[m] = "planned" /\ State(m) = "paused"
    BY <1>8 DEF Planned, Messages, Resume, State
  <2>2. hold[m] = "reserved" /\ job[m].status \in {"paused", "running"}
    BY <1>7, <2>1 DEF Agree, Agrees
  <2>3. CASE job[m].status = "paused"
    <3>1. job'[m] = [job[m] EXCEPT !.status = again, !.due = due]
      BY <1>3, <1>8, <2>3
    <3>2. job'[m].status = again /\ job'[m].attempts = job[m].attempts
      BY <1>7, <3>1 DEF JobRow
    <3>3. job[m].attempts = 0
      BY <1>7, <2>3 DEF Agree, Agrees
    <3>4. /\ message'[m] = IF m \in lapsed THEN "cancelled" ELSE "planned"
          /\ hold'[m] = IF m \in lapsed THEN "released" ELSE "reserved"
      BY <1>3, <2>1, <2>2 DEF Become, Released
    <3> QED
      BY <1>2, <1>4, <1>6, <2>1, <3>2, <3>3, <3>4 DEF Agree, Agrees
  <2>4. CASE job[m].status = "running"
    <3>1. job'[m] = job[m]
      BY <1>3, <2>4
    <3>2. /\ message'[m] = IF m \in lapsed THEN "cancelled" ELSE "planned"
          /\ hold'[m] = IF m \in lapsed THEN "released" ELSE "reserved"
      BY <1>3, <2>1, <2>2 DEF Become, Released
    <3> QED
      BY <1>2, <1>6, <1>7, <2>1, <2>4, <3>1, <3>2 DEF Agree, Agrees
  <2> QED
    BY <2>2, <2>3, <2>4
<1>9. CASE m \notin Planned(c)
  <2>1. message'[m] = message[m] /\ hold'[m] = hold[m] /\ job'[m] = job[m]
    BY <1>3, <1>5, <1>9 DEF Become, Released
  <2>2. CampaignOf[m] = c => State(m) = "paused" /\ message[m] # "planned"
    BY <1>9 DEF Planned, Messages, Resume, State
  <2> QED
    BY <1>2, <1>6, <1>7, <2>1, <2>2 DEF Agree, Agrees
<1> QED
  BY <1>8, <1>9

LEMMA CancelAgree ==
  ASSUME Inv, NEW c \in Campaign, Cancel(c), NEW m \in Message
  PROVE  Agree(m)'
<1>1. /\ Agree(m) /\ State(m)' = IF CampaignOf[m] = c THEN "cancelled" ELSE State(m)
      /\ job[m] \in JobRow
  BY StateChange, TypeParts DEF Inv, Cancel, RowsOK
<1>2. CASE m \in Planned(c)
  <2>1. CampaignOf[m] = c /\ message[m] = "planned" /\ hold[m] = "reserved"
    BY <1>1, <1>2 DEF Planned, Messages, Agree, Agrees
  <2>2. job'[m] = [job[m] EXCEPT !.status = "cancelled"]
    BY <1>2 DEF Cancel
  <2>3. job'[m].status = "cancelled"
    BY <1>1, <2>2 DEF JobRow
  <2>4. message'[m] = "cancelled" /\ hold'[m] = "released"
    BY <1>2, <2>1 DEF Cancel, Become, Released
  <2> QED
    BY <1>1, <2>1, <2>3, <2>4 DEF Agree, Agrees
<1>3. CASE m \notin Planned(c)
  <2>1. message'[m] = message[m] /\ hold'[m] = hold[m] /\ job'[m] = job[m]
    BY <1>3 DEF Cancel, Become, Released
  <2>2. CampaignOf[m] = c => message[m] # "planned"
    BY <1>3 DEF Planned, Messages
  <2> QED
    BY <1>1, <2>1, <2>2 DEF Agree, Agrees
<1> QED
  BY <1>2, <1>3

LEMMA DispatchAgree ==
  ASSUME Inv, NEW c \in Campaign, NEW outcome \in {"accepted", "rejected", "unknown"}, Dispatch(c, outcome),
         NEW m \in Message
  PROVE  Agree(m)'
<1>1. State(m)' = IF CampaignOf[m] = c THEN "observing" ELSE State(m)
  BY StateChange DEF Inv, Dispatch
<1>2. CampaignOf[m] = c => State(m) \in {"scheduled", "observing"}
  BY DEF Dispatch, Running, State
<1>3. RowsOK /\ Agree(m) /\ Settle(Planned(c), outcome)
  BY TypeParts DEF Inv, Dispatch
<1>4. Planned(c) \in SUBSET Message /\ \A n \in Planned(c) : message[n] = "planned"
  BY DEF Planned, Messages
<1>5. State(m)' = State(m) \/ {State(m), State(m)'} \subseteq {"scheduled", "observing"}
  BY <1>1, <1>2
<1> QED
  BY ONLY <1>3, <1>4, <1>5, SettleAgree, m \in Message, outcome \in {"accepted", "rejected", "unknown"}

LEMMA CreateAgree ==
  ASSUME Inv, NEW c \in Campaign, NEW start \in 0..MaxStart, CreateCampaign(c, start), NEW m \in Message
  PROVE  Agree(m)'
<1>1. campaign \in [Campaign -> CampaignRow] /\ CampaignOf[m] \in Campaign
  BY DispatchConstants, TypeParts DEF Inv
<1>2. State(m)' = IF CampaignOf[m] = c THEN "draft" ELSE State(m)
  BY <1>1 DEF CreateCampaign, State
<1>3. CampaignOf[m] = c => State(m) = "none"
  BY DEF CreateCampaign, State
<1>4. message'[m] = message[m] /\ hold'[m] = hold[m] /\ job'[m] = job[m]
  BY DEF CreateCampaign
<1> QED
  BY <1>2, <1>3, <1>4 DEF Inv, Agree, Agrees

LEMMA ReconcileAgree ==
  ASSUME Inv, NEW n \in Message, NEW outcome \in {"accepted", "rejected"}, Reconcile(n, outcome),
         NEW m \in Message
  PROVE  Agree(m)'
<1>1. Agree(m) /\ State(m)' = State(m) /\ RowsOK
  BY TypeParts DEF Inv, Reconcile, State
<1>2. CASE m = n
  <2>1. job'[m] = Stop(job[m], "completed")
    BY <1>1, <1>2 DEF Reconcile, RowsOK
  <2>2. job'[m].status = "completed"
    BY <1>1, <2>1, StopType DEF RowsOK, JobStatus
  <2>3. message'[m] = outcome /\ hold'[m] = HoldAfter(outcome, m) /\ message[m] = "unknown"
    BY <1>1, <1>2 DEF Reconcile, Become, RowsOK
  <2> QED
    BY <1>1, <2>2, <2>3 DEF Agree, Agrees, HoldAfter
<1>3. CASE m # n
  <2>1. message'[m] = message[m] /\ hold'[m] = hold[m] /\ job'[m] = job[m]
    BY <1>1, <1>3 DEF Reconcile, Become, RowsOK
  <2> QED
    BY <1>1, <2>1, SameAgree
<1> QED
  BY <1>2, <1>3

LEMMA OffboardAgree ==
  ASSUME Inv, Offboard, NEW m \in Message
  PROVE  Agree(m)'
<1>1. /\ Agree(m) /\ job[m] \in JobRow /\ message[m] \in MessageStatus
      /\ campaign \in [Campaign -> CampaignRow] /\ CampaignOf[m] \in Campaign
  BY DispatchConstants, TypeParts DEF Inv, RowsOK
<1>2. State(m)' = IF State(m) = "none" THEN "none" ELSE "cancelled"
  BY <1>1 DEF Offboard, State, CampaignRow
<1>3. job[m].status # "running" /\ message[m] # "unknown"
  BY DEF Offboard
<1>4. job'[m] = IF job[m].status \in {"queued", "paused"} THEN Stop(job[m], "cancelled") ELSE job[m]
  BY DEF Offboard
<1>5. job'[m].status = IF job[m].status \in {"queued", "paused"} THEN "cancelled" ELSE job[m].status
  BY <1>1, <1>4, StopType DEF JobStatus
<1>6. CASE message[m] = "planned"
  <2>1. message'[m] = "cancelled"
    BY <1>6 DEF Offboard, Become
  <2>2. hold'[m] = "released"
    BY <1>1, <1>6 DEF Offboard, Released, Agree, Agrees
  <2> QED
    BY <1>1, <1>2, <1>3, <1>5, <1>6, <2>1, <2>2 DEF Agree, Agrees
<1>7. CASE message[m] # "planned"
  <2>1. message'[m] = message[m] /\ hold'[m] = hold[m]
    BY <1>7 DEF Offboard, Become, Released
  <2> QED
    BY <1>1, <1>2, <1>3, <1>5, <1>7, <2>1 DEF Agree, Agrees
<1> QED
  BY <1>6, <1>7

(* The worker's actions.                                                   *)
LEMMA RecoverAgree ==
  ASSUME Inv, NEW w \in Worker, NEW seen \in scan[w], Recover(w, seen), NEW m \in Message
  PROVE  Agree(m)'
<1>1. /\ Agree(m) /\ State(m)' = State(m) /\ RowsOK /\ hold'[m] = hold[m]
      /\ seen.message \in Message
  BY TypeParts DEF Inv, Recover, State, Claimed
<1>2. CASE Expired(seen.message) /\ m = seen.message /\ ~UNCHANGED <<message, job>>
  <2>1. job[m].status = "running"
    BY <1>2 DEF Expired
  <2>2. message'[m] = Recovered(m).status /\ job'[m] = Stop(job[m], Recovered(m).job)
    BY <1>1, <1>2 DEF Recover, Become, RowsOK
  <2>3. Recovered(m).job \in JobStatus
    BY DEF Recovered, JobStatus
  <2>4. job'[m].status = Recovered(m).job
    BY <1>1, <2>2, <2>3, StopType DEF RowsOK
  <2> QED
    BY <1>1, <2>1, <2>2, <2>4 DEF Agree, Agrees, Recovered
<1>3. CASE ~(Expired(seen.message) /\ m = seen.message /\ ~UNCHANGED <<message, job>>)
  <2>1. message'[m] = message[m] /\ job'[m] = job[m]
    BY <1>1, <1>3 DEF Recover, Become, RowsOK
  <2> QED
    BY <1>1, <2>1, SameAgree
<1> QED
  BY <1>2, <1>3

(* A queued job belongs to a planned message of a running campaign, and it *)
(* has all its attempts, so a claim either runs it or cancels its message. *)
LEMMA ClaimAgree ==
  ASSUME Inv, NEW w \in Worker, NEW n \in Message, Claim(w, n), NEW m \in Message
  PROVE  Agree(m)'
<1>1. Agree(m) /\ Agree(n) /\ State(m)' = State(m) /\ RowsOK /\ UNCHANGED campaign
  BY TypeParts DEF Inv, Claim, State
<1>2. message[n] = "planned" /\ job[n].attempts = 0 /\ ~Suspended(n)
  BY <1>1 DEF Claim, Agree, Agrees, Suspended
<1>3. CASE tenant = "active" /\ Sendable(n) /\ job[n].attempts < RetryLimit
  <2>1. /\ job' = [job EXCEPT ![n] = [status |-> "running", token |-> claims + 1, lease |-> now + Lease,
                                       due |-> job[n].due, attempts |-> job[n].attempts + 1]]
        /\ message'[m] = message[m] /\ hold'[m] = hold[m]
    BY <1>3 DEF Claim
  <2>2. CASE m = n
    <3>1. job'[m].status = "running" /\ job'[m].attempts = 1
      BY <1>1, <1>2, <2>1, <2>2 DEF RowsOK
    <3> QED
      BY <1>1, <1>2, <2>1, <2>2, <3>1 DEF Agree, Agrees
  <2>3. CASE m # n
    <3>1. job'[m] = job[m]
      BY <1>1, <2>1, <2>3 DEF RowsOK
    <3> QED
      BY <1>1, <2>1, <3>1, SameAgree
  <2> QED
    BY <2>2, <2>3
<1>4. CASE ~(tenant = "active" /\ Sendable(n) /\ job[n].attempts < RetryLimit)
  <2>1. PICK status \in {"cancelled", "dead_letter"} : CancelUnsent({n}, status)
    BY <1>2, <1>4 DEF Claim
  <2> QED
    BY <1>1, <1>2, <2>1, CancelUnsentAgree
<1> QED
  BY <1>3, <1>4

LEMMA PutAsideAgree ==
  ASSUME Inv, NEW n \in Message, message[n] = "planned", job[n].status = "running", State(n) = "paused",
         job' = PutAside(n), UNCHANGED <<message, hold, campaign>>, NEW m \in Message
  PROVE  Agree(m)'
<1>1. Agree(m) /\ State(m)' = State(m) /\ RowsOK /\ message'[m] = message[m] /\ hold'[m] = hold[m]
  BY TypeParts DEF Inv, State
<1>2. CASE m = n
  <2> DEFINE stopped == Stop(job[m], "paused")
  <2> DEFINE attempts == Later(job[m].attempts - 1, 0)
  <2>1. job'[m] = [stopped EXCEPT !.attempts = attempts]
    BY <1>1, <1>2 DEF PutAside, RowsOK
  <2>2. stopped \in JobRow /\ stopped.status = "paused"
    BY <1>1, StopType DEF RowsOK, JobStatus
  <2>3. job[m].attempts = 1
    BY <1>1, <1>2 DEF Agree, Agrees
  <2>4. attempts = 0
    BY <2>3 DEF Later
  <2> HIDE DEF stopped, attempts
  <2>5. job'[m].status = "paused" /\ job'[m].attempts = 0
    BY <2>1, <2>2, <2>4 DEF JobRow
  <2> QED
    BY <1>1, <1>2, <2>5 DEF Agree, Agrees
<1>3. CASE m # n
  <2>1. job'[m] = job[m]
    BY <1>1, <1>3 DEF PutAside, RowsOK
  <2> QED
    BY <1>1, <2>1, SameAgree
<1> QED
  BY <1>2, <1>3

LEMMA EndAgree ==
  ASSUME Inv, NEW w \in Worker, Process(w) \/ Fail(w), NEW m \in Message
  PROVE  Agree(m)'
<1> DEFINE n == mine[w].message
<1>1. /\ Agree(m) /\ State(m)' = State(m) /\ RowsOK /\ UNCHANGED campaign
      /\ mine \in [Worker -> Claimed \cup {NoClaim}] /\ mine[w] # NoClaim
  BY TypeParts DEF Inv, Process, Fail, State
<1>2. n \in Message
  BY <1>1 DEF Claimed
<1>3. Agree(n)
  BY <1>2 DEF Inv
<1>4. CASE ~Current(mine[w])
  <2>1. message'[m] = message[m] /\ hold'[m] = hold[m] /\ job'[m] = job[m]
    BY <1>4 DEF Process, Fail
  <2> QED
    BY <1>1, <2>1, SameAgree
<1>5. CASE Current(mine[w])
  <2>1. job[n].status = "running" /\ message[n] \notin {"none", "unknown"}
    BY <1>3, <1>5 DEF Current, Agree, Agrees
  <2>2. \/ \E status \in {"cancelled", "failed"} : CancelUnsent({n}, status) /\ message[n] = "planned"
        \/ \E status \in {"completed", "failed"} : SetJob(n, status) /\ message[n] # "planned"
        \/ /\ job' = PutAside(n) /\ UNCHANGED <<message, hold>>
           /\ State(n) = "paused" /\ message[n] = "planned"
        \/ Settle({n}, "accepted") /\ message[n] = "planned"
    BY <1>5, <2>1 DEF Process, Fail, Settled, Suspended, Lapsed
  <2> HIDE DEF n
  <2>3. ASSUME NEW status \in {"cancelled", "failed"}, CancelUnsent({n}, status), message[n] = "planned"
        PROVE  Agree(m)'
    BY <1>1, <1>2, <2>3, CancelUnsentAgree
  <2>4. ASSUME NEW status \in {"completed", "failed"}, SetJob(n, status), message[n] # "planned"
        PROVE  Agree(m)'
    BY <1>1, <1>2, <2>1, <2>4, SetJobAgree
  <2>5. ASSUME job' = PutAside(n), UNCHANGED <<message, hold>>, State(n) = "paused", message[n] = "planned"
        PROVE  Agree(m)'
    BY <1>1, <1>2, <2>1, <2>5, PutAsideAgree
  <2>6. ASSUME Settle({n}, "accepted"), message[n] = "planned" PROVE Agree(m)'
    BY <1>1, <1>2, <2>6, SettleAgree
  <2> QED
    BY <2>2, <2>3, <2>4, <2>5, <2>6
<1> QED
  BY <1>4, <1>5

LEMMA InvStep == Inv /\ [Next]_vars => Inv'
<1> SUFFICES ASSUME Inv, [Next]_vars PROVE Inv'
  OBVIOUS
<1>1. TypeOK'
  BY TypeStep DEF Inv
<1>2. ASSUME NEW m \in Message PROVE Agree(m)'
  <2>1. Agree(m)
    BY DEF Inv
  <2>2. CASE UNCHANGED <<campaign, rows>>
    BY <2>1, <2>2, SameAgree DEF rows, State
  <2>3. ASSUME NEW c \in Campaign, NEW start \in 0..MaxStart, CreateCampaign(c, start) PROVE Agree(m)'
    BY <2>3, CreateAgree
  <2>4. ASSUME NEW c \in Campaign, Schedule(c) PROVE Agree(m)'
    BY <2>4, ScheduleAgree
  <2>5. ASSUME NEW c \in Campaign, Pause(c) PROVE Agree(m)'
    BY <2>5, PauseAgree
  <2>6. ASSUME NEW c \in Campaign, Resume(c) PROVE Agree(m)'
    BY <2>6, ResumeAgree
  <2>7. ASSUME NEW c \in Campaign, Cancel(c) PROVE Agree(m)'
    BY <2>7, CancelAgree
  <2>8. ASSUME NEW c \in Campaign, NEW outcome \in {"accepted", "rejected", "unknown"}, Dispatch(c, outcome)
        PROVE  Agree(m)'
    BY <2>8, DispatchAgree
  <2>9. ASSUME NEW n \in Message, NEW outcome \in {"accepted", "rejected"}, Reconcile(n, outcome) PROVE Agree(m)'
    BY <2>9, ReconcileAgree
  <2>10. CASE Offboard
    BY <2>10, OffboardAgree
  <2>11. ASSUME NEW w \in Worker, NEW seen \in scan[w], Recover(w, seen) PROVE Agree(m)'
    BY <2>11, RecoverAgree
  <2>12. ASSUME NEW w \in Worker, NEW n \in Message, Claim(w, n) PROVE Agree(m)'
    BY <2>12, ClaimAgree
  <2>13. ASSUME NEW w \in Worker, Process(w) \/ Fail(w) PROVE Agree(m)'
    BY <2>13, EndAgree
  <2>14. CASE Sweep
    <3>1. /\ Late \in SUBSET Message /\ \A n \in Late : message[n] = "planned"
          /\ CancelUnsent(Late, "cancelled") /\ UNCHANGED campaign /\ RowsOK
      BY <2>14, TypeParts DEF Inv, Late, Sweep
    <3> QED
      BY <2>1, <3>1, CancelUnsentAgree
  <2>15. \/ UNCHANGED <<campaign, rows>>
         \/ \E c \in Campaign, start \in 0..MaxStart : CreateCampaign(c, start)
         \/ \E c \in Campaign : Schedule(c) \/ Pause(c) \/ Resume(c) \/ Cancel(c)
         \/ \E c \in Campaign, outcome \in {"accepted", "rejected", "unknown"} : Dispatch(c, outcome)
         \/ \E n \in Message, outcome \in {"accepted", "rejected"} : Reconcile(n, outcome)
         \/ Offboard
         \/ \E w \in Worker : \E seen \in scan[w] : Recover(w, seen)
         \/ \E w \in Worker, n \in Message : Claim(w, n)
         \/ \E w \in Worker : Process(w) \/ Fail(w)
         \/ Sweep
    <3>1. UNCHANGED vars \/ Tick \/ (\E status \in {"active", "suspended"} : SetStatus(status))
          \/ (\E w \in Worker : ReadExpired(w) \/ Crash(w)) => UNCHANGED <<campaign, rows>>
      BY DEF vars, rows, Tick, SetStatus, ReadExpired, Crash
    <3> QED
      BY <3>1 DEF Next
  <2> QED
    BY <2>2, <2>3, <2>4, <2>5, <2>6, <2>7, <2>8, <2>9, <2>10, <2>11, <2>12, <2>13, <2>14, <2>15
<1> QED
  BY <1>1, <1>2 DEF Inv

THEOREM InvAlways == Spec => []Inv
BY InitInv, InvStep, PTL DEF Spec

(* The customer pays for a message exactly when the provider accepted it,  *)
(* for any number of messages, workers, crashes and pauses (worker.py and  *)
(* campaign_routes.py write the message, wallet.py the reservation).       *)
THEOREM PaidExactlyWhenAccepted == Spec => []HoldFollowsMessage
BY InvAlways, InvHolds, PTL

(* Planned mail always has a job that can still reach a worker, and mail   *)
(* that was perhaps sent has none (worker.py, _recover_expired and         *)
(* claim_job).                                                             *)
THEOREM JobAlwaysFollowsMessage == Spec => []JobFollowsMessage
BY InvAlways, InvHolds, PTL

(* A waiting message has all its attempts: no number of pauses brings it   *)
(* nearer to the retry limit (worker.py, process_once).                    *)
THEOREM PausesNeverCostAnAttempt == Spec => []PausesCostNoAttempt
BY InvAlways, InvHolds, PTL

-----------------------------------------------------------------------------
(***************************************************************************)
(* What a step can do to the rows of one message: nothing; send or cancel  *)
(* a planned one; plan a new one; change only its job, which was not       *)
(* ended; or decide an unknown one.                                        *)
(***************************************************************************)
Touched(m) ==
  \/ message'[m] = message[m] /\ job'[m] = job[m]
  \/ message[m] \in {"none", "planned"} /\ job[m].status \in {"none", "queued", "paused", "running"}
  \/ message'[m] = message[m] /\ job[m].status \in {"queued", "paused", "running"}
  \/ message[m] = "unknown" /\ message'[m] \in {"accepted", "rejected"} /\ job'[m].status = "completed"
     /\ job[m].status = "needs_review"

LEMMA TouchedStep ==
  ASSUME Inv, [Next]_vars, NEW m \in Message
  PROVE  Touched(m)
<1>1. Agree(m) /\ RowsOK
  BY TypeParts DEF Inv
<1>2. CASE message[m] \in {"none", "planned"}
  BY <1>1, <1>2 DEF Touched, Agree, Agrees
<1>3. CASE message[m] \notin {"none", "planned"} /\ UNCHANGED <<message, job>>
  BY <1>3 DEF Touched
<1>4. CASE message[m] \notin {"none", "planned"} /\ ~UNCHANGED <<message, job>>
  <2>1. ASSUME NEW c \in Campaign, Schedule(c) PROVE Touched(m)
    <3>1. CampaignOf[m] # c
      BY <1>1, <1>4, <2>1 DEF Schedule, Agree, Agrees, State
    <3> QED
      BY <2>1, <3>1 DEF Schedule, Become, Messages, Touched
  <2>2. ASSUME NEW c \in Campaign, Pause(c) PROVE Touched(m)
    BY <2>2 DEF Pause, Pausable, Touched
  <2>3. ASSUME NEW c \in Campaign, Resume(c) PROVE Touched(m)
    BY <1>4, <2>3 DEF Resume, Become, Planned, Touched
  <2>4. ASSUME NEW c \in Campaign, Cancel(c) PROVE Touched(m)
    BY <1>4, <2>4 DEF Cancel, Become, Planned, Touched
  <2>5. ASSUME NEW c \in Campaign, NEW outcome \in {"accepted", "rejected", "unknown"}, Dispatch(c, outcome)
        PROVE  Touched(m)
    BY <1>4, <2>5 DEF Dispatch, Settle, Become, Planned, Touched
  <2>6. ASSUME NEW n \in Message, NEW outcome \in {"accepted", "rejected"}, Reconcile(n, outcome)
        PROVE  Touched(m)
    <3>1. CASE m # n
      BY <1>1, <2>6, <3>1 DEF Reconcile, Become, RowsOK, Touched
    <3>2. CASE m = n
      <4>1. job'[m] = Stop(job[m], "completed") /\ message'[m] = outcome /\ message[m] = "unknown"
        BY <1>1, <2>6, <3>2 DEF Reconcile, Become, RowsOK
      <4>2. job'[m].status = "completed" /\ job[m].status = "needs_review"
        BY <1>1, <4>1, StopType DEF RowsOK, JobStatus, Agree, Agrees
      <4> QED
        BY <4>1, <4>2 DEF Touched
    <3> QED
      BY <3>1, <3>2
  <2>7. CASE Offboard
    BY <1>1, <1>4, <2>7 DEF Offboard, Become, Touched, Agree, Agrees
  <2>8. ASSUME NEW w \in Worker, NEW seen \in scan[w], Recover(w, seen) PROVE Touched(m)
    BY <1>1, <1>4, <2>8 DEF Recover, Recovered, Expired, Become, RowsOK, Touched
  <2>9. ASSUME NEW w \in Worker, NEW n \in Message, Claim(w, n) PROVE Touched(m)
    <3>1. message[n] = "planned"
      BY <2>9 DEF Claim, Inv, Agree, Agrees
    <3>2. m # n
      BY <1>4, <3>1
    <3> QED
      BY <1>1, <2>9, <3>1, <3>2 DEF Claim, CancelUnsent, SetJob, Become, RowsOK, Touched
  <2>10. ASSUME NEW w \in Worker, Process(w) \/ Fail(w) PROVE Touched(m)
    <3> DEFINE n == mine[w].message
    <3>1. Current(mine[w]) => job[n].status = "running"
      BY DEF Current
    <3>2. CASE m # n
      BY <1>1, <2>10, <3>2 DEF Process, Fail, CancelUnsent, SetJob, Settle, PutAside, Become, RowsOK, Touched
    <3>3. CASE m = n
      BY <1>1, <1>4, <2>10, <3>1, <3>3
         DEF Process, Fail, CancelUnsent, SetJob, Settle, Become, Lapsed, Touched
    <3> QED
      BY <3>2, <3>3
  <2>11. CASE Sweep
    BY <1>4, <2>11 DEF Sweep, Late, CancelUnsent, Become, Touched
  <2>12. UNCHANGED vars \/ Tick \/ (\E c \in Campaign, start \in 0..MaxStart : CreateCampaign(c, start))
         \/ (\E status \in {"active", "suspended"} : SetStatus(status))
         \/ (\E w \in Worker : ReadExpired(w) \/ Crash(w)) => UNCHANGED <<message, job>>
    BY DEF vars, rows, Tick, CreateCampaign, SetStatus, ReadExpired, Crash
  <2> QED
    BY <1>4, <2>1, <2>2, <2>3, <2>4, <2>5, <2>6, <2>7, <2>8, <2>9, <2>10, <2>11, <2>12 DEF Next
<1> QED
  BY <1>2, <1>3, <1>4

(* A message that may have been sent is never sent again (worker.py,       *)
(* _recover_expired; campaign_routes.py, reconcile).                       *)
THEOREM MailNeverResent == Spec => NeverResent
<1> DEFINE kept(m) ==
      /\ message[m] = "unknown" =>
           message'[m] \in {"unknown", "accepted", "rejected"} /\ job'[m].status # "running"
      /\ message[m] \in {"accepted", "rejected", "cancelled"} => message'[m] = message[m]
<1>1. ASSUME Inv, [Next]_vars PROVE \A m \in Message : kept(m)
  <2> SUFFICES ASSUME NEW m \in Message PROVE kept(m)
    OBVIOUS
  <2>1. Touched(m)
    BY <1>1, TouchedStep
  <2>2. Agree(m)
    BY <1>1 DEF Inv
  <2> QED
    BY <2>1, <2>2 DEF Touched, Agree, Agrees
<1>2. Inv /\ [Next]_vars => [\A m \in Message : kept(m)]_vars
  BY <1>1
<1> QED
  BY <1>2, InvAlways, PTL DEF Spec, NeverResent

(* A finished job is not run again, whatever happens to its tenant         *)
(* (docs/learning-authorizations.md:66; worker.py, claim_job).             *)
THEOREM FinishedJobsNeverRun == Spec => FinishedJobsStay
<1> DEFINE ended(m) ==
      job[m].status \in {"completed", "failed", "cancelled"} => job'[m].status = job[m].status
<1>1. ASSUME Inv, [Next]_vars PROVE \A m \in Message : ended(m)
  BY <1>1, TouchedStep DEF Touched
<1>2. Inv /\ [Next]_vars => [\A m \in Message : ended(m)]_vars
  BY <1>1
<1> QED
  BY <1>2, InvAlways, PTL DEF Spec, FinishedJobsStay

(* Mail is sent only in its window and while its campaign runs, although a *)
(* worker claims it in an earlier transaction (worker.py, process_once).   *)
LEMMA SentStep ==
  ASSUME Inv, [Next]_vars, NEW m \in Message, message[m] = "planned", message'[m] = "accepted"
  PROVE  Running(CampaignOf[m]) /\ now <= Ends(m)
<1>1. Agree(m)
  BY DEF Inv
<1>2. ASSUME NEW c \in Campaign, NEW outcome \in {"accepted", "rejected", "unknown"}, Dispatch(c, outcome)
      PROVE  Running(CampaignOf[m]) /\ now <= Ends(m)
  <2>1. m \in Planned(c) /\ CampaignOf[m] = c /\ outcome = "accepted"
    BY <1>2 DEF Dispatch, Settle, Become, Planned, Messages
  <2> QED
    BY <1>2, <2>1 DEF Dispatch, Settle, Consumes
<1>3. ASSUME NEW w \in Worker, Process(w) PROVE Running(CampaignOf[m]) /\ now <= Ends(m)
  <2> DEFINE n == mine[w].message
  <2>1. m = n /\ Settle({n}, "accepted") /\ ~Lapsed(n) /\ ~Suspended(n)
    <3>1. ~UNCHANGED message /\ ~CancelUnsent({n}, "cancelled")
      BY DEF CancelUnsent, Become
    <3>2. Settle({n}, "accepted") /\ ~Lapsed(n) /\ ~Suspended(n)
      BY <1>3, <3>1 DEF Process, SetJob
    <3> QED
      BY <3>2 DEF Settle, Become
  <2>2. now <= Ends(m)
    BY <2>1 DEF Settle, Consumes
  <2>3. State(m) \notin {"none", "draft", "cancelled", "paused"}
    BY <1>1, <2>1 DEF Lapsed, Suspended, Agree, Agrees
  <2>4. State(m) \in {"none", "draft", "scheduled", "observing", "paused", "cancelled"}
    BY DispatchConstants, TypeParts DEF Inv, State, CampaignRow
  <2> QED
    BY <2>2, <2>3, <2>4 DEF Running, State
<1>4. ASSUME NEW w \in Worker, NEW seen \in scan[w], Recover(w, seen) PROVE FALSE
  BY <1>4 DEF Recover, Recovered, Become
<1>5. ASSUME NEW w \in Worker, NEW n \in Message, Claim(w, n) PROVE FALSE
  BY <1>5 DEF Claim, CancelUnsent, SetJob, Become
<1>6. ASSUME NEW w \in Worker, Fail(w) PROVE FALSE
  BY <1>6 DEF Fail, CancelUnsent, SetJob, Become
<1>7. ASSUME NEW c \in Campaign, Schedule(c) \/ Pause(c) \/ Resume(c) \/ Cancel(c) PROVE FALSE
  BY <1>7 DEF Schedule, Pause, Resume, Cancel, Become
<1>8. ASSUME NEW n \in Message, NEW outcome \in {"accepted", "rejected"}, Reconcile(n, outcome) PROVE FALSE
  BY <1>8 DEF Reconcile, Become
<1>9. ~Offboard /\ ~Sweep
  BY DEF Offboard, Sweep, CancelUnsent, Become
<1>10. ~(\/ UNCHANGED vars \/ Tick \/ \E c \in Campaign, start \in 0..MaxStart : CreateCampaign(c, start)
         \/ \E status \in {"active", "suspended"} : SetStatus(status)
         \/ \E w \in Worker : ReadExpired(w) \/ Crash(w))
  BY DEF vars, rows, Tick, CreateCampaign, SetStatus, ReadExpired, Crash
<1> QED
  BY <1>2, <1>3, <1>4, <1>5, <1>6, <1>7, <1>8, <1>9, <1>10 DEF Next

(* Nothing is sent for a campaign that is paused, cancelled or past its    *)
(* window, however late the worker that claimed the mail is.               *)
THEOREM MailSentOnlyWhileRunning == Spec => SentOnlyWhileRunning
<1> DEFINE sent ==
      \A m \in Message : message[m] = "planned" /\ message'[m] = "accepted" =>
        Running(CampaignOf[m]) /\ now <= Ends(m)
<1>1. Inv /\ [Next]_vars => [sent]_vars
  BY SentStep
<1> QED
  BY <1>1, InvAlways, PTL DEF Spec, SentOnlyWhileRunning

-----------------------------------------------------------------------------
(* What is to be sent has a job a worker can claim with all its attempts,  *)
(* what is in doubt has none, in whatever order campaigns are paused,      *)
(* resumed and cancelled and workers come and go.                          *)
THEOREM JobsAlwaysServeMail == Spec => []JobsServeMail
BY JobAlwaysFollowsMessage, PausesNeverCostAnAttempt, PTL DEF JobsServeMail

(* No late worker, recovery, sweep or dispatch by hand changes what was    *)
(* decided about a message or the end of its job.                          *)
THEOREM DecisionsAreFinal == Spec => DecidedStays
BY MailNeverResent, FinishedJobsNeverRun, PTL DEF DecidedStays
=============================================================================
