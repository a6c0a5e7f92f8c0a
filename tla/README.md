# KUANGUARD: specifications

TLA+ modules of the KUANGUARD backend (`src/backend/kuanguard`), the TLC
configurations that check them on small instances, and TLAPS proofs of what
matters most for every instance.  Line numbers refer to that directory unless a
path is given.

## 1. Inventory

KUANGUARD sells security services to tenants: engineers assess systems and
publish reports, customers buy points and spend them on phishing campaigns and
courses, partners resell to customers of their own.  It is one FastAPI process
(any number of replicas), a worker loop (`worker.py`, any number of replicas) and
a database.

**How steps interleave.**  Every mutating request takes the advisory lock of its
tenant (several, sorted, for a partner and its customer), reads its session again
and runs in one transaction that a refusal rolls back (`security.context`
84-149, `db.set_tenant` 27-32).  Requests of one tenant are therefore atomic
steps, and the hard behaviour lies elsewhere: in the workers, which read without
a lock, act in several transactions and crash in between; in the payment
provider, which repeats and reorders its events; in the clock, which expires
lots, holds, leases, windows and sessions between any two steps; in sequences of
legal operations that different code settles; and in the few places where two
tenants are involved or the lock is not held (login, erasure, object files).

| Component | State | Operations | What makes it correct |
|---|---|---|---|
| Wallet (`wallet.py`) | `point_lots`, append-only `wallet_transactions`, `reservations`, `reservation_lots`, `wallets.frozen` | grant, expire, reserve, consume, release, refund | points are neither created nor lost; nothing is overdrawn; a hold is settled once; expired points stay expired; a frozen wallet spends nothing |
| Orders and payments (`billing_routes.py`) | `orders`, `payments`, `inbox`, `refunds` | create, webhook (paid, failed, refunded, chargeback), finance refund | one payment grants one lot, in any order and number of events; refunds match the ledger; disputes freeze the wallet |
| Partner transfer (`partner_routes.allocate_credits`) | two wallets | transfer | points are moved, not copied; purpose and expiry are kept |
| Campaigns (`campaign_routes.py`) | `campaigns`, `message_plans` | create, schedule, pause, resume, cancel, simulated dispatch, reconcile, remediation, event review | mail is sent at most once, only while the campaign runs and inside its window |
| Worker (`worker.py`) | `jobs` (status, claim token, lease, attempts) | recover, claim, process, fail, heartbeat, sweeps | a lost claim changes nothing; an uncertain one is reviewed, never repeated; every claim ends |
| Projects and reports (`project_routes.py`, `entitlements.py`) | `batches`, `snapshots`, `report_jobs`, `publications`, `entitlement_ledger` | schedule, import, review, report, publish, cancel, reopen, change orders | only the approved content is published; versions rise; a service unit is settled once |
| Learning (`learning_entitlements.py`, `learning_routes.py`) | `enrollments`, seats, progress, attempts, certificates | assign, start, progress, attempt, certify, expire | seats are not oversold; start and expiry exclude each other; certificates follow completion |
| Login and sessions (`portal_auth.py`, `security.py`) | login intents, codes, sessions | begin, finish, callback, revoke | an intent yields one session, at the place it was begun, for a user who still has access |
| Change orders and retests (`project_routes.py`) | scope versions, `change_orders`, imports, retest requests | request, offer, confirm, apply; preview and commit imports; request and approve a retest | the scope is what was created and what the customer confirmed on screen; it does not grow under an import or a retest |
| Project execution (`project_execution.py`) | tasks, dependencies, slots, policies | save task, book, configure | dependencies stay acyclic; people and tools are not double booked, across tenants |
| Partner delegation, platform (`partner.py`, `partner_routes.py`, `platform_routes.py`) | links, grants, domains, features, tenant status | link, grant, delegate, revoke, verify domain, suspend | a delegated session never has more than the live link, grant and role ceiling |
| Lifecycle (`lifecycle.py`, `lifecycle_routes.py`) | deletion requests, plans, receipts, files | preview, offboard, erase | what is executed is what was reviewed; erasure can be repeated after a crash |
| Questionnaires, tickets, drafts (`operations_routes.py`, `draft_routes.py`, `src/apps/web/src/lib`) | single rows | compare-and-set changes | no lost update; a repeated save is harmless |
| Rate limits (`rate_limits.py`) | sliding windows | count | never more than the limit |
| Portfolio connector (`portfolio.py`, `portfolio_routes.py`) | a cached projection with a deadline | refresh, disable, prune, show | nothing is shown after a revocation, by another grant or after its deadline |
| Cloudflare onboarding (`src/scripts/cloudflare_onboard.py`) | the zone, a reviewed plan, a journal on disk | inspect, plan, apply, roll back | only what was reviewed is changed, everything is on the journal, a rollback restores |
| Parsers, report rendering, configuration, catalog | none shared | pure conversion | not modelled |
| Other scripts (`src/scripts`) | files, external services | migrate, back up | not modelled |

`PROJECT.json` lists the components with what is modelled of each, and the
hazards, each at its line with the property that covers it.

## 2. Plan

The order is that of what a mistake would cost: money first, then what leaves the
system and cannot be recalled, then what is delivered and who may see it, then
the rows that people edit.  All of it is built.

| | Modules | Abstract specification | Proofs |
|---|---|---|---|
| 1 | `Wallet`, `LotSelection` | `PointCustody` by `WalletCustody` | `WalletProofs` |
| 2 | `MailDispatch` | | `MailDispatchProofs` |
| 3 | `ReportDelivery` | `PublicationRegister` by `DeliveryRegister` | `ReportProofs` |
| 4 | `Training` | | `TrainingProofs` |
| 5 | `PortalAccess` | | `PortalProofs` |
| 6 | `TaskGraph`, `DispatchSlots`, `CustomerDesk`, `ChangeOrders`, `Connector`, put side by side by `Execution` | | `ExecutionProofs` |
| 7 | `Lifecycle`, `DnsOnboarding`, `FormDrafts`, put side by side by `Procedures` | | `LifecycleProofs` |

`SumFacts` has the lemmas about finite sets and sums that these proofs share.
Every safety property of a run is a theorem.  What could follow: the quotes and
contracts of a project, and an abstract specification of what a customer agreed to.

## 3. Modules

### Wallet

| State | Code |
|---|---|
| `lot[l]` | a row of `point_lots`; quantity 0 means no row |
| `balance[l]` | what `balances` and `allocated` sum over the ledger rows of a lot, by bucket |
| `posted` | which `<<lot, business_key>>` pairs exist, so that `entry` ignores a repetition |
| `hold`, `taken` | `reservations` and `reservation_lots` |
| `order` | `orders` with the reference of `payments` and the sums of `refunds` |
| `inbox` | acknowledged provider events |
| `frozen` | `wallets.frozen` |

The actions are the functions of `wallet.py` with what their callers do in the
same transaction: `Reserve`, `Consume`, `Release`, `ExpireLots`, `PaidEvent`
(with `Grant`), `FailedEvent`, `RefundEvent` and `FinanceRefund` (with
`refund_order`), `CreateOrder` and `Allocate`.  A refused call is a disabled
action, because its transaction is rolled back.  `Tick` lets the clock pass any
boundary between two steps.

The ledger is kept as its sums, not as a list of rows; the business keys that
make rows unique are kept, since they decide whether an operation has an effect.
An amount is a number of points (100 minor units each); other amounts are refused
by the code.  Which of several lots that expire together is used first is left
open (`sorted` keeps the database's order), by `FirstExpiringFirst` of
`LotSelection`; `LoopIsFirstExpiringFirst` says that, in every wallet that arises,
the loop of the code (`GreedyTake`) produces exactly the takes this predicate allows.

`PointCustody` is the abstract promise: points are free, held under an identity,
spent or retired, enter only by being issued, and an identity holds and settles
once.  `WalletCustody` maps the wallets of all tenants to it; a transfer is then
a step that changes nothing.

### MailDispatch

One tenant, its campaigns and any number of workers.  `campaign`, `message`,
`hold` and `job` are the rows of the database; `scan` and `mine` are what a worker
has read and may act on later.  A worker's round is `ReadExpired` (no lock), then
`Recover` for each row read, then `Claim`, then `Process` or `Fail`, each a
transaction of its own, and a `Crash` may come between any two.  `Claim` re-reads
the candidate under the lock, so the unlocked candidate read adds nothing but the
choice of the job, which is left open.  `claims` numbers the claim tokens, which
`uid()` never repeats.

The simulated provider accepts within the transaction (`settle_message`), so a
crash is before the acceptance or after the commit; what the worker cannot know
is only which.  Other message states in the code (`in_flight`, `bounced`) are
never written by any code and are left out.  Reservations are reduced to their
status, because each message has one reservation of one point that expires with
its window; the wallet behind it is the module `Wallet`, whose `Consume` and
`Release` have the guards used here.  Jobs of kind `report` belong to
`ReportDelivery`.  A tenant is `active`, `suspended` or `offboarding`.

### ReportDelivery

| State | Code |
|---|---|
| `batch[b]` | a row of `batches`: its status, how many imports were committed to it, and the approval that holds (`reviewed_by`, `reviewed_at`) as a number, 0 for none |
| `reviews[b]` | approvals given so far, which makes each of them distinct as `reviewed_at` does |
| `unit[b]`, `granted` | what `entitlement_ledger` says of the unit of a batch, and the sum of its grants |
| `report[r]` | a row of `report_jobs` with its `snapshots` row: the approval and content it was made for, its version, where its files are |
| `job[r]`, `claims` | the row of `jobs`; tokens are numbered, as `uid()` never repeats |
| `published` | the reports with a row in `publications` |
| `scan`, `mine` | what a worker has read and which claim it holds |

Staff create a batch (which reserves a unit), schedule it, commit imports, submit
it, approve or reject it, ask for a report, publish it, reopen the batch for a
correction or cancel it.  A worker makes the files of a report between two
transactions, `Begin` and `Finish`; a thread renews its lease meanwhile.  The
lease is a Boolean: no code compares it with anything but the current time, so all
that matters is whether it is over (`Lapse`), and a heartbeat is a `Lapse` that
does not happen yet.  A hanging worker, a lost database connection and a death are
then the same to everybody else, as they are in the code.

Units are one pool for the project and the service: a reservation is of one unit,
and a grant with one free will do, so it does not matter which.  The first
batches of the fixtures (`seed.py`) have no reservation; they take a unit when
they are published (`entitlements.finish`), which is why `ConsumeUnit` may find
none.  The scope of a batch changes only before its first import
(`apply_change` 1011), so no approval ever spans two scopes and the comparison of
scopes in `publish` is implied.  Import and content are reduced to a count, since
only equality with what was approved matters.

`PublicationRegister` is the abstract promise: something is approved for a batch or
nothing is, and a delivery puts what is approved into the register under a higher
version.  `DeliveryRegister` maps a batch to it: approved is the content of a batch
in status `approved` or `delivered`, delivered is what the snapshots of its
publications hold.  Requesting and making a report are then steps that change
nothing, and the guards of `publish` have to make up for everything that happens
in between.

### Training

| State | Code |
|---|---|
| `entitlement[g]` | a row of `training_entitlements`: seats granted, and from when until when |
| `status[e]`, `expires[e]`, `started[e]` | a row of `enrollments` |
| `seat[e]`, `from[e]` | the last row of `training_entitlement_ledger` for an enrolment, and the grant it names |
| `hold[e]` | the status of `enrollments.reservation_id` in `reservations` |
| `credited[e][l]`, `attempts[e]`, `certificate` | `progress_events`, the number of rows of `attempts`, and `certificates` with the lookup job |
| `member` | learner memberships that are active |
| `listed` | the worker has read the tenant as active (without its lock) and will sweep it |

`Assign` is the whole of `learning_routes.assign`: it sweeps first, then takes a
seat of the first grant to expire that has one free, or else reserves points.
`Cancel`, `Deactivate` and `Offboard` give back what was not started; `Sweep` is
`expire_authorizations` in the worker; `Start` uses the authorization;
`SaveProgress` and `SubmitAttempt` lead to the certificate.  The seats in use are
counted in the ledger each time, as `balances` does.

An enrolment stands for a course, learner and cohort, which can be assigned only
once; that grants are for a course and perhaps a cohort is the constant `Covers`.
The reservation of points is reduced to its status, and whether the wallet has
the points is left open: `Wallet` decides it, and `ConsumeHold` and `HoldsWithout`
have the guards of its `Consume` and `Release`.  Which of two grants that expire
together is taken is left open.  Answers are reduced to passed or not.
Remediation (`campaign_routes.py`) calls `assign` for several learners in one
transaction, which is a sequence of `Assign`.  The clock counts whole seconds,
as `int(...total_seconds())` does.  The check of the tenant's LMS feature, which
only refuses, is left out.

### PortalAccess

| State | Code |
|---|---|
| `status`, `feature`, `member`, `link` | `tenants.status`, feature rows, active memberships, partner customers |
| `grant`, `domain` | personal grants and domains of a partner, with the versions that are compared |
| `intent`, `finishing`, `redeeming` | login intents; identities between their check and the update that claims the intent; callbacks that hold the intent's row |
| `session`, `jar` | sessions with their parent, and the cookie of a browser |
| `request`, `owner` | requests on their way and the advisory locks of organizations |

This is the one module in which locks are explicit.  A mutating request reads its
session (`Arrive`, which also decides what it will lock), takes its locks one by
one in ascending order (`Lock`), reads the session again and computes its context
(`Check`), and then runs a handler; `Abort` is any refusal, at any point.  A login
holds no lock: the tenant is chosen in `Identify`, claimed by a compare-and-set in
`ClaimIntent`, checked again in `Redeem` and becomes a session in `PortalCallback`.
`Standing` is what the context requires of the rows as they are now; the ceiling of
delegated roles is `Granted`.  Time passes in `IntentLapses` and `GrantExpires`.
The handlers are those that change what a context is computed from; every other
mutation is `Work`.  The second lock of a transfer of credits, which is chosen by
an unlocked read of the link, is in `LockIds`.

### TaskGraph and DispatchSlots

`TaskGraph` has the tasks of a project and the forms people have open on them.
`Reached` is what the loop over pending tasks visits, as the least set closed under
dependencies; `Valid` is `validate_task`.  A form that was opened on an earlier
version is refused.

`DispatchSlots` has `policy`, `qualified` and `tool` (what is configured),
`batch` (its schedule), `slots` (bookings of people and tool units), `desk` (the
request an organization is serving) and `dispatch` (the lock common to all
organizations).  A booking is three steps: the lock, the reading of what overlaps,
the writing, because bookings of two organizations are serialized by `dispatch`
only.  Times are buffered by the policy at the time of the booking.  Delivery and
correction stand for what `ReportDelivery` does with the batch.

### Lifecycle

| State | Code |
|---|---|
| `status`, `request`, `preview` | `tenants.status`, the deletion request, the plan that was previewed with its hash |
| `job`, `message`, `writing`, `written` | jobs, mail, and the workers that are making or have made the files of a claim |
| `object` | the files below the organization's directory |
| `member`, `inviting`, `anonymous`, `userLock` | memberships, additions under way, anonymized users, row locks on users |
| `plan`, `eraser`, `receipt` | the erasure plan under review, the run of the script, the receipt |

Offboarding runs if the state is the one that was previewed and nothing is busy
(`Offboard`).  An erasure reads a manifest, which is reviewed, and executes it:
one transaction that locks the members one at a time (`BeginErasure`, `LockUser`,
`CommitErasure`) and then, outside it, the inventory and the removal of files one
by one.  `Stop` is a crash at any point, or the database's resolution of a
deadlock between two erasures; `ResumeErasure` runs the same plan again.  Workers
that lost their claim still write their files (`GenerateBundle`), under no lock.

### DnsOnboarding

`zone` is the provider's zone, `plan` the reviewed plan, `receipt` the journal on
disk, `tool` and `undo` where the script is.  Reading the record, changing it and
writing the outcome are separate steps; an answer can be lost with the change
done or not (`Unanswered`), and the script can stop anywhere (`Crash`).  Others
edit the zone at any time (`OutsideEdit`); `quiet` says that nobody did since the
script's last read, since nothing protects against an edit between its read and
its write.

### ChangeOrders

| State | Code |
|---|---|
| `batch[b]` | a row of `batches` with its scope: what is tested, whether somebody is assigned, whether it was published, and the batch a retest is compared with |
| `order[c]`, `shown[c]` | a row of `change_orders`, and every version of it that anybody may still have on a screen |
| `imports[i]`, `request[r]` | rows of imports and of retest requests |
| `created`, `agreed` | history variables: the scope at creation, and the version the customer saw when confirming |

Each action of staff or customer carries a form: any version of the order that was
ever shown, which the code compares with the row (`Latest`).  The review and the
publication of a batch are here only as far as they decide which batches may be
imported to, changed or tested again; `ReportDelivery` has the rest.  The deadline of
a retest is left open: it may have passed at any time.

### FormDrafts, CustomerDesk, Connector

`FormDrafts` is one draft, the row on the server and the windows of
`use-server-draft.ts`: each has a text, the row it last showed, and flags as in
`draft-store.ts`.  A request that a window has given up on may still arrive
(`ReceiveLate`).

`CustomerDesk` has the answers of a questionnaire and a ticket.  A request carries
what its author had read and a key; it may be served again at any later time.
Revisions are compared by content, as the code's digests are.

`Connector` is the row of an external product and the refresh under way, which
holds the tenant's lock while it calls the source.  The configuration, the
standing of a credential at the source and the clock change meanwhile.

`Execution` gives `DispatchSlots` (`Slots`), `CustomerDesk` (`Desk`), `ChangeOrders`
(`Changes`) and `Connector` (`Portfolio`) variables of their own beside `TaskGraph`,
and `Procedures` does it for `DnsOnboarding` (`Dns`) and `FormDrafts` (`Drafts`) beside
`Lifecycle`.

## 4. Runs

| Run | Module, configuration | Shows |
|---|---|---|
| `wallet` | `MCWallet.cfg` | ledger, holds, orders and refunds agree; settlements are final; what expires is swept |
| `wallet_partner` | `MCWalletPartner.cfg` | transfers between two tenants move points and respect freezes, refinement of `PointCustody`, and the loop that picks lots |
| `mail_dispatch` | `MCMailDispatch.cfg` | at most one sending, payment exactly for accepted mail, no work for stopped campaigns |
| `mail_liveness` | `MCMailLiveness.cfg` | every planned message is decided, every claim ends |
| `report_delivery` | `MCReportDelivery.cfg` | refinement of `PublicationRegister`: only approved content is delivered, in rising versions; units are not oversold and follow delivery |
| `report_workers` | `MCReportWorkers.cfg` | reports agree with their jobs, completed ones keep their files, every request ends |
| `training` | `MCTraining.cfg` | seats are not oversold and none is lost, courses start in time, certificates follow completed courses, and every unstarted course is settled |
| `access` | `MCPortalAccess.cfg` | a context stays true until its transaction ends, requests never wait in a circle, sessions follow logins |
| `execution` | `MCExecution.cfg` | tasks stay acyclic, nobody is double booked, reviews apply to what was read, replies count once, the scope is what was agreed, figures shown are current |
| `lifecycle` | `MCLifecycle.cfg` | offboarding and erasure act as reviewed and forget nobody; the same of a DNS plan and its rollback; drafts lose nothing |
| `wallet_dispute` | `MCWalletDispute.cfg` | a violation: see section 7 |
| `training_progress` | `MCTrainingProgress.cfg` | a violation: see section 7 |

Two runs hold several systems: `execution` has `TaskGraph`, `DispatchSlots`,
`CustomerDesk`, `ChangeOrders` and `Connector`, `lifecycle` has `Lifecycle`, `DnsOnboarding` and
`FormDrafts`.  They share no state; the variable `part` says which one a behaviour
exercises, and the others keep their initial state, so that the state space is the
sum of theirs, not the product.  `report_delivery` likewise has two kinds of
behaviours (`alone`): a batch that is reported twice, and two batches that compete
for one unit.

**Bounds.**  `MCWallet`: one tenant with two lots (a restricted gift and the lot
of an order), two reservations with different purposes, an order of two points,
five events (payment under two references, failure, partial refund, chargeback),
holds of up to two points and five instants.  A lot lives two ticks, so a hold can
be made, used or released before, at and after the expiry of its lot; two
reservations compete for the same lot; every event can come before or after any
other.  `MCWalletPartner`: two tenants and four lots, so that a transfer can split
over both lots of the partner and the customer can also have a bought lot, whose
chargeback freezes it before or after the transfer.

`MCMailDispatch`: one campaign of two messages, two workers, three claims and
five instants, a lease of one and a window of two ticks: a claim can run out
before, at or after the end of the window, be recovered by the other worker while
its owner is still about to write, and the message be claimed again after a pause.
Two messages are what is needed for a campaign that is partly sent; a third adds
only more of the same, since the code never relates two messages except through
their campaign.

`MCReportDelivery`: two imports, two approvals and two reports of one batch: the
shortest history in which a report of the first approval can be published, or be
finished too late, after the second; with one worker, which may lose its claim and
take it again (`MaxClaims` bounds the claims of these behaviours to three: one
that is lost, and both reports made).  Two batches have one unit and one report, so
that the second gets the unit only if the first gives it back.
`MCReportWorkers`: one report and two workers, all three tries and a retry by hand
that starts them again; a third worker would only repeat what a late first one
does.

`MCTraining`: two learners with an enrolment each and two grants of one seat, one
for both and one for the first only, valid from the start to the end or for one
tick in between; four instants and two ticks of validity.  Both learners compete
for one seat; the second gets it only after the first gave it back; a grant can
open, close and cut short the validity of a course between any two steps; points
are used when no seat is free.  A course has two lessons of one second, so that
one could stand in for the other, and one attempt.  More learners or seats would
only repeat this, since the code compares nothing but their count with the
quantity.

`MCPortalAccess`: a partner, the customer it creates and the platform's office, in
an order in which the customer's lock comes before the partner's; an engineer, who
logs in and enters the customer, and an administrator; two requests at a time, one
intent, four sessions, one withdrawal (`MaxChanges`) and two versions of a grant.
A circle of waiting requests needs two of them; an intent that is redeemed twice
needs two identities in flight.

`MCExecution`: three tasks, two editors and three versions, the least in which a
circle can close behind an edit that saw none; three batches of two organizations,
two people who work for both and a tool of up to two units, three instants and one
reconfiguration; one question, two answers of which one names evidence, and three
requests; two batches, of which one may be the retest of the other, an order of up to
three versions (two offers of different prices), an import and a request for a retest;
two grants, a deadline of two ticks and three changes of configuration.  A form that is
out of date needs two versions; a scope that grows under an import needs the import
between the confirmation and the application of one order.

`MCLifecycle`: two organizations that share a member, one being offboarded while
the other is erased, a report and a mail of the first, one stop and one claim of a
job, which a worker may lose and still write; a zone of three records, three
configurations, two edits by others and six record numbers; two windows, two texts,
two edits and one lost answer.

Lots, messages, reports, tasks, the batches of one organization and requests are
symmetric where the code treats them alike; symmetry is not used where liveness is checked.  `MaxTime`,
`MaxHold`, `MaxStart`, `MaxClaims`, `MaxSeats`, `MaxSave`, `MaxUnits`,
`MaxContent`, `MaxReviews`, `MaxRetries`, `MaxVersion`, `MaxChanges`,
`MaxPolicies`, `Horizon`, `MaxRequests`, `MaxNow`, `MaxConfigured`, `MaxCrashes`,
`MaxId`, `MaxOutside`, `MaxOffers`, `MaxEdits` and `MaxLosses` are bounds of the models, all
other constants are parameters of the code; `RetryLimit` is the code's limit.

Runs do not check for deadlock: when the clock has reached its bound and all is
settled, the model stops, as the system may when nobody asks for anything.

**Fairness.**  `wallet` assumes for `ExpiredIsSwept` only that the worker loop
sweeps each active tenant (`worker.main` 308-316, once a minute).  `mail_liveness`
assumes that the clock runs, that the loop sweeps and looks for expired claims, and
that a worker ends what it claimed, by success, failure or crash.  Of recovery it
assumes strong fairness: a worker may crash between reading an expired claim and
recovering it, but not for ever.  Customers, the platform and claiming are never
fair: nobody need schedule, resume or claim anything.  `wallet_dispute` assumes
that the provider repeats an event until it is acknowledged.  `report_workers`
assumes that a lease nobody renews ends; that a worker ends what it holds, if only
by crashing; and, strongly, that workers look for expired claims, recover what they
found and take every queued job in turn: the loop of `worker.main` does all three
in each round, oldest jobs first, and a worker that crashes in between does not do
so for ever.  Staff are not fair.  `training` assumes that the clock runs and that
the worker lists and sweeps active tenants (`worker.py` 280-297, 312); learners and
managers are not fair.  `lifecycle` assumes that an interrupted erasure is run
again and goes on unless it is stopped, of which there are finitely many; and that
the autosave timer, the server and the browser's event loop do their part for a
draft (`use-server-draft.ts`), though answers may be lost.  The worker loop itself is
assumed to be restarted when it dies: `expire_training` runs outside the
exception handler of `process_once`, so an exception in it ends the process.

## 5. Properties

Wallet: `LedgerBalanced` (with `NeverOverdrawn`, the two halves of
`LEDGER_INVARIANT` of the reconciliation report, `billing_routes.py` 185);
`HoldsCovered` (no bucket is overdrawn, ledger and reservation rows agree, a hold
fits its lots); `MoneyReconciles` (`PAYMENT_GRANT_MISMATCH`, 181, and refunds);
`SettledForGood`, `ExpiredIsSwept`, `TransfersMovePoints`,
`LoopIsFirstExpiringFirst`, `ImplementsCustody` and, violated, `DisputedIsFrozen`.

Mail: `HoldFollowsMessage` (paid exactly when accepted), `JobsServeMail` (nothing
planned is forgotten, nothing uncertain is claimed, pauses cost no attempt),
`SentOnlyWhileRunning`, `DecidedStays` and `MailIsSettled`.

Reports: `ImplementsRegister`, `UnitsAccounted`
(`docs/requirements-traceability.md` 53), `ReportFollowsJob`, `CompletedIsFinal`
and `ReportsEnd`.

Training: `CourseRecordsAgree` (one authorization, used or given back with the
course; seats not oversold; started in time; certificates earned),
`EveryLessonDone`, `UnstartedIsSettled` and, violated, `ProgressWithinElapsed`.

Access: `ContextStaysTrue`, `LocksInOrder`, `SessionsFollowLogins`.

Execution: `DependenciesHold` (`Acyclic` and `DoneAfterDependencies`),
`EditsBuildOnRead`, `NoDoubleBooking`, `BookingsHold`, `ReviewedAsRead`,
`RepliesOnce`, `ScopeAsAgreed` (confirmed as seen, the scope is created and
confirmed, it stands under imports and retests), `ShownIsCurrent`.

Lifecycle, onboarding and drafts: `OffboardingIsFinal`, `NobodyForgotten`,
`ErasesWhatWasReviewed`, `ErasureFinishes`, `ActsAsReviewed`, `RollbackRestores`,
`OverwritesWhatWasSeen`, `TypedIsSaved`.

The comment above each definition states it in words; those that are conjunctions
name their parts.  Each has a mutation of a definition of the model, defined
beside it and marked "Mutant", under which TLC finds it violated.

## 6. Proofs

Every safety property and refinement that a passing run checks is a theorem
(TLAPS), for every value of the constants that satisfies the assumptions named
below.  `SumFacts` has what the proofs share: induction over a finite set and over the
first numbers, with a set in the place of the predicate; sums of functions
(`SumFunction`), whose recursion is shown to have one solution; and ranks.

`WalletProofs` proves, for any tenants, lots, reservations, orders, events, purposes
and bounds that satisfy `WalletConstants` and `RowsAreFinite` (tables are finite):

- `TypeCorrect`: `Spec => []TypeOK`.
- `LedgerAlwaysBalanced`: `Spec => []LedgerBalanced`.  The inductive invariant is
  `TypeOK /\ LedgerBalanced`: types are needed because the sum of the buckets is
  only preserved by `Move` when every bucket is a number.  One lemma shows that
  `Move` keeps a lot's total, one that a posting is a move or nothing; the actions
  that post to many lots are then handled lot by lot, and the three places where a
  lot is created (`Init`, `Grant`, `Allocate`) start it balanced.
- `SettlesForGood`, with `SettlesOnce`: from types and the guard `Open`, which
  every action that changes a hold has, and from `ReturnsTo`, which sends the
  points of an expired lot to the bucket of expired points.
- `MoneyAlwaysReconciles`: `MoneyReconciles` with what it leaves implicit, that the
  lot of an order exists exactly when it was paid and that an order without a
  payment has no refund.
- `HoldsAlwaysCovered`: `HoldsCovered` from `HoldInv`, which says in addition what
  posting relies on: the key of a hold is only posted when the hold has that status, so
  that the row of a new hold is never ignored as a repetition, and no bucket but
  `reserved` and `consumed` can be overdrawn, which are sums over holds (`Backed`).
- `PointsAreMoved`: both halves of `TransfersMovePoints`.  What was issued is a sum over
  lots; `Allocate` renames part of it (`TransferSum`, by `SumMoves`), every other step
  changes one lot or none.  That a frozen wallet receives nothing needs `OwnedIfReal`: a
  row that does not exist belongs to nobody.
- `WalletImplementsCustody`: `Spec => ImplementsCustody`, step by step: each action of
  the wallet is a step of `PointCustody` or changes nothing of it (`CustodyStep`, with a
  lemma per action).  `ColumnFlow` takes what flows into a bucket of each lot to what
  flows into the bucket of all lots.
- `LoopAlwaysFirstExpiring`: `LoopIsFirstExpiringFirst`, from `LoopsAreFirstExpiring`,
  which is about any set of lots.  What the loop still has to take after some lots is what
  was asked less the sum of what they have (`LoopLeaves`); conversely a take first
  expiring lot first is the loop's in the order that puts, of lots that expire together,
  the emptied ones before the half used one (`FirstIsLoop`).

`MailDispatchProofs` proves, for any campaigns, messages, workers, windows,
leases and bounds that satisfy `DispatchConstants`, every safety property that the
run `mail_dispatch` checks:

- `MailTypeCorrect`: `Spec => []TypeOK`.  `TypeOK` is inductive by itself; the
  steps that actors share (`CancelUnsent`, `Settle`, `SetJob`, `PutAside`) have a
  lemma each, so that the proof per action is short.
- `InvAlways`: `Spec => []Inv`, where `Inv` says for each message what its four
  rows (campaign, message, reservation, job) tell of each other (`Agrees`).  The
  run's invariants are parts of it, but not inductive alone: that
  a campaign which was never scheduled has no mail is needed for `Schedule` and
  `Cancel`, that a claimed job counts exactly one attempt for `PutAside`, and that
  an unplanned message has no job for `FinishedJobsStay`.
- `PaidExactlyWhenAccepted` and `JobsAlwaysServeMail` follow from `Inv`.
- `DecisionsAreFinal` follows from `TouchedStep`: a step
  leaves the rows of a message alone, or the message was planned, or only its
  unended job changes, or finance decides it.  `MailSentOnlyWhileRunning` looks at the
  two actions that can send.

`ReportProofs` proves, for any batches, reports, workers and bounds that satisfy
`DeliveryConstants` (both sets finite), every safety property of `ReportDelivery`:

- `DeliveryTypeCorrect`: `Spec => []TypeOK`, inductive by itself.
- `ReportsFollowJobs`: `Spec => []ReportFollowsJob`, inductive with the types,
  because every step sets a report and its job together or finds them agreeing.
- `CompletedReportsAreFinal`: from `ReportStep`, which says what a step does to a
  report: nothing, make its snapshot, or move it on, which needs a job that has not
  ended and so, by `ReportFollowsJob`, a report that is not completed; for its files,
  that no two workers hold one token (`TokensApart`) and that the token of a
  completed report is spent (`FilesApart`).
- `UnitsAlwaysAccounted`, with `NoBatchNoUnit` (a batch that is not there has taken
  no unit) and `UnitStep`: a step takes a unit only where one is free, and at most
  one.
- `DeliveryImplementsRegister`: `Spec => ImplementsRegister`.  `SnapshotInv` says
  that no report carries an approval that has not been given yet, that a report
  made for the approval that holds now has the content the batch has now, that
  versions can be counted by the reports, and that only completed reports are
  published.  `ApprovalStep` is the key: a step withdraws an approval, keeps it with its
  content, or gives a new number.

`TrainingProofs` proves, for any learners, enrolments, grants, lessons and bounds
that satisfy `TrainingConstants` (enrolments and lessons finite):

- `TrainingTypeCorrect`: `Spec => []TypeOK`, inductive by itself.
- `CoursesAreConsistent`: `CourseRecordsAgree` from its four parts.  That
  authorizations follow enrolments is proved one enrolment at a time (`Fits`): a step
  that ends several courses does the same to each.  Seats: giving back only shrinks
  `Occupied` (`SeatsGivenBack`), and `Assign` adds one enrolment to a grant in which,
  after its own sweep, one is free (`SeatTaken`).  Starts: `WindowInv` adds what was
  settled at the assignment, that a course does not outlive the grant of its seat.
  Certificates: `CertificateInv`.
- `NobodySkipsALesson`: `EveryLessonDone`, from `LessonsNeverOvercredited`: no lesson
  has more than it asks for, so when the sum is what all ask for, each has it
  (`SumsReachEveryLesson`).

`ExecutionProofs` proves all that the run `execution` checks.  Its five systems share no
variable, so each theorem is about the specification of one (`Spec` of `TaskGraph`,
`Slots!Spec`, `Desk!Spec`, `Changes!Spec`, `Portfolio!Spec`), which the run's
behaviours of that part satisfy.

- Tasks: `TasksStayOrdered` and `EditsNeverBuildOnOld`, for any tasks, editors and number
  of edits.  A save is one edited row (`Edited`).  Were there a set without a task that
  waits for none of it after an edit of `t`, then the part of it that is reached from what
  `t` needs would have been such a set before, since `t` is not reached itself
  (`EditsStayAcyclic`).  The last needs `FormsAreRead`: an open form shows an earlier state
  of its task, or the present one when the versions agree.
- Bookings: `NobodyIsBookedTwice` and `BookingsAlwaysHold`, under `BookingConstants`.
  `SlotInv` adds who holds the common lock, and that what a request has read as free
  still is (`StillFree`): nobody else books before it writes, and a reconfiguration of a
  tool that takes units away waits for the lock.
- Questionnaire and ticket: `ReviewsAreOfWhatWasRead` and `RepliesAreOnce`, under
  `DeskConstants` (a questionnaire has questions).  `DeskInv` adds that the questionnaire is
  reviewed exactly when all its answers are, and that without a receipt there is no message.
- Change orders: `ScopeStaysAsAgreed`, under `ChangeConstants`.  `OrdersInv` says that a
  version of an order names one set of terms, whatever form it is read from, which makes
  the comparison of versions sufficient.  `ScopeInv` adds that only batches with imports
  are published, that requests for a retest and baselines are of published ones, and so
  that no order can still change the scope of any of them.
- Connector: `FiguresAreCurrent`, under `PortfolioConstants`.  `ConnectorInv` says that
  there are figures only of a connected grant with a deadline in reach.

`LifecycleProofs` proves, about the three systems that run `lifecycle` puts side by side
(offboarding and erasure, form drafts, Cloudflare onboarding), each for any values of
its constants that satisfy its assumption (`LifecycleConstants` for the first):

- `OffboardsForGood`: with the types, `PlansFollow` is needed: an erasure that runs
  has a plan and, once past its locks, a receipt, and there is one only for an
  organization that is being erased, so that erasing starts no job.
- `ErasesTheReviewed`: `RemovedInOrder` follows a file from the plan that was
  reviewed to the receipt: once the inventory found nothing new, what the run still
  has to remove is what is there of the plan.  That a file still to come was not in
  the plan is `ComingIsUnseen`, because claims are numbered (`ClaimsCount`).
- `EverybodyIsRemembered`: `LocksHeld` says that an erasure on its way to commit
  still has to look at a member or holds that person's row, and that whom it will
  not anonymize has another membership; `Remembered` that everyone is anonymous or a
  member somewhere.  Two erasures with the same two last members therefore wait for
  each other, and the one that comes later sees the other's deletions.
- `DraftsOverwriteWhatWasSeen`, of `Drafts!Spec`: `DraftInv` says that what a window or a
  request holds, however late, is a state the row was in, and that a number and a version
  name one text.
- `ZoneActsAsReviewed` and `ZoneRollbackRestores`, of `Dns!Spec`, under
  `OnboardingConstants` (the zone numbers its records from one).  `DnsInv` says that the
  receipt names every confirmed operation with its own record, that numbers are fresh, that
  what is still to be done finds the records as inspected unless others edited the zone
  (`ApplyHolds`), and that what was taken back is as it was (`UndoHolds`).  At the end of
  a rollback, each record is one that an operation named or that none touched
  (`RollbackIsComplete`).

`PortalProofs` proves, for any organizations, users, intents, sessions, requests and
operations that satisfy `TenantsAreOrdered` and `CallersAreTyped` (some organization
has the greatest number; a known operation names an organization), all that the run
`access` checks.  The inductive invariant `AccessInv` has five parts:

- `Typed`, the columns of the tables as far as the rest needs them.
- `Guarded`: a request that has begun has, or still waits for, the lock of each
  organization that its context or its handler depends on.  For the customer of a
  transfer this holds although the link was read without a lock, since a link
  appears only together with its customer, which the caller then could not know.
- `Ordered`: what a request has is below what it waits for.  `LocksHold` takes the
  greatest organization that anyone of a circle waits for, and its owner waits for a
  greater one.
- `ContextStaysTrue` (`ContextHolds`): `AccessStep` shows that what a context reads
  of an organization changes only under a lock whose holder ends with that, or when
  the organization is created; `UnderLock` that this is not the lock of a request
  that goes on.
- `Origins` (`SessionsHold`): a session that has a successor is not live and no
  checked request has it, because two requests cannot hold the lock of its
  organization; an intent that has one is consumed, and stays as it is.

What stays with TLC are the liveness properties under fairness: `ExpiredIsSwept`,
`MailIsSettled`, `ReportsEnd`, `UnstartedIsSettled`, `ErasureFinishes` and `TypedIsSaved`.
A proof of them needs `ENABLED` and rules for fairness, which the provers do not have.

## 7. Findings

`wallet_dispute`: `docs/implementation-spec.md:480` says that disputes of payments
whose points were used enter arrears, freeze and manual handling, and
`docs/billing-policy.md:21` that chargebacks have a definite state.  When an order
was partially refunded, a chargeback of the whole payment is refused because it
exceeds what is left (`wallet.py` 164), and one of what is left because its amount
is not the order's (`billing_routes.py` 52).  The transaction is rolled back, no
refund row is written and the wallet is not frozen, however often the provider
repeats the event.

`training_progress`: `docs/development-contract.md:49` says that saving progress
"server-validates elapsed time".  The check (`learning_routes.py` 403) allows one
second more than the elapsed time that is not credited yet, on every save, and
takes no account of what was credited ahead of time.  Short saves repeated at one
instant are therefore all credited, up to what the lessons ask for.

Met while modelling, without a property of their own:

- Refunds in `manual_review` and frozen wallets are never resolved by any code.
- A message that a worker has claimed is still sent when its tenant is suspended
  before it is processed, because the tenant's status is read only at the claim
  (`worker.py` 163).
- Points that have expired but were not yet swept can still be refunded.
- Offboarding cancels a queued report job but leaves the row staff see `queued`
  (`lifecycle.py` 97-99), where the worker cancels both (`worker.py` 165-168).
- A draft that was deleted or purged and created again starts at version 1 again, so
  that a window which still shows version 1 of the earlier one can overwrite it
  (`docs/data-lifecycle.md:7` has the later window see a conflict).
  `OverwritesWhatWasSeen` is therefore about one and the same row.
- A connector that was disabled keeps only the last grant it refused: after g1 was
  revoked, g2 connected and revoked in turn, g1 refreshes again
  (`docs/portfolio-integration.md:21`).
- A file that a late worker writes after the inventory of an erasure is not removed,
  and the receipt still becomes `erased`.

## 8. Not modelled

Rate limits (one counter under one lock), parsing and rendering of reports, wording,
translation, signatures, HTTP headers and cookies' attributes, configuration, the
catalog, the database's migration and backup, the web front end except its drafts,
and the deployment under `src/infra`.  Of modelled components: quotes, contracts,
dispositions and acceptance of a project; recipient lists,
suspicious-mail reports and event reviews of campaigns; branding, prices and leads of
partners; the built-in product of the portfolio, which reads the tenant's own rows;
the export of a tenant's data, which only reads; creation of questionnaires from
templates; Workers, zone settings and certificates of the onboarding script.  They
change single rows that nothing else in the models depends on, or none.
