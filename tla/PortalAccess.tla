----------------------------- MODULE PortalAccess -----------------------------
(***************************************************************************)
(* Who may act for which organization: login through the central entry,    *)
(* sessions, the context every request is given, and the partner's and the *)
(* platform's administration of the access this context is computed from   *)
(* (portal_auth.py, security.py, partner.py, partner_routes.py,            *)
(* platform_routes.py).                                                    *)
(*                                                                         *)
(* A mutating request reads its session without a lock, takes the locks of *)
(* the organizations concerned in ascending order, computes its context,   *)
(* and only then runs its handler; other requests take their steps in      *)
(* between.  A login holds no organization's lock at all.                  *)
(***************************************************************************)
EXTENDS Naturals

CONSTANTS
  User, Partner, Customer, Office, \* users; organizations, Office being the platform's
  Administrator, Direct,           \* users with a platform membership, without an intent
  Session, Intent, Browser, Request,
  Entry, Asks,                     \* logins that are begun, operations a user asks for
  Staff, SignedIn, Adopted,        \* initial memberships, sessions and domains
  MaxVersion, MaxChanges,          \* bounds: versions of grants and domains, withdrawals
  Base, None

Tenant == Partner \cup Customer \cup {Office}
Host == Partner \cup {Base}        \* a partner's own domain is named by the partner

ASSUME TenantsAreOrdered ==
  /\ Tenant \subseteq Nat
  /\ Partner \cap Customer = {} /\ Office \notin Partner \cup Customer
  /\ {Base, None} \cap Tenant = {} /\ None \notin Request /\ Session \subseteq Nat

ASSUME CallersAreTyped ==
  /\ \E n \in Tenant : \A t \in Tenant : t <= n
  /\ None \notin User \cup Session \cup Intent /\ Session \cap Intent = {}
  /\ Direct \subseteq User
  /\ Entry \subseteq [host : Host, partner : Partner \cup {None},
                     path : {"partner", "platform", "other"}, asked : Tenant \cup {None}]
  /\ DOMAIN Adopted = Partner
  /\ \A s \in Session \cap DOMAIN SignedIn :
       SignedIn[s] \in [live : BOOLEAN, user : User, tenant : Tenant, host : Host,
                       partner : Partner \cup {None}, delegated : {FALSE},
                       browser : Browser \cup {None}, from : {None}]
  /\ \A u \in User, d \in BOOLEAN : \A op \in Asks[<<u, d>>] :
       /\ op.kind \in {"create", "enter", "access"} => op.target \in Customer
       /\ op.kind \in {"status", "feature", "member", "credits"} => op.target \in Tenant
       /\ op.target \in Tenant \cup {None}
       /\ op.kind = "access" => op.user \in User
       /\ op.kind = "status" => op.to # "absent"

VARIABLES status, member, link, feature, grant, domain, changes, intent, finishing,
          redeeming, session, jar, request, owner
access == <<status, member, link, feature, grant, domain, changes>>
logins == <<intent, finishing, redeeming>>
vars == <<access, logins, session, jar, request, owner>>

DELEGATED_ROLES == [
  partner_admin    |-> {"pm", "customer_contact", "customer_admin",
                        "campaign_manager", "training_manager"},
  partner_engineer |-> {"engineer"},
  partner_reviewer |-> {"reviewer"},
  partner_sales    |-> {"pm", "customer_contact"},
  partner_finance  |-> {"finance", "billing_manager"}]
PARTNER_ROLES == DOMAIN DELEGATED_ROLES

NoGrant == [roles |-> {}, active |-> FALSE, expired |-> FALSE, version |-> 0]
NoDomain == [status |-> "none", verified |-> FALSE, tls |-> FALSE, version |-> 0]
NoIntent == [phase |-> "none", user |-> None, tenant |-> None, partner |-> None,
             host |-> Base, browser |-> None, path |-> "other"]
NoSession == [live |-> FALSE, user |-> None, tenant |-> None, host |-> Base,
              partner |-> None, delegated |-> FALSE, browser |-> None, from |-> None]
Idle == [phase |-> "idle", session |-> None, op |-> None, want |-> {}, roles |-> {}]

-----------------------------------------------------------------------------
\* What a session is allowed, read from the rows as they are now.

ActivePartner(p) == status[p] = "active"
Served(h) ==
  h # Base =>
    /\ domain[h].status = "ACTIVE" /\ domain[h].verified /\ domain[h].tls
    /\ ActivePartner(h) /\ "custom_domain" \in feature[h]
RolesAt(u, t) == {m[3] : m \in {n \in member : n[1] = u /\ n[2] = t}}
Ceiling(p, u) == UNION {DELEGATED_ROLES[r] : r \in RolesAt(u, p) \cap PARTNER_ROLES}
Granted(p, c, u) ==
  /\ ActivePartner(p) /\ <<p, c>> \in link
  /\ grant[<<p, c, u>>].active /\ grant[<<p, c, u>>].roles # {}
  /\ grant[<<p, c, u>>].roles \subseteq Ceiling(p, u)
EffectiveAccess(p, c, u) == Granted(p, c, u) /\ ~grant[<<p, c, u>>].expired
ScopedSession(x) ==
  /\ Served(x.host) /\ (x.host # Base => x.partner = x.host)
  /\ x.partner # None =>
       /\ ActivePartner(x.partner) /\ "partner_portal" \in feature[x.partner]
       /\ IF x.delegated THEN Granted(x.partner, x.tenant, x.user)
          ELSE x.tenant = x.partner \/ <<x.partner, x.tenant>> \in link
EffectiveRoles(x) ==
  IF x.delegated THEN grant[<<x.partner, x.tenant, x.user>>].roles
                 ELSE RolesAt(x.user, x.tenant)
Standing(x) ==
  /\ ScopedSession(x) /\ EffectiveRoles(x) # {} /\ status[x.tenant] = "active"
Permitted(x) ==
  /\ Standing(x)
  /\ x.delegated => EffectiveAccess(x.partner, x.tenant, x.user)

-----------------------------------------------------------------------------
\* Login: an intent of one browser, an identity, a code redeemed by that browser.

Fresh(i) == intent[i].phase \in {"started", "authenticated"}
\* Mutant: the update does not look whether the intent is authenticated.
ClaimedAgain(i) == intent[i].phase # "expired"
Unclaimed(i) == intent[i].phase = "started"
Eligible(i, u) ==
  {t \in {m[2] : m \in {n \in member : n[1] = u}} :
     /\ intent[i].tenant \in {None, t} /\ status[t] = "active"
     /\ intent[i].partner # None =>
          /\ ActivePartner(intent[i].partner)
          /\ "partner_portal" \in feature[intent[i].partner]
          /\ t = intent[i].partner \/ <<intent[i].partner, t>> \in link
     /\ intent[i].path = "partner" => RolesAt(u, t) \cap PARTNER_ROLES # {}
     /\ intent[i].path = "platform" => u \in Administrator}

PortalStart(i) ==
  /\ intent[i] = NoIntent
  /\ \E e \in Entry, b \in Browser :
       /\ Served(e.host) /\ (e.host # Base => e.partner = e.host)
       /\ e.partner # None =>
            ActivePartner(e.partner) /\ "partner_portal" \in feature[e.partner]
       /\ e.path = "partner" => e.partner # None
       /\ e.path = "platform" => e.partner = None
       /\ intent' = [intent EXCEPT ![i] =
            [phase |-> "started", user |-> None, partner |-> e.partner, host |-> e.host,
             browser |-> b, path |-> e.path,
             tenant |-> IF e.path = "partner" /\ e.asked = None THEN e.partner ELSE e.asked]]
  /\ UNCHANGED <<access, finishing, redeeming, session, jar, request, owner>>

\* The identity is known and the tenant is chosen, before the intent is claimed.
Identify(i, u) ==
  /\ Fresh(i)
  /\ \E t \in Tenant : /\ Eligible(i, u) = {t}
                       /\ finishing' = finishing \cup {[intent |-> i, user |-> u, tenant |-> t]}
  /\ UNCHANGED <<access, intent, redeeming, session, jar, request, owner>>

\* The compare-and-set: of several identities in flight one gets the code.
ClaimIntent(f) ==
  /\ f.intent \notin redeeming
  /\ intent' = IF Unclaimed(f.intent)
               THEN [intent EXCEPT ![f.intent].phase = "authenticated",
                       ![f.intent].user = f.user, ![f.intent].tenant = f.tenant]
               ELSE intent
  /\ finishing' = finishing \ {f}
  /\ UNCHANGED <<access, redeeming, session, jar, request, owner>>

\* SELECT ... FOR UPDATE on the intent, then the checks of the callback.
Redeem(i) ==
  /\ i \notin redeeming /\ intent[i].phase = "authenticated" /\ Served(intent[i].host)
  /\ Eligible(i, intent[i].user) = {intent[i].tenant}
  /\ redeeming' = redeeming \cup {i}
  /\ UNCHANGED <<access, intent, finishing, session, jar, request, owner>>

Unused(s) == session[s] = NoSession
NewSession(s, b, x) ==
  /\ Unused(s) /\ \A t \in Session : Unused(t) => s <= t
  /\ session' = [t \in Session |->
        CASE t = s -> x
          [] t # s /\ t = jar[b] -> [session[t] EXCEPT !.live = FALSE]
          [] OTHER -> session[t]]
  /\ jar' = [jar EXCEPT ![b] = s]

PortalCallback(i) ==
  /\ i \in redeeming
  /\ \E s \in Session :
       NewSession(s, intent[i].browser,
         [live |-> TRUE, user |-> intent[i].user, tenant |-> intent[i].tenant,
          host |-> intent[i].host, partner |-> intent[i].partner, delegated |-> FALSE,
          browser |-> intent[i].browser, from |-> i])
  /\ intent' = [intent EXCEPT ![i].phase = "consumed"]
  /\ redeeming' = redeeming \ {i}
  /\ UNCHANGED <<access, finishing, request, owner>>

\* Login without an intent, for a person of exactly one organization.
OidcCallback(u, b) ==
  /\ \E t \in Tenant, s \in Session :
       /\ {m[2] : m \in {n \in member : n[1] = u}} = {t}
       /\ Unused(s) /\ \A other \in Session : Unused(other) => s <= other
       /\ session' = [session EXCEPT ![s] = [NoSession EXCEPT !.live = TRUE,
                         !.user = u, !.tenant = t, !.browser = b]]
       /\ jar' = [jar EXCEPT ![b] = s]
  /\ UNCHANGED <<access, logins, request, owner>>

\* Its minutes are over, or the transaction that redeems it fails.
IntentLapses(i) ==
  \/ /\ Fresh(i) /\ i \notin redeeming
     /\ intent' = [intent EXCEPT ![i].phase = "expired"] /\ UNCHANGED redeeming
     /\ UNCHANGED <<access, finishing, session, jar, request, owner>>
  \/ /\ i \in redeeming /\ redeeming' = redeeming \ {i}
     /\ UNCHANGED <<access, intent, finishing, session, jar, request, owner>>

-----------------------------------------------------------------------------
\* A request: its session, its locks, its context, its handler.

\* Mutant: the partner of a delegated session is not locked.
LockIdsOfTenant(x, op) ==
  {x.tenant} \cup (IF op.kind \in {"status", "feature", "member", "credits"}
                  THEN {op.target} ELSE {})
\* Mutant: the customer's wallet is left to the handler.
LockIdsUntilHandled(x, op) ==
  {x.tenant} \cup (IF x.partner = None THEN {} ELSE {x.partner})
             \cup (IF op.kind \in {"status", "feature", "member"} THEN {op.target} ELSE {})

LockIds(x, op) ==
  {x.tenant} \cup (IF x.partner = None THEN {} ELSE {x.partner})
             \cup (IF op.kind \in {"status", "feature", "member"} THEN {op.target} ELSE {})
             \cup (IF op.kind = "credits" /\ <<x.tenant, op.target>> \in link
                   THEN {op.target} ELSE {})

\* The id of an organization is known to callers once its row exists.
Known(op) == op.kind # "create" /\ op.target # None => status[op.target] # "absent"
Arrive(r) ==
  /\ request[r] = Idle
  /\ \E s \in Session, u \in User :
     \E op \in Asks[<<u, session[s].delegated>>] :
       /\ session[s].live /\ session[s].user = u /\ Known(op)
       /\ request' = [request EXCEPT ![r] =
            [phase |-> "waiting", session |-> s, op |-> op, roles |-> {},
             want |-> LockIds(session[s], op)]]
  /\ UNCHANGED <<access, logins, session, jar, owner>>

\* Mutant: locks are taken as they come.
AnyLock(want) == want
NextLock(want) == {t \in want : \A other \in want : t <= other}
Lock(r) ==
  /\ request[r].phase = "waiting"
  /\ \E t \in NextLock(request[r].want) :
       /\ owner[t] = None
       /\ owner' = [owner EXCEPT ![t] = r]
       /\ request' = [request EXCEPT ![r].want = @ \ {t}]
  /\ UNCHANGED <<access, logins, session, jar>>

\* Mutant: the session is not read again under the lock.
ReadBefore(s) == session[s] # NoSession
StillLive(s) == session[s].live
Check(r) ==
  LET x == session[request[r].session] IN
  /\ request[r].phase = "waiting" /\ request[r].want = {}
  /\ StillLive(request[r].session) /\ Permitted(x)
  /\ request' = [request EXCEPT ![r].phase = "checked", ![r].roles = EffectiveRoles(x)]
  /\ UNCHANGED <<access, logins, session, jar, owner>>

Done(r) ==
  /\ request' = [request EXCEPT ![r] = Idle]
  /\ owner' = [t \in Tenant |-> IF owner[t] = r THEN None ELSE owner[t]]
\* A refusal or a failure: the transaction is rolled back, its locks are released.
Abort(r) ==
  /\ request[r] # Idle /\ Done(r)
  /\ UNCHANGED <<access, logins, session, jar>>

Change == changes < MaxChanges /\ changes' = changes + 1
Handling(r, kind) == request[r].phase = "checked" /\ request[r].op.kind = kind
Caller(r) == session[request[r].session]
IsPartner(r, roles) ==
  /\ Caller(r).tenant \in Partner /\ ActivePartner(Caller(r).tenant)
  /\ request[r].roles \cap roles # {} /\ "partner_portal" \in feature[Caller(r).tenant]
IsPlatform(r) == Caller(r).user \in Administrator

\* Any other mutation, a transfer of credits among them: no access changes.
Work(r) ==
  /\ request[r].phase = "checked" /\ request[r].op.kind \in {"work", "credits"}
  /\ Done(r) /\ UNCHANGED <<access, logins, session, jar>>

Logout(r) ==
  /\ Handling(r, "logout") /\ Done(r)
  /\ session' = [session EXCEPT ![request[r].session].live = FALSE]
  /\ UNCHANGED <<access, logins, jar>>

Successor(r, t, partner, delegated) ==
  \E s \in Session :
    /\ Unused(s) /\ \A other \in Session : Unused(other) => s <= other
    /\ session' = [session EXCEPT ![request[r].session].live = FALSE,
         ![s] = [Caller(r) EXCEPT !.live = TRUE, !.tenant = t, !.partner = partner,
                                  !.delegated = delegated, !.from = request[r].session]]
    /\ jar' = [jar EXCEPT ![Caller(r).browser] = s]

EnterCustomer(r) ==
  LET c == request[r].op.target IN
  /\ Handling(r, "enter") /\ IsPartner(r, PARTNER_ROLES)
  /\ EffectiveAccess(Caller(r).tenant, c, Caller(r).user) /\ status[c] = "active"
  /\ Successor(r, c, Caller(r).tenant, TRUE) /\ Done(r)
  /\ UNCHANGED <<access, logins>>

ReturnPartner(r) ==
  /\ Handling(r, "return") /\ Caller(r).delegated
  /\ Successor(r, Caller(r).partner, Caller(r).partner, FALSE) /\ Done(r)
  /\ UNCHANGED <<access, logins>>

CreateCustomer(r) ==
  LET c == request[r].op.target IN
  /\ Handling(r, "create") /\ IsPartner(r, {"partner_admin", "partner_sales"})
  /\ status[c] = "absent"
  /\ status' = [status EXCEPT ![c] = "active"]
  /\ link' = link \cup {<<Caller(r).tenant, c>>}
  /\ Done(r) /\ UNCHANGED <<member, feature, grant, domain, changes, logins, session, jar>>

\* Within the ceiling of the person it is given to, and only over the version read.
SetAccess(r) ==
  LET op == request[r].op  p == Caller(r).tenant  g == grant[<<p, op.target, op.user>>] IN
  /\ Handling(r, "access") /\ IsPartner(r, {"partner_admin"}) /\ <<p, op.target>> \in link
  /\ RolesAt(op.user, p) # {} /\ op.roles \subseteq Ceiling(p, op.user)
  /\ op.active => op.roles # {}
  /\ g.version = op.expected /\ g.version < MaxVersion
  /\ grant' = [grant EXCEPT ![<<p, op.target, op.user>>] =
                 [roles |-> op.roles, active |-> op.active, expired |-> FALSE,
                  version |-> g.version + 1]]
  /\ Done(r)
  /\ UNCHANGED <<status, member, link, feature, domain, changes, logins, session, jar>>

GrantExpires(p, c, u) ==
  /\ grant[<<p, c, u>>].active /\ ~grant[<<p, c, u>>].expired
  /\ Change /\ grant' = [grant EXCEPT ![<<p, c, u>>].expired = TRUE]
  /\ UNCHANGED <<status, member, link, feature, domain, logins, session, jar, request, owner>>

\* A domain of the partner: registered, challenged anew, verified from outside, disabled.
DomainAfter(d, step, found) ==
  CASE step = "register"  -> [NoDomain EXCEPT !.status = "PENDING"]
    [] step = "challenge" -> [NoDomain EXCEPT !.status = "PENDING"]
    [] step = "verify"    -> [status |-> IF found = "tls" THEN "ACTIVE" ELSE "VERIFYING",
                              verified |-> found # "nothing", tls |-> found = "tls",
                              version |-> 0]
    [] step = "disable"   -> [d EXCEPT !.status = "DISABLED"]
DomainStepAllowed(d, step) ==
  CASE step = "register"  -> d = NoDomain
    [] step = "challenge" -> d.status \in {"PENDING", "VERIFYING", "FAILED", "DISABLED"}
    [] step = "verify"    -> d.status \notin {"none", "DISABLED"}
    [] step = "disable"   -> d # NoDomain
ChangeDomain(r) ==
  LET op == request[r].op  p == Caller(r).tenant IN
  /\ Handling(r, "domain") /\ IsPartner(r, {"partner_admin"})
  /\ op.step # "disable" => "custom_domain" \in feature[p]
  /\ domain[p].version = op.expected /\ domain[p].version < MaxVersion
  /\ DomainStepAllowed(domain[p], op.step)
  /\ \E found \in {"nothing", "ownership", "tls"} :
       domain' = [domain EXCEPT ![p] =
         [DomainAfter(domain[p], op.step, found) EXCEPT !.version = domain[p].version + 1]]
  /\ Change /\ Done(r)
  /\ UNCHANGED <<status, member, link, feature, grant, logins, session, jar>>

SetStatus(r) ==
  LET op == request[r].op IN
  /\ Handling(r, "status") /\ IsPlatform(r)
  /\ status[op.target] = op.expected
  /\ status' = [status EXCEPT ![op.target] = op.to]
  /\ Change /\ Done(r)
  /\ UNCHANGED <<member, link, feature, grant, domain, logins, session, jar>>

SetFeature(r) ==
  LET op == request[r].op IN
  /\ Handling(r, "feature") /\ IsPlatform(r) /\ status[op.target] # "absent"
  /\ feature' = [feature EXCEPT ![op.target] =
                   IF op.enabled THEN @ \cup {op.code} ELSE @ \ {op.code}]
  /\ Change /\ Done(r)
  /\ UNCHANGED <<status, member, link, grant, domain, logins, session, jar>>

SetMember(r) ==
  LET op == request[r].op  row == <<op.user, op.target, op.role>> IN
  /\ Handling(r, "member") /\ IsPlatform(r) /\ status[op.target] # "absent"
  /\ member' = IF op.active THEN member \cup {row} ELSE member \ {row}
  /\ Change /\ Done(r)
  /\ UNCHANGED <<status, link, feature, grant, domain, logins, session, jar>>

-----------------------------------------------------------------------------
Init ==
  /\ status = [t \in Tenant |-> IF t \in Customer THEN "absent" ELSE "active"]
  /\ member = Staff /\ link = {}
  /\ feature = [t \in Tenant |-> IF t \in Partner THEN {"partner_portal", "custom_domain"} ELSE {}]
  /\ grant = [pcu \in Partner \X Customer \X User |-> NoGrant]
  /\ domain = Adopted /\ changes = 0
  /\ intent = [i \in Intent |-> NoIntent] /\ finishing = {} /\ redeeming = {}
  /\ session = [s \in Session |-> IF s \in DOMAIN SignedIn THEN SignedIn[s] ELSE NoSession]
  /\ jar = [b \in Browser |-> None]
  /\ request = [r \in Request |-> Idle] /\ owner = [t \in Tenant |-> None]

Login ==
  \/ \E i \in Intent : PortalStart(i) \/ Redeem(i) \/ PortalCallback(i) \/ IntentLapses(i)
  \/ \E i \in Intent, u \in User : Identify(i, u)
  \/ \E u \in Direct, b \in Browser : OidcCallback(u, b)
  \/ \E f \in finishing : ClaimIntent(f)
Handle(r) ==
  \/ Work(r) \/ Logout(r) \/ EnterCustomer(r) \/ ReturnPartner(r) \/ CreateCustomer(r)
  \/ SetAccess(r) \/ ChangeDomain(r) \/ SetStatus(r) \/ SetFeature(r) \/ SetMember(r)
Next ==
  \/ Login
  \/ \E p \in Partner, c \in Customer, u \in User : GrantExpires(p, c, u)
  \/ \E r \in Request : Arrive(r) \/ Lock(r) \/ Check(r) \/ Abort(r) \/ Handle(r)

Spec == Init /\ [][Next]_vars

-----------------------------------------------------------------------------
(***************************************************************************)
(* A context that was computed stays true until the transaction ends: no   *)
(* suspension, lost role, narrowed or withdrawn grant, disabled feature or *)
(* domain can commit between the check of a request and its last write.    *)
(* (The clock and a new login of the same browser are not held back.)      *)
(***************************************************************************)
ContextStaysTrue ==
  \A r \in Request : request[r].phase = "checked" =>
    Standing(Caller(r)) /\ request[r].roles = EffectiveRoles(Caller(r))

(***************************************************************************)
(* Requests never wait for each other in a circle, whatever organizations  *)
(* they concern and in whatever role these organizations appear.           *)
(***************************************************************************)
WaitsFor(r, other) ==
  /\ request[r].phase = "waiting" /\ other # r
  /\ \E t \in NextLock(request[r].want) : owner[t] = other
NoCircularWait ==
  \A S \in (SUBSET Request) \ {{}} : \E r \in S : \A other \in S : ~WaitsFor(r, other)

(***************************************************************************)
(* A transfer of credits holds the wallets of both sides when its handler  *)
(* starts, although the customer's lock is chosen by an unlocked read of   *)
(* the link: the handler never takes a lock out of order.                  *)
(***************************************************************************)
TransferHoldsBoth ==
  \A r \in Request :
    /\ Handling(r, "credits") /\ <<Caller(r).tenant, request[r].op.target>> \in link
    => owner[request[r].op.target] = r /\ owner[Caller(r).tenant] = r

(***************************************************************************)
(* Whatever is retried or answered twice, an intent yields one session,    *)
(* and a session that enters a customer or returns is replaced by one.     *)
(***************************************************************************)
OneSuccessor ==
  \A s, t \in Session : s # t /\ session[s].from # None => session[s].from # session[t].from

(***************************************************************************)
(* The session a login ends in is that of the identity that claimed the    *)
(* intent, at the place and in the browser it was begun in.                *)
(***************************************************************************)
LoginAsBegun ==
  \A s \in Session : session[s].from \in Intent =>
    LET i == intent[session[s].from] IN
    /\ i.phase = "consumed"
    /\ <<session[s].user, session[s].tenant, session[s].host, session[s].partner,
         session[s].browser>> = <<i.user, i.tenant, i.host, i.partner, i.browser>>

(***************************************************************************)
(* The locks of requests are taken in one order, also the second one of a  *)
(* transfer, and a transfer never goes on without it (security.py:100).    *)
(***************************************************************************)
LocksInOrder == NoCircularWait /\ TransferHoldsBoth

(***************************************************************************)
(* Sessions come from logins and from each other one by one, each for whom *)
(* and where it was asked for (portal_auth.py:97, security.py:152).        *)
(***************************************************************************)
SessionsFollowLogins == OneSuccessor /\ LoginAsBegun
===============================================================================
