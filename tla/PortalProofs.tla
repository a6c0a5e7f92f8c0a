----------------------------- MODULE PortalProofs -----------------------------
(***************************************************************************)
(* Theorems about login and access, for any organizations, users, logins,  *)
(* sessions, requests and operations.                                      *)
(***************************************************************************)
EXTENDS PortalAccess, WellFoundedInduction, TLAPS

SessionRow ==
  [live : BOOLEAN, user : User \cup {None}, tenant : Tenant \cup {None}, host : Host,
   partner : Partner \cup {None}, delegated : BOOLEAN, browser : Browser \cup {None},
   from : Session \cup Intent \cup {None}]
IntentRow ==
  [phase : {"none", "started", "authenticated", "expired", "consumed"},
   user : User \cup {None}, tenant : Tenant \cup {None}, partner : Partner \cup {None},
   host : Host, browser : Browser \cup {None}, path : {"partner", "platform", "other"}]
Op == UNION {Asks[<<u, d>>] : u \in User, d \in BOOLEAN}

\* The tables have their columns; of roles and operations only what locks depend on.
AccessTyped ==
  /\ DOMAIN status = Tenant /\ DOMAIN feature = Tenant /\ DOMAIN domain = Partner
  /\ link \subseteq Partner \X Customer /\ DOMAIN grant = Partner \X Customer \X User
  /\ \A k \in Partner \X Customer \X User :
       DOMAIN grant[k] = {"roles", "active", "expired", "version"}
LoginsTyped ==
  /\ intent \in [Intent -> IntentRow]
  /\ \A i \in Intent : intent[i].phase = "authenticated" =>
       intent[i].user \in User /\ intent[i].tenant \in Tenant
  /\ finishing \subseteq [intent : Intent, user : User, tenant : Tenant]
  /\ redeeming \subseteq {i \in Intent : intent[i].phase = "authenticated"}
SessionsTyped ==
  /\ session \in [Session -> SessionRow]
  /\ \A s \in Session : session[s] # NoSession =>
       /\ session[s].user \in User /\ session[s].tenant \in Tenant
       /\ session[s].delegated => session[s].partner \in Partner
RequestsTyped ==
  /\ DOMAIN request = Request
  /\ \A r \in Request :
       /\ DOMAIN request[r] = {"phase", "session", "op", "want", "roles"}
       /\ request[r].phase \in {"idle", "waiting", "checked"}
       /\ request[r].phase # "idle" =>
            /\ request[r].session \in Session /\ Caller(r) # NoSession
            /\ request[r].op \in Op /\ request[r].want \subseteq Tenant
  /\ owner \in [Tenant -> Request \cup {None}]
Typed == AccessTyped /\ LoginsTyped /\ SessionsTyped /\ RequestsTyped

-----------------------------------------------------------------------------
\* What one step does to sessions, requests and locks.

LEMMA OpFacts ==
  ASSUME NEW op \in Op
  PROVE  /\ op.kind \in {"create", "enter", "access"} => op.target \in Customer
         /\ op.kind \in {"status", "feature", "member", "credits"} => op.target \in Tenant
         /\ op.target \in Tenant \cup {None}
         /\ op.kind = "access" => op.user \in User
         /\ op.kind = "status" => op.to # "absent"
<1>1. PICK u \in User, d \in BOOLEAN : op \in Asks[<<u, d>>]
  BY DEF Op
<1> QED
  BY <1>1, CallersAreTyped

\* A session that was used keeps all but its being live.
Kept(s) ==
  session'[s] = session[s] \/ session'[s] = [session[s] EXCEPT !.live = FALSE]

LEMMA UsedStays ==
  ASSUME SessionsTyped, NEW s \in Session, session[s] # NoSession, Kept(s)
  PROVE  session'[s] # NoSession /\ session'[s] \in SessionRow
<1>1. session[s].user # None
  BY CallersAreTyped DEF SessionsTyped
<1>2. session[s] \in SessionRow
  BY DEF SessionsTyped
<1>3. CASE session'[s] = session[s]
  BY <1>2, <1>3
<1>4. CASE session'[s] = [session[s] EXCEPT !.live = FALSE]
  <2>1. session'[s].user = session[s].user
    BY <1>2, <1>4 DEF SessionRow
  <2>2. session'[s] \in SessionRow
    BY <1>2, <1>4 DEF SessionRow
  <2> QED
    BY <1>1, <2>1, <2>2 DEF NoSession
<1> QED
  BY <1>3, <1>4 DEF Kept

Succeeds(r, t, p, d, s) ==
  /\ session[s] = NoSession /\ s # request[r].session
  /\ session'[s] \in SessionRow
  /\ session'[s] = [Caller(r) EXCEPT !.live = TRUE, !.tenant = t, !.partner = p,
                     !.delegated = d, !.from = request[r].session]
  /\ session'[request[r].session] = [Caller(r) EXCEPT !.live = FALSE]
  /\ session' = [o \in Session |-> session'[o]]
  /\ \A o \in Session \ {s, request[r].session} : session'[o] = session[o]
LEMMA SuccessorEffect ==
  ASSUME Typed, NEW r \in Request, request[r].phase = "checked",
         NEW t \in Tenant, NEW p \in Partner, NEW d \in BOOLEAN, Successor(r, t, p, d)
  PROVE  \E s \in Session : Succeeds(r, t, p, d, s)
<1>1. PICK s \in Session :
        /\ Unused(s)
        /\ session' = [session EXCEPT ![request[r].session].live = FALSE,
             ![s] = [Caller(r) EXCEPT !.live = TRUE, !.tenant = t, !.partner = p,
                                  !.delegated = d, !.from = request[r].session]]
  BY DEF Successor
<1>2. /\ request[r].session \in Session /\ Caller(r) # NoSession
      /\ Caller(r) \in SessionRow /\ session \in [Session -> SessionRow]
  BY DEF Typed, RequestsTyped, SessionsTyped, Caller
<1>3. session[s] = NoSession /\ s # request[r].session
  BY <1>1, <1>2 DEF Unused, Caller
<1>4. [Caller(r) EXCEPT !.live = TRUE, !.tenant = t, !.partner = p,
                                  !.delegated = d, !.from = request[r].session] \in SessionRow
  BY <1>2 DEF SessionRow
<1> QED
  BY <1>1, <1>2, <1>3, <1>4 DEF Caller, Succeeds

\* The steps that leave requests alone, and those that end one.
Apart == UNCHANGED <<request, owner>>
LEMMA Shape ==
  ASSUME Next
  PROVE  \/ Apart
         \/ \E q \in Request : Arrive(q) \/ Lock(q) \/ Check(q)
         \/ \E q \in Request : Done(q)
<1>1. Login => Apart
  BY DEF Login, PortalStart, Redeem, PortalCallback, IntentLapses, Identify, OidcCallback,
         ClaimIntent, Apart
<1>2. \A p, c, u : GrantExpires(p, c, u) => Apart
  BY DEF GrantExpires, Apart
<1>3. \A r : Handle(r) => Done(r)
  BY DEF Handle, Work, Logout, EnterCustomer, ReturnPartner, CreateCustomer, SetAccess,
         ChangeDomain, SetStatus, SetFeature, SetMember
<1>4. \A r : Abort(r) => Done(r)
  BY DEF Abort
<1> QED
  BY <1>1, <1>2, <1>3, <1>4 DEF Next

\* A new session stands in a row not used before; the others keep all but their life.
NewOne(s) == session[s] = NoSession /\ \A o \in Session \ {s} : Kept(o)
SessionsKept == \A s \in Session : session[s] # NoSession => Kept(s)

LEMMA KeptRow ==
  ASSUME Typed, NEW o \in Session, Kept(o)
  PROVE  /\ session'[o] \in SessionRow
         /\ session'[o] # NoSession =>
              /\ session'[o].user \in User /\ session'[o].tenant \in Tenant
              /\ session'[o].delegated => session'[o].partner \in Partner
<1>1. CASE session'[o] = session[o]
  BY <1>1 DEF Typed, SessionsTyped
<1>2. CASE session'[o] = [session[o] EXCEPT !.live = FALSE]
  <2>1. session[o] \in SessionRow
    BY DEF Typed, SessionsTyped
  <2>2. /\ session'[o].user = session[o].user /\ session'[o].tenant = session[o].tenant
        /\ session'[o].delegated = session[o].delegated
        /\ session'[o].partner = session[o].partner /\ session'[o] \in SessionRow
    BY <2>1, <1>2 DEF SessionRow
  <2>3. [NoSession EXCEPT !.live = FALSE] = NoSession
    <3>1. NoSession = [live |-> NoSession.live, user |-> None, tenant |-> None, host |-> Base,
              partner |-> None, delegated |-> FALSE, browser |-> None, from |-> None]
      BY DEF NoSession
    <3>2. NoSession.live = FALSE
      BY DEF NoSession
    <3>3. DOMAIN NoSession = {"live", "user", "tenant", "host", "partner", "delegated",
                              "browser", "from"}
      BY DEF NoSession
    <3> HIDE DEF NoSession
    <3>4. NoSession = [k \in DOMAIN NoSession |-> NoSession[k]]
      BY DEF NoSession
    <3> QED
      BY <3>2, <3>3, <3>4
  <2>4. session[o] = NoSession => session'[o] = NoSession
    BY <2>3, <1>2
  <2> QED
    BY <2>2, <2>4 DEF Typed, SessionsTyped
<1> QED
  BY <1>1, <1>2 DEF Kept

LEMMA NewRow ==
  ASSUME Typed, NEW s \in Session, NewOne(s),
         session' = [o \in Session |-> session'[o]],
         session'[s] \in SessionRow, session'[s].user \in User,
         session'[s].tenant \in Tenant,
         session'[s].delegated => session'[s].partner \in Partner
  PROVE  SessionsTyped' /\ SessionsKept
<1>1. ASSUME NEW o \in Session
      PROVE  /\ session'[o] \in SessionRow
             /\ session'[o] # NoSession =>
                  /\ session'[o].user \in User /\ session'[o].tenant \in Tenant
                  /\ session'[o].delegated => session'[o].partner \in Partner
  BY KeptRow DEF NewOne
<1>2. session' \in [Session -> SessionRow]
  BY <1>1
<1>3. SessionsKept
  BY DEF SessionsKept, NewOne
<1> QED
  BY <1>1, <1>2, <1>3 DEF SessionsTyped

LEMMA AllKept ==
  ASSUME Typed, \A s \in Session : Kept(s), session' = [s \in Session |-> session'[s]]
  PROVE  SessionsTyped' /\ SessionsKept
BY KeptRow DEF SessionsTyped, SessionsKept

\* Where a step's new session comes from, if it makes one.
LoginRow(i) == [live |-> TRUE, user |-> intent[i].user, tenant |-> intent[i].tenant,
          host |-> intent[i].host, partner |-> intent[i].partner, delegated |-> FALSE,
          browser |-> intent[i].browser, from |-> i]
OriginMoves ==
  \/ \A s \in Session : Kept(s)
  \/ \E s \in Session : NewOne(s) /\ session'[s].from = None
  \/ \E s \in Session, i \in Intent :
       NewOne(s) /\ session'[s] = LoginRow(i) /\ PortalCallback(i)
  \/ \E s \in Session, r \in Request :
       /\ request[r].phase = "checked" /\ Done(r) /\ NewOne(s)
       /\ session'[s].from = request[r].session /\ ~session'[request[r].session].live
SessionMoves == SessionsTyped' /\ SessionsKept /\ OriginMoves

LEMMA SessionStep ==
  ASSUME Typed, [Next]_vars
  PROVE  SessionMoves
<1>1. ASSUME UNCHANGED session PROVE SessionMoves
  BY <1>1 DEF Typed, SessionsTyped, SessionsKept, Kept, SessionMoves, OriginMoves
<1>2. ASSUME NEW i \in Intent, PortalCallback(i) PROVE SessionMoves
  <2> DEFINE X == LoginRow(i)
  <2>1. PICK s \in Session : NewSession(s, intent[i].browser, X)
    BY <1>2 DEF PortalCallback, LoginRow
  <2>2. i \in Intent /\ intent[i] \in IntentRow /\ intent[i].user \in User
        /\ intent[i].tenant \in Tenant
    BY <1>2 DEF PortalCallback, Typed, LoginsTyped
  <2>3. X \in SessionRow /\ X.user \in User /\ X.tenant \in Tenant /\ ~X.delegated
    BY <2>2 DEF SessionRow, IntentRow, LoginRow
  <2> HIDE DEF X
  <2>4. session[s] = NoSession /\ session' = [t \in Session |->
        CASE t = s -> X
          [] t # s /\ t = jar[intent[i].browser] -> [session[t] EXCEPT !.live = FALSE]
          [] OTHER -> session[t]]
    BY <2>1 DEF NewSession, Unused
  <2>5. session' = [o \in Session |-> session'[o]] /\ session'[s] = X
    BY <2>4
  <2>6. NewOne(s)
    BY <2>4 DEF NewOne, Kept
  <2> QED
    <3>1. OriginMoves
      BY <1>2, <2>5, <2>6 DEF X, OriginMoves
    <3> QED
      BY <2>3, <2>5, <2>6, <3>1, NewRow DEF SessionMoves
<1>3. ASSUME NEW u \in User, NEW b \in Browser, OidcCallback(u, b)
      PROVE  SessionMoves
  <2> DEFINE X(t) == [NoSession EXCEPT !.live = TRUE, !.user = u, !.tenant = t, !.browser = b]
  <2>1. PICK t \in Tenant, s \in Session :
          session[s] = NoSession /\ session' = [session EXCEPT ![s] = X(t)]
    BY <1>3 DEF OidcCallback, Unused
  <2>2. X(t) \in SessionRow /\ X(t).user \in User /\ X(t).tenant \in Tenant /\ ~X(t).delegated
    BY DEF SessionRow, NoSession, Host
  <2>3. DOMAIN session = Session /\ session = [o \in Session |-> session[o]]
    BY DEF Typed, SessionsTyped
  <2> HIDE DEF X
  <2>4. session' = [o \in Session |-> session'[o]] /\ session'[s] = X(t)
    BY <2>1, <2>3
  <2>5. NewOne(s)
    BY <2>1, <2>3 DEF NewOne, Kept
  <2>6. X(t).from = None
    BY DEF X, NoSession
  <2> QED
    BY <2>2, <2>4, <2>5, <2>6, NewRow DEF SessionMoves, OriginMoves
<1>4. ASSUME NEW r \in Request, NEW t \in Tenant, NEW p \in Partner, NEW d \in BOOLEAN,
             request[r].phase = "checked", Done(r), Successor(r, t, p, d)
      PROVE  SessionMoves
  <2>1. PICK s \in Session : Succeeds(r, t, p, d, s)
    BY <1>4, SuccessorEffect
  <2> USE DEF Succeeds
  <2>2. Caller(r) \in SessionRow /\ Caller(r).user \in User
    BY <1>4 DEF Typed, RequestsTyped, SessionsTyped, Caller
  <2>3. /\ session'[s].user \in User /\ session'[s].tenant \in Tenant
        /\ session'[s].partner \in Partner
    BY <2>1, <2>2 DEF SessionRow
  <2>4. NewOne(s)
    BY <2>1 DEF NewOne, Kept, Caller
  <2>5. session'[s].from = request[r].session /\ ~session'[request[r].session].live
    BY <2>1, <2>2 DEF SessionRow
  <2> QED
    BY <1>4, <2>1, <2>3, <2>4, <2>5, NewRow DEF SessionMoves, OriginMoves
<1>5. ASSUME NEW r \in Request, Logout(r) PROVE SessionMoves
  <2>1. session' = [session EXCEPT ![request[r].session].live = FALSE]
    BY <1>5 DEF Logout
  <2>2. \A s \in Session : Kept(s)
    BY <2>1 DEF Kept, Typed, SessionsTyped
  <2>3. session' = [o \in Session |-> session'[o]]
    BY <2>1 DEF Typed, SessionsTyped
  <2> QED
    BY <2>2, <2>3, AllKept DEF SessionMoves, OriginMoves
<1>6. ASSUME NEW r \in Request, EnterCustomer(r) PROVE SessionMoves
  <2>1. request[r].phase = "checked" /\ Caller(r).tenant \in Partner
    BY <1>6 DEF EnterCustomer, Handling, IsPartner
  <2>2. request[r].op \in Op /\ request[r].op.kind = "enter"
    BY <1>6, <2>1 DEF EnterCustomer, Handling, Typed, RequestsTyped
  <2>3. request[r].op.target \in Tenant
    BY <2>2, OpFacts DEF Tenant
  <2>4. Successor(r, request[r].op.target, Caller(r).tenant, TRUE) /\ Done(r)
    BY <1>6 DEF EnterCustomer
  <2> QED
    BY <2>1, <2>3, <2>4, <1>4
<1>7. ASSUME NEW r \in Request, ReturnPartner(r) PROVE SessionMoves
  <2>1. request[r].phase = "checked" /\ Caller(r).delegated
    BY <1>7 DEF ReturnPartner, Handling
  <2>2. Caller(r).partner \in Partner /\ Caller(r).partner \in Tenant
    BY <2>1 DEF Typed, RequestsTyped, SessionsTyped, Caller, Tenant
  <2>3. Successor(r, Caller(r).partner, Caller(r).partner, FALSE) /\ Done(r)
    BY <1>7 DEF ReturnPartner
  <2> QED
    BY <2>1, <2>2, <2>3, <1>4
<1>8. Login => SessionMoves
  BY <1>1, <1>2, <1>3, CallersAreTyped
     DEF Login, PortalStart, Redeem, IntentLapses, Identify, ClaimIntent
<1>9. ASSUME NEW r \in Request, Handle(r) PROVE SessionMoves
  BY <1>1, <1>5, <1>6, <1>7, <1>9
     DEF Handle, Work, CreateCustomer, SetAccess, ChangeDomain, SetStatus, SetFeature, SetMember
<1>10. ASSUME NEW r \in Request, Arrive(r) \/ Lock(r) \/ Check(r) \/ Abort(r)
       PROVE SessionMoves
  BY <1>1, <1>10 DEF Arrive, Lock, Check, Abort
<1>11. (\E p, c, u : GrantExpires(p, c, u)) => UNCHANGED session
  BY DEF GrantExpires
<1> QED
  BY <1>1, <1>8, <1>9, <1>10, <1>11 DEF Next, vars

\* The login tables keep their types; an intent whose session is being made stays claimed.
LEMMA LoginStep ==
  ASSUME Typed, [Next]_vars
  PROVE  LoginsTyped'
<1> USE DEF Typed, LoginsTyped
<1>1. UNCHANGED logins => LoginsTyped'
  BY DEF logins
<1>2. ASSUME NEW i \in Intent, PortalStart(i) PROVE LoginsTyped'
  <2>1. PICK e \in Entry, b \in Browser : intent' = [intent EXCEPT ![i] =
            [phase |-> "started", user |-> None, partner |-> e.partner, host |-> e.host,
             browser |-> b, path |-> e.path,
             tenant |-> IF e.path = "partner" /\ e.asked = None THEN e.partner ELSE e.asked]]
    BY <1>2 DEF PortalStart
  <2>2. /\ e.host \in Host /\ e.partner \in Partner \cup {None}
        /\ e.path \in {"partner", "platform", "other"} /\ e.asked \in Tenant \cup {None}
    BY CallersAreTyped
  <2>3. intent'[i] \in IntentRow /\ intent'[i].phase = "started"
    BY <2>1, <2>2 DEF IntentRow, Tenant
  <2>4. intent' \in [Intent -> IntentRow]
    BY <2>1, <2>3
  <2>5. UNCHANGED <<finishing, redeeming>> /\ i \notin redeeming
    BY <1>2 DEF PortalStart, NoIntent
  <2> QED
    BY <2>1, <2>3, <2>4, <2>5
<1>3. ASSUME NEW i \in Intent, NEW u \in User, Identify(i, u) PROVE LoginsTyped'
  BY <1>3 DEF Identify
<1>4. ASSUME NEW f \in finishing, ClaimIntent(f) PROVE LoginsTyped'
  <2>1. f.intent \in Intent /\ f.user \in User /\ f.tenant \in Tenant
    OBVIOUS
  <2>2. CASE Unclaimed(f.intent)
    <3>1. /\ f.intent \notin redeeming /\ redeeming' = redeeming
          /\ finishing' = finishing \ {f}
          /\ intent' = [intent EXCEPT ![f.intent].phase = "authenticated",
                       ![f.intent].user = f.user, ![f.intent].tenant = f.tenant]
      BY <1>4, <2>2 DEF ClaimIntent
    <3>2. intent'[f.intent] = [intent[f.intent] EXCEPT !.phase = "authenticated",
                       !.user = f.user, !.tenant = f.tenant]
      BY <3>1, <2>1
    <3>3. /\ intent'[f.intent] \in IntentRow /\ intent'[f.intent].user = f.user
          /\ intent'[f.intent].tenant = f.tenant
          /\ intent'[f.intent].phase = "authenticated"
      <4>1. intent[f.intent] \in IntentRow
        BY <2>1
      <4> HIDE DEF Typed, LoginsTyped
      <4> QED
        BY <4>1, <3>2, <2>1 DEF IntentRow
    <3>4. \A i \in Intent \ {f.intent} : intent'[i] = intent[i]
      BY <3>1
    <3>5. DOMAIN intent' = Intent /\ intent' \in [Intent -> IntentRow]
      BY <3>1, <3>3, <3>4
    <3> QED
      BY <3>1, <3>3, <3>4, <3>5, <2>1, ZenonT(40)
  <2>3. CASE ~Unclaimed(f.intent)
    BY <1>4, <2>3 DEF ClaimIntent
  <2> QED
    BY <2>2, <2>3
<1>5. ASSUME NEW i \in Intent, Redeem(i) PROVE LoginsTyped'
  BY <1>5 DEF Redeem
<1>6. ASSUME NEW i \in Intent, NEW ph \in {"expired", "consumed"},
             intent' = [intent EXCEPT ![i].phase = ph],
             finishing' = finishing, redeeming' \subseteq redeeming \ {i}
      PROVE  LoginsTyped'
  <2>1. intent'[i] \in IntentRow /\ intent'[i].phase = ph
    BY <1>6 DEF IntentRow
  <2>2. \A j \in Intent \ {i} : intent'[j] = intent[j]
    BY <1>6
  <2>3. intent' \in [Intent -> IntentRow]
    BY <1>6, <2>1, <2>2
  <2> QED
    BY <1>6, <2>1, <2>2, <2>3
<1>7. ASSUME NEW i \in Intent, PortalCallback(i) PROVE LoginsTyped'
  BY <1>6, <1>7 DEF PortalCallback
<1>8. ASSUME NEW i \in Intent, IntentLapses(i) PROVE LoginsTyped'
  <2>1. CASE Fresh(i) /\ i \notin redeeming /\ intent' = [intent EXCEPT ![i].phase = "expired"]
             /\ UNCHANGED <<redeeming, finishing>>
    BY <1>6, <2>1, ZenonT(40)
  <2>2. CASE redeeming' = redeeming \ {i} /\ UNCHANGED <<intent, finishing>>
    BY <2>2
  <2> QED
    BY <1>8, <2>1, <2>2 DEF IntentLapses
<1>9. ASSUME NEW u, NEW b, OidcCallback(u, b) PROVE UNCHANGED logins
  BY <1>9 DEF OidcCallback
<1>10. Login => LoginsTyped'
  BY <1>1, <1>2, <1>3, <1>4, <1>5, <1>7, <1>8, <1>9 DEF Login
<1>11. \A r : Handle(r) => UNCHANGED logins
  BY DEF Handle, Work, Logout, EnterCustomer, ReturnPartner, CreateCustomer, SetAccess,
         ChangeDomain, SetStatus, SetFeature, SetMember
<1>12. \A r : Arrive(r) \/ Lock(r) \/ Check(r) \/ Abort(r) => UNCHANGED logins
  BY DEF Arrive, Lock, Check, Abort
<1>13. \A p, c, u : GrantExpires(p, c, u) => UNCHANGED logins
  BY DEF GrantExpires
<1> QED
  BY <1>1, <1>10, <1>11, <1>12, <1>13 DEF Next, vars

-----------------------------------------------------------------------------
(***************************************************************************)
(* A request that has begun has, or still waits for, the lock of every     *)
(* organization its context or its handler depends on; the customer of a   *)
(* transfer too, since no link to a known organization appears later.      *)
(* What it has is below what it waits for.                                 *)
(***************************************************************************)
Holds(r, t) == t \in request[r].want \/ owner[t] = r
GuardedBy(r) ==
  /\ Holds(r, Caller(r).tenant)
  /\ Caller(r).partner # None => Holds(r, Caller(r).partner)
  /\ request[r].op.kind \in {"status", "feature", "member"} => Holds(r, request[r].op.target)
  /\ request[r].op.kind = "credits" /\ <<Caller(r).tenant, request[r].op.target>> \in link
       => Holds(r, request[r].op.target)
  /\ Known(request[r].op)
  /\ request[r].phase = "checked" => request[r].want = {}
Guarded == \A r \in Request : request[r].phase # "idle" => GuardedBy(r)
Ordered ==
  \A t \in Tenant, r \in Request : owner[t] = r =>
    request[r].phase # "idle" /\ \A w \in request[r].want : t < w

\* What a context reads of an organization.
SameAt(t) ==
  /\ status'[t] = status[t] /\ feature'[t] = feature[t]
  /\ t \in Partner =>
       /\ domain'[t] = domain[t]
       /\ \A c \in Customer, u \in User :
            /\ grant'[<<t, c, u>>].roles = grant[<<t, c, u>>].roles
            /\ grant'[<<t, c, u>>].active = grant[<<t, c, u>>].active
  /\ \A u \in User : RolesAt(u, t)' = RolesAt(u, t)
\* It changes only under a lock whose holder ends with that, or when it is created.
Covered(t) ==
  \/ SameAt(t)
  \/ status[t] = "absent"
  \/ \E q \in Request : request[q].phase = "checked" /\ owner[t] = q /\ request'[q] = Idle
AccessMoves ==
  /\ AccessTyped' /\ link \subseteq link'
  /\ \A pc \in link' : pc \in link \/ status[pc[2]] = "absent"
  /\ \A t \in Tenant : (status[t] # "absent" => status'[t] # "absent") /\ Covered(t)

LEMMA HandlerHolds ==
  ASSUME Typed, Guarded, NEW q \in Request, request[q].phase = "checked"
  PROVE  /\ Caller(q) # NoSession /\ Caller(q).tenant \in Tenant /\ owner[Caller(q).tenant] = q
         /\ Caller(q).partner # None => owner[Caller(q).partner] = q
         /\ request[q].op \in Op
         /\ request[q].op.kind \in {"status", "feature", "member"} =>
              /\ request[q].op.target \in Tenant /\ owner[request[q].op.target] = q
              /\ status[request[q].op.target] # "absent"
<1>1. request[q].phase # "idle" /\ request[q].want = {} /\ GuardedBy(q)
  BY DEF Guarded, GuardedBy
<1>2. request[q].op \in Op /\ Caller(q) # NoSession /\ Caller(q).tenant \in Tenant
  BY <1>1 DEF Typed, RequestsTyped, SessionsTyped, Caller
<1>3. None \notin Tenant
  BY TenantsAreOrdered
<1> QED
  BY <1>1, <1>2, <1>3, OpFacts DEF GuardedBy, Holds, Known

LEMMA AccessStep ==
  ASSUME Typed, Guarded, [Next]_vars
  PROVE  AccessMoves
<1>1. UNCHANGED <<status, member, link, feature, grant, domain>> => AccessMoves
  BY DEF Typed, AccessTyped, AccessMoves, Covered, SameAt, RolesAt
<1>2. ASSUME NEW r \in Request, CreateCustomer(r) PROVE AccessMoves
  <2>1. request[r].phase = "checked" /\ request[r].op.kind = "create"
    BY <1>2 DEF CreateCustomer, Handling
  <2>2. request[r].op.target \in Customer /\ Caller(r).tenant \in Partner
    BY <1>2, <2>1, HandlerHolds, OpFacts DEF CreateCustomer, IsPartner
  <2> DEFINE c == request[r].op.target
  <2>3. /\ status[c] = "absent" /\ status' = [status EXCEPT ![c] = "active"]
        /\ link' = link \cup {<<Caller(r).tenant, c>>}
        /\ UNCHANGED <<member, feature, grant, domain>>
    BY <1>2 DEF CreateCustomer
  <2>4. \A t \in Tenant : Covered(t)
    BY <2>3 DEF Covered, SameAt, RolesAt, Typed, AccessTyped
  <2>5. \A t \in Tenant : status[t] # "absent" => status'[t] # "absent"
    BY <2>3 DEF Typed, AccessTyped
  <2>6. AccessTyped'
    BY <2>2, <2>3 DEF Typed, AccessTyped
  <2> QED
    BY <2>3, <2>4, <2>5, <2>6 DEF AccessMoves
<1>3. ASSUME NEW r \in Request, SetAccess(r) PROVE AccessMoves
  <2> DEFINE p == Caller(r).tenant
             k == <<p, request[r].op.target, request[r].op.user>>
  <2>1. /\ request[r].phase = "checked" /\ Done(r) /\ p \in Partner
        /\ UNCHANGED <<status, member, link, feature, domain>>
        /\ grant' = [grant EXCEPT ![k] =
              [roles |-> request[r].op.roles, active |-> request[r].op.active,
               expired |-> FALSE, version |-> grant[k].version + 1]]
    BY <1>3 DEF SetAccess, Handling, IsPartner
  <2>2. owner[p] = r /\ request'[r] = Idle
    BY <2>1, HandlerHolds DEF Done, Typed, RequestsTyped
  <2>3. \A t \in Tenant \ {p} : SameAt(t)
    BY <2>1 DEF SameAt, RolesAt, Typed, AccessTyped
  <2>4. \A t \in Tenant : Covered(t)
    BY <2>1, <2>2, <2>3 DEF Covered
  <2>5. AccessTyped'
    BY <2>1 DEF Typed, AccessTyped
  <2> QED
    BY <2>1, <2>4, <2>5 DEF AccessMoves
<1>4. ASSUME NEW p \in Partner, NEW c \in Customer, NEW u \in User, GrantExpires(p, c, u)
      PROVE  AccessMoves
  <2>1. /\ UNCHANGED <<status, member, link, feature, domain>>
        /\ grant' = [grant EXCEPT ![<<p, c, u>>].expired = TRUE]
    BY <1>4 DEF GrantExpires
  <2>2. \A k \in Partner \X Customer \X User :
          /\ grant'[k].roles = grant[k].roles /\ grant'[k].active = grant[k].active
          /\ DOMAIN grant'[k] = {"roles", "active", "expired", "version"}
    BY <2>1 DEF Typed, AccessTyped
  <2>3. \A t \in Tenant : SameAt(t)
    BY <2>1, <2>2 DEF SameAt, RolesAt
  <2>4. AccessTyped'
    BY <2>1, <2>2 DEF Typed, AccessTyped
  <2> QED
    BY <2>1, <2>3, <2>4 DEF AccessMoves, Covered
<1>5. ASSUME NEW r \in Request, ChangeDomain(r) PROVE AccessMoves
  <2> DEFINE p == Caller(r).tenant
  <2>1. /\ request[r].phase = "checked" /\ Done(r) /\ p \in Partner
        /\ UNCHANGED <<status, member, link, feature, grant>>
        /\ \E d : domain' = [domain EXCEPT ![p] = d]
    BY <1>5 DEF ChangeDomain, Handling, IsPartner
  <2>2. owner[p] = r /\ request'[r] = Idle
    BY <2>1, HandlerHolds DEF Done, Typed, RequestsTyped
  <2>3. \A t \in Tenant \ {p} : SameAt(t)
    BY <2>1 DEF SameAt, RolesAt, Typed, AccessTyped
  <2>4. \A t \in Tenant : Covered(t)
    BY <2>1, <2>2, <2>3 DEF Covered
  <2>5. AccessTyped'
    BY <2>1 DEF Typed, AccessTyped
  <2> QED
    BY <2>1, <2>4, <2>5 DEF AccessMoves
<1>6. ASSUME NEW r \in Request, SetStatus(r) \/ SetFeature(r) \/ SetMember(r)
      PROVE  AccessMoves
  <2> DEFINE x == request[r].op.target
  <2>1. /\ request[r].phase = "checked" /\ Done(r) /\ UNCHANGED <<link, grant, domain>>
        /\ request[r].op.kind \in {"status", "feature", "member"}
    BY <1>6 DEF SetStatus, SetFeature, SetMember, Handling
  <2>2. x \in Tenant /\ owner[x] = r /\ request'[r] = Idle /\ request[r].op \in Op
    BY <2>1, HandlerHolds DEF Done, Typed, RequestsTyped
  <2>3. \A t \in Tenant \ {x} : status'[t] = status[t] /\ feature'[t] = feature[t]
    BY <1>6 DEF SetStatus, SetFeature, SetMember, Typed, AccessTyped
  <2>4. \A t \in Tenant \ {x}, u \in User : RolesAt(u, t)' = RolesAt(u, t)
    <3>1. \A n : n[2] # x => (n \in member' <=> n \in member)
      BY <1>6 DEF SetStatus, SetFeature, SetMember
    <3> QED
      BY <3>1 DEF RolesAt
  <2>5. \A t \in Tenant : Covered(t)
    BY <2>1, <2>2, <2>3, <2>4 DEF Covered, SameAt
  <2>6. status[x] # "absent" => status'[x] # "absent"
    BY <1>6, <2>2, OpFacts DEF SetStatus, SetFeature, SetMember, Handling, Typed, AccessTyped
  <2>7. AccessTyped'
    BY <1>6, <2>1 DEF SetStatus, SetFeature, SetMember, Typed, AccessTyped
  <2> QED
    BY <2>1, <2>3, <2>5, <2>6, <2>7 DEF AccessMoves
<1>7. Login => UNCHANGED <<status, member, link, feature, grant, domain>>
  BY DEF Login, PortalStart, Redeem, PortalCallback, IntentLapses, Identify, OidcCallback,
         ClaimIntent, access
<1>8. ASSUME NEW r \in Request, Handle(r) PROVE AccessMoves
  BY <1>1, <1>2, <1>3, <1>5, <1>6, <1>8
     DEF Handle, Work, Logout, EnterCustomer, ReturnPartner, access
<1>9. \A r : Arrive(r) \/ Lock(r) \/ Check(r) \/ Abort(r) =>
             UNCHANGED <<status, member, link, feature, grant, domain>>
  BY DEF Arrive, Lock, Check, Abort, access
<1>10. UNCHANGED vars => UNCHANGED <<status, member, link, feature, grant, domain>>
  BY DEF vars, access
<1> QED
  BY <1>1, <1>4, <1>7, <1>8, <1>9, <1>10 DEF Next

-----------------------------------------------------------------------------
\* Requests and locks.

LEMMA CallerStays ==
  ASSUME Typed, SessionsKept, NEW r \in Request, request[r].phase # "idle",
         request'[r].session = request[r].session
  PROVE  /\ Caller(r)' # NoSession /\ Caller(r)'.tenant = Caller(r).tenant
         /\ Caller(r)'.partner = Caller(r).partner /\ Caller(r)'.user = Caller(r).user
         /\ Caller(r)'.host = Caller(r).host /\ Caller(r)'.delegated = Caller(r).delegated
<1> DEFINE s == request[r].session
<1>1. s \in Session /\ session[s] # NoSession /\ session[s] \in SessionRow
  BY DEF Typed, RequestsTyped, SessionsTyped, Caller
<1>2. Kept(s) /\ session'[s] # NoSession
  BY <1>1, UsedStays DEF SessionsKept, Typed
<1>3. CASE session'[s] = session[s]
  BY <1>2, <1>3 DEF Caller
<1>4. CASE session'[s] = [session[s] EXCEPT !.live = FALSE]
  <2>1. /\ session'[s].tenant = session[s].tenant /\ session'[s].partner = session[s].partner
        /\ session'[s].user = session[s].user /\ session'[s].host = session[s].host
        /\ session'[s].delegated = session[s].delegated
    BY <1>1, <1>4 DEF SessionRow
  <2> QED
    BY <1>2, <2>1 DEF Caller
<1> QED
  BY <1>2, <1>3, <1>4 DEF Kept

LEMMA StillGuarded ==
  ASSUME Typed, SessionsKept, AccessMoves, NEW r \in Request, request[r].phase # "idle",
         GuardedBy(r), request'[r].session = request[r].session,
         request'[r].op = request[r].op, request'[r].phase = "checked" => request'[r].want = {},
         \A t \in Tenant : Holds(r, t) => Holds(r, t)'
  PROVE  GuardedBy(r)'
<1>1. /\ Caller(r)'.tenant = Caller(r).tenant /\ Caller(r)'.partner = Caller(r).partner
      /\ Caller(r).tenant \in Tenant /\ Caller(r).partner \in Tenant \cup {None}
      /\ request[r].op \in Op
  BY CallerStays DEF Typed, RequestsTyped, SessionsTyped, Caller, SessionRow, Tenant
<1>2. Known(request[r].op)'
  <2>1. request[r].op.target \in Tenant \cup {None} /\ Known(request[r].op)
    BY <1>1, OpFacts DEF GuardedBy
  <2> QED
    BY <2>1 DEF Known, AccessMoves
<1>3. \A t \in Tenant : Holds(r, t) => Holds(r, t)'
  OBVIOUS
<1>4. Holds(r, Caller(r).tenant)'
  BY <1>1, <1>3 DEF GuardedBy, Caller
<1>5. Caller(r)'.partner # None => Holds(r, Caller(r).partner)'
  BY <1>1, <1>3 DEF GuardedBy, Caller
<1>6. request'[r].op.kind \in {"status", "feature", "member"} => Holds(r, request[r].op.target)'
  BY <1>1, <1>3, OpFacts DEF GuardedBy
<1>7. ASSUME request'[r].op.kind = "credits",
             <<Caller(r)'.tenant, request'[r].op.target>> \in link'
      PROVE  Holds(r, request[r].op.target)'
  <2>1. request[r].op.target \in Tenant /\ request[r].op.kind = "credits"
    BY <1>1, <1>7, OpFacts
  <2>2. status[request[r].op.target] # "absent"
    BY <2>1, TenantsAreOrdered DEF GuardedBy, Known
  <2>3. <<Caller(r).tenant, request[r].op.target>> \in link'
    BY <1>1, <1>7
  <2>4. \A pc \in link' : pc \in link \/ status[pc[2]] = "absent"
    BY DEF AccessMoves
  <2>5. <<Caller(r).tenant, request[r].op.target>> \in link
    BY <2>2, <2>3, <2>4
  <2> QED
    BY <2>1, <2>5, <1>3 DEF GuardedBy
<1> QED
  BY <1>2, <1>4, <1>5, <1>6, <1>7 DEF GuardedBy

\* A request of which its row is kept, or its phase and what it waits for is changed.
RowOK(r) ==
  /\ DOMAIN request[r] = {"phase", "session", "op", "want", "roles"}
  /\ request[r].phase \in {"idle", "waiting", "checked"}
  /\ request[r].phase # "idle" =>
       /\ request[r].session \in Session /\ Caller(r) # NoSession
       /\ request[r].op \in Op /\ request[r].want \subseteq Tenant
LocksBelow(r) ==
  \A t \in Tenant : owner[t] = r => request[r].phase # "idle" /\ \A w \in request[r].want : t < w
RequestOK(r) == RowOK(r) /\ LocksBelow(r) /\ (request[r].phase # "idle" => GuardedBy(r))

LEMMA OthersStay ==
  ASSUME Typed, Guarded, Ordered, SessionsKept, AccessMoves, NEW r \in Request,
         request'[r] = request[r], \A t \in Tenant : owner'[t] = r <=> owner[t] = r
  PROVE  RequestOK(r)'
<1>1. RowOK(r) /\ LocksBelow(r) /\ (request[r].phase # "idle" => GuardedBy(r))
  BY DEF Typed, RequestsTyped, RowOK, Guarded, Ordered, LocksBelow
<1>2. RowOK(r)'
  BY <1>1, CallerStays DEF RowOK
<1>3. LocksBelow(r)'
  BY <1>1 DEF LocksBelow
<1>4. request[r].phase # "idle" => GuardedBy(r)'
  <2> SUFFICES ASSUME request[r].phase # "idle" PROVE GuardedBy(r)'
    OBVIOUS
  <2>1. GuardedBy(r) /\ (request'[r].phase = "checked" => request'[r].want = {})
    BY <1>1 DEF GuardedBy
  <2>2. \A t \in Tenant : Holds(r, t) => Holds(r, t)'
    BY DEF Holds
  <2> QED
    BY <2>1, <2>2, StillGuarded
<1> QED
  BY <1>2, <1>3, <1>4 DEF RequestOK

LEMMA RequestStep ==
  ASSUME Typed, Guarded, Ordered, [Next]_vars
  PROVE  RequestsTyped' /\ Guarded' /\ Ordered'
<1> DEFINE Good == /\ DOMAIN request' = Request /\ owner' \in [Tenant -> Request \cup {None}]
                   /\ \A r \in Request : RequestOK(r)'
<1>1. SessionsKept /\ AccessMoves
  BY SessionStep, AccessStep DEF SessionMoves
<1>2. Good => RequestsTyped' /\ Guarded' /\ Ordered'
  BY DEF RequestOK, RowOK, LocksBelow, RequestsTyped, Guarded, Ordered
<1>3. /\ DOMAIN request = Request /\ owner \in [Tenant -> Request \cup {None}]
      /\ None \notin Request /\ Tenant \subseteq Nat
  BY TenantsAreOrdered DEF Typed, RequestsTyped
<1>4. Apart => Good
  BY <1>1, <1>3, OthersStay DEF Apart
<1>5. ASSUME NEW q \in Request, Arrive(q) PROVE Good
  <2>1. PICK s \in Session, u \in User : \E op \in Asks[<<u, session[s].delegated>>] :
          /\ session[s].live /\ session[s].user = u /\ Known(op)
          /\ request' = [request EXCEPT ![q] =
               [phase |-> "waiting", session |-> s, op |-> op, roles |-> {},
                want |-> LockIds(session[s], op)]]
    BY <1>5 DEF Arrive
  <2>2. PICK op \in Asks[<<u, session[s].delegated>>] :
          /\ session[s].live /\ session[s].user = u /\ Known(op)
          /\ request' = [request EXCEPT ![q] =
               [phase |-> "waiting", session |-> s, op |-> op, roles |-> {},
                want |-> LockIds(session[s], op)]]
    BY <2>1
  <2>3. request[q] = Idle /\ UNCHANGED <<access, session, owner>>
    BY <1>5 DEF Arrive
  <2>4. session[s] # NoSession /\ session[s] \in SessionRow
    BY <2>2, CallersAreTyped DEF Typed, SessionsTyped, NoSession
  <2>5. session[s].delegated \in BOOLEAN /\ op \in Op
    <3>1. session[s].delegated \in BOOLEAN
      BY <2>4 DEF SessionRow
    <3> QED
      BY <3>1, <2>2 DEF Op
  <2>6. /\ request'[q].phase = "waiting" /\ request'[q].session = s /\ request'[q].op = op
        /\ request'[q].want = LockIds(session[s], op)
        /\ DOMAIN request'[q] = {"phase", "session", "op", "want", "roles"}
    BY <2>2, <1>3
  <2>7. LockIds(session[s], op) \subseteq Tenant
    BY <2>4, <2>5, OpFacts DEF LockIds, Typed, SessionsTyped, SessionRow, Tenant
  <2>8. RowOK(q)'
    BY <2>3, <2>4, <2>5, <2>6, <2>7 DEF RowOK, Caller
  <2>9. LocksBelow(q)'
    BY <2>3 DEF LocksBelow, Ordered, Idle
  <2>10. GuardedBy(q)'
    BY <2>2, <2>3, <2>6 DEF GuardedBy, Holds, LockIds, Caller, Known, access
  <2>11. \A r \in Request \ {q} : RequestOK(r)'
    BY <2>2, <2>3, <1>1, OthersStay
  <2> QED
    BY <1>3, <2>2, <2>3, <2>8, <2>9, <2>10, <2>11 DEF RequestOK
<1>6. ASSUME NEW q \in Request, Lock(q) PROVE Good
  <2>1. PICK t \in NextLock(request[q].want) :
          /\ owner[t] = None /\ owner' = [owner EXCEPT ![t] = q]
          /\ request' = [request EXCEPT ![q].want = @ \ {t}]
    BY <1>6 DEF Lock
  <2>2. request[q].phase = "waiting" /\ RowOK(q) /\ LocksBelow(q) /\ GuardedBy(q)
    BY <1>6 DEF Lock, Typed, RequestsTyped, RowOK, Guarded, Ordered, LocksBelow
  <2>3. t \in request[q].want /\ t \in Tenant /\ \A w \in request[q].want : t <= w
    BY <2>1, <2>2 DEF NextLock, RowOK
  <2>4. /\ request'[q].phase = "waiting" /\ request'[q].session = request[q].session
        /\ request'[q].op = request[q].op /\ request'[q].want = request[q].want \ {t}
        /\ DOMAIN request'[q] = {"phase", "session", "op", "want", "roles"}
    BY <2>1, <2>2, <1>3 DEF RowOK
  <2>5. RowOK(q)'
    BY <2>2, <2>4, <1>1, CallerStays DEF RowOK
  <2>6. LocksBelow(q)'
    <3> SUFFICES ASSUME NEW y \in Tenant, owner'[y] = q, NEW w \in request'[q].want
                 PROVE  y < w
      BY <2>4 DEF LocksBelow
    <3>1. w \in request[q].want /\ w # t /\ w \in Nat /\ t \in Nat
      BY <2>2, <2>3, <2>4, <1>3 DEF RowOK
    <3> QED
      BY <2>1, <2>2, <2>3, <3>1, <1>3 DEF LocksBelow
  <2>7. GuardedBy(q)'
    <3>1. \A y \in Tenant : Holds(q, y) => Holds(q, y)'
      BY <2>1, <2>3, <2>4, <1>3 DEF Holds
    <3> QED
      BY <3>1, <2>2, <2>4, <1>1, StillGuarded
  <2>8. ASSUME NEW r \in Request \ {q} PROVE RequestOK(r)'
    <3>1. request'[r] = request[r] /\ r # None
      BY <2>1, <1>3
    <3>2. \A y \in Tenant : owner'[y] = r <=> owner[y] = r
      BY <2>1, <2>3, <1>3, <3>1
    <3> QED
      BY <3>1, <3>2, <1>1, OthersStay
  <2> QED
    BY <1>3, <2>1, <2>3, <2>5, <2>6, <2>7, <2>8 DEF RequestOK
<1>7. ASSUME NEW q \in Request, Check(q) PROVE Good
  <2>1. /\ owner' = owner /\ request[q].phase = "waiting" /\ request[q].want = {}
        /\ request' = [request EXCEPT ![q].phase = "checked",
                          ![q].roles = EffectiveRoles(Caller(q))]
    BY <1>7 DEF Check, Caller
  <2>2. RowOK(q) /\ LocksBelow(q) /\ GuardedBy(q)
    BY <2>1 DEF Typed, RequestsTyped, RowOK, Guarded, Ordered, LocksBelow
  <2>3. /\ request'[q].phase = "checked" /\ request'[q].session = request[q].session
        /\ request'[q].op = request[q].op /\ request'[q].want = {}
        /\ DOMAIN request'[q] = {"phase", "session", "op", "want", "roles"}
    BY <2>1, <2>2, <1>3 DEF RowOK
  <2>4. RowOK(q)'
    BY <2>1, <2>2, <2>3, <1>1, CallerStays DEF RowOK
  <2>5. LocksBelow(q)'
    BY <2>1, <2>2, <2>3 DEF LocksBelow
  <2>6. GuardedBy(q)'
    <3>1. \A y \in Tenant : Holds(q, y) => Holds(q, y)'
      BY <2>1, <2>3 DEF Holds
    <3> QED
      BY <3>1, <2>1, <2>2, <2>3, <1>1, StillGuarded
  <2>7. ASSUME NEW r \in Request \ {q} PROVE RequestOK(r)'
    <3>1. request'[r] = request[r]
      BY <2>1, <1>3
    <3> QED
      BY <3>1, <2>1, <1>1, OthersStay
  <2> QED
    BY <1>3, <2>1, <2>4, <2>5, <2>6, <2>7 DEF RequestOK
<1>8. ASSUME NEW q \in Request, Done(q) PROVE Good
  <2>1. /\ request' = [request EXCEPT ![q] = Idle]
        /\ owner' = [t \in Tenant |-> IF owner[t] = q THEN None ELSE owner[t]]
    BY <1>8 DEF Done
  <2>2. request'[q] = Idle
    BY <2>1, <1>3
  <2>3. RequestOK(q)'
    BY <2>1, <2>2, <1>3 DEF RequestOK, RowOK, LocksBelow, Idle
  <2>4. \A r \in Request \ {q} : RequestOK(r)'
    BY <2>1, <1>1, <1>3, OthersStay
  <2> QED
    BY <1>3, <2>1, <2>3, <2>4
<1>9. UNCHANGED vars => Apart
  BY DEF vars, Apart
<1> QED
  BY <1>2, <1>4, <1>5, <1>6, <1>7, <1>8, <1>9, Shape

-----------------------------------------------------------------------------
\* The context of a checked request.

LEMMA UnderLock ==
  ASSUME Typed, Guarded, AccessMoves, NEW r \in Request, request[r].phase = "checked",
         request'[r] = request[r], NEW t \in Tenant, owner[t] = r, status[t] # "absent"
  PROVE  SameAt(t)
<1>1. request'[r] # Idle
  BY DEF Idle
<1> QED
  BY <1>1 DEF AccessMoves, Covered

\* What a context is computed from, for the columns of a session.
StandingOf(u, t, h, p, d) ==
  /\ h # Base => /\ domain[h].status = "ACTIVE" /\ domain[h].verified /\ domain[h].tls
                 /\ status[h] = "active" /\ "custom_domain" \in feature[h] /\ p = h
  /\ p # None =>
       /\ status[p] = "active" /\ "partner_portal" \in feature[p]
       /\ IF d THEN /\ <<p, t>> \in link /\ grant[<<p, t, u>>].active
                    /\ grant[<<p, t, u>>].roles # {}
                    /\ grant[<<p, t, u>>].roles \subseteq UNION {DELEGATED_ROLES[o] :
                                                   o \in RolesAt(u, p) \cap PARTNER_ROLES}
               ELSE t = p \/ <<p, t>> \in link
  /\ (IF d THEN grant[<<p, t, u>>].roles ELSE RolesAt(u, t)) # {} /\ status[t] = "active"
RolesOf(u, t, p, d) == IF d THEN grant[<<p, t, u>>].roles ELSE RolesAt(u, t)

LEMMA StandingStays ==
  ASSUME Typed, AccessMoves, NEW u \in User, NEW t \in Tenant, NEW h \in Host,
         NEW p \in Partner \cup {None}, NEW d \in BOOLEAN, d => p \in Partner,
         StandingOf(u, t, h, p, d), SameAt(t), p # None => SameAt(p)
  PROVE  StandingOf(u, t, h, p, d)' /\ RolesOf(u, t, p, d)' = RolesOf(u, t, p, d)
<1>1. RolesAt(u, t)' = RolesAt(u, t) /\ status'[t] = status[t]
  BY DEF SameAt
<1>2. None \notin Partner /\ (h # Base => h \in Partner /\ p = h)
  BY TenantsAreOrdered DEF Tenant, Host, StandingOf
<1>3. p # None => /\ status'[p] = status[p] /\ feature'[p] = feature[p]
                  /\ domain'[p] = domain[p] /\ RolesAt(u, p)' = RolesAt(u, p)
                  /\ \A c \in Customer : /\ grant'[<<p, c, u>>].roles = grant[<<p, c, u>>].roles
                                         /\ grant'[<<p, c, u>>].active = grant[<<p, c, u>>].active
  BY <1>2 DEF SameAt
<1>4. d => p # None /\ t \in Customer
  BY <1>2 DEF StandingOf, Typed, AccessTyped
<1>5. link \subseteq link'
  BY DEF AccessMoves
<1> QED
  BY <1>1, <1>2, <1>3, <1>4, <1>5 DEF StandingOf, RolesOf

LEMMA BecomesChecked ==
  ASSUME Typed, [Next]_vars, NEW r \in Request, request'[r].phase = "checked"
  PROVE  Check(r) \/ (request'[r] = request[r] /\ request[r].phase = "checked")
<1>1. DOMAIN request = Request
  BY DEF Typed, RequestsTyped
<1>2. CASE Apart
  BY <1>2 DEF Apart
<1>3. ASSUME NEW q \in Request, Arrive(q)
      PROVE  request'[r] = request[r]
  <2>1. \E x : x.phase = "waiting" /\ request' = [request EXCEPT ![q] = x]
    BY <1>3 DEF Arrive
  <2> QED
    BY <2>1, <1>1
<1>4. ASSUME NEW q \in Request, Lock(q) PROVE request'[r] = request[r]
  <2>1. request[q].phase = "waiting" /\ \E w : request' = [request EXCEPT ![q].want = w]
    BY <1>4 DEF Lock
  <2>2. q # r
    BY <2>1, <1>1 DEF Typed, RequestsTyped
  <2> QED
    BY <2>1, <2>2, <1>1
<1>5. ASSUME NEW q \in Request, Check(q), q # r PROVE request'[r] = request[r]
  BY <1>5, <1>1 DEF Check
<1>6. ASSUME NEW q \in Request, Done(q) PROVE request'[r] = request[r]
  BY <1>6, <1>1 DEF Done, Idle
<1>7. UNCHANGED vars => Apart
  BY DEF vars, Apart
<1> QED
  BY <1>2, <1>3, <1>4, <1>5, <1>6, <1>7, Shape

LEMMA ContextStep ==
  ASSUME Typed, Guarded, Ordered, ContextStaysTrue, [Next]_vars
  PROVE  ContextStaysTrue'
<1>1. SessionsKept /\ AccessMoves /\ RequestsTyped'
  BY SessionStep, AccessStep, RequestStep DEF SessionMoves
<1>2. ASSUME NEW r \in Request, request[r].phase = "checked", request'[r] = request[r]
      PROVE  Standing(Caller(r))' /\ request'[r].roles = EffectiveRoles(Caller(r))'
  <2>1. Caller(r) \in SessionRow /\ Caller(r).user \in User /\ Caller(r).tenant \in Tenant
        /\ (Caller(r).delegated => Caller(r).partner \in Partner)
    BY <1>2 DEF Typed, RequestsTyped, SessionsTyped, Caller
  <2>2. PICK u \in User, t \in Tenant, h \in Host, p \in Partner \cup {None}, d \in BOOLEAN :
          /\ Caller(r).user = u /\ Caller(r).tenant = t /\ Caller(r).host = h
          /\ Caller(r).partner = p /\ Caller(r).delegated = d
    BY <2>1 DEF SessionRow
  <2>3. /\ Caller(r)'.user = u /\ Caller(r)'.tenant = t /\ Caller(r)'.host = h
        /\ Caller(r)'.partner = p /\ Caller(r)'.delegated = d
    BY <1>1, <1>2, <2>2, CallerStays
  <2>4. /\ Standing(Caller(r)) => StandingOf(u, t, h, p, d)
        /\ EffectiveRoles(Caller(r)) = RolesOf(u, t, p, d)
    BY <2>2 DEF Standing, ScopedSession, Served, ActivePartner, Granted, Ceiling,
                EffectiveRoles, StandingOf, RolesOf
  <2>5. /\ StandingOf(u, t, h, p, d)' => Standing(Caller(r))'
        /\ EffectiveRoles(Caller(r))' = RolesOf(u, t, p, d)'
    BY <2>3 DEF Standing, ScopedSession, Served, ActivePartner, Granted, Ceiling,
                EffectiveRoles, StandingOf, RolesOf
  <2>6. StandingOf(u, t, h, p, d) /\ request[r].roles = RolesOf(u, t, p, d)
    BY <1>2, <2>4 DEF ContextStaysTrue
  <2>7. owner[t] = r /\ (p # None => owner[p] = r)
    BY <1>2, <2>2, HandlerHolds
  <2>8. SameAt(t) /\ (p # None => SameAt(p))
    <3>1. status[t] # "absent" /\ (p # None => p \in Tenant /\ status[p] # "absent")
      BY <2>6 DEF StandingOf, Tenant
    <3> QED
      BY <3>1, <2>7, <1>1, <1>2, UnderLock
  <2>9. StandingOf(u, t, h, p, d)' /\ RolesOf(u, t, p, d)' = RolesOf(u, t, p, d)
    <3>1. d => p \in Partner
      BY <2>1, <2>2
    <3> QED
      BY <3>1, <1>1, <2>6, <2>8, StandingStays
  <2> QED
    BY <1>2, <2>5, <2>6, <2>9
<1>3. ASSUME NEW r \in Request, Check(r)
      PROVE  Standing(Caller(r))' /\ request'[r].roles = EffectiveRoles(Caller(r))'
  <2>1. /\ UNCHANGED <<access, session>> /\ Standing(Caller(r))
        /\ request' = [request EXCEPT ![r].phase = "checked",
                          ![r].roles = EffectiveRoles(Caller(r))]
    BY <1>3 DEF Check, Permitted, Caller
  <2>2. request'[r].session = request[r].session /\ request'[r].roles = EffectiveRoles(Caller(r))
    BY <2>1 DEF Typed, RequestsTyped
  <2>3. Caller(r)' = Caller(r)
    BY <2>1, <2>2 DEF Caller
  <2>4. (Standing(Caller(r))' <=> Standing(Caller(r)))
        /\ EffectiveRoles(Caller(r))' = EffectiveRoles(Caller(r))
    BY <2>1, <2>3 DEF Standing, ScopedSession, Served, ActivePartner, Granted, Ceiling,
                EffectiveRoles, RolesAt, access
  <2> QED
    BY <2>1, <2>2, <2>4
<1>4. \A r \in Request : request'[r].phase = "checked" =>
        Check(r) \/ (request'[r] = request[r] /\ request[r].phase = "checked")
  BY BecomesChecked
<1> QED
  BY <1>2, <1>3, <1>4 DEF ContextStaysTrue

-----------------------------------------------------------------------------
\* Where sessions come from.

Origins ==
  \A s \in Session :
    /\ session[s].from \in Session =>
         session[session[s].from] # NoSession /\ ~session[session[s].from].live
    /\ \A r \in Request : request[r].phase = "checked" => session[s].from # request[r].session
    /\ \A t \in Session : s # t /\ session[s].from # None => session[s].from # session[t].from
    /\ session[s].from \in Intent =>
         /\ intent[session[s].from].phase = "consumed"
         /\ session[s].user = intent[session[s].from].user
         /\ session[s].tenant = intent[session[s].from].tenant
         /\ session[s].host = intent[session[s].from].host
         /\ session[s].partner = intent[session[s].from].partner
         /\ session[s].browser = intent[session[s].from].browser

\* An intent that is consumed stays as it is; what consumes one leaves the rest of it.
LEMMA ConsumedStays ==
  ASSUME Typed, [Next]_vars, NEW i \in Intent
  PROVE  /\ intent[i].phase = "consumed" => intent'[i] = intent[i]
         /\ PortalCallback(i) => /\ intent[i].phase = "authenticated"
                                 /\ intent'[i] = [intent[i] EXCEPT !.phase = "consumed"]
<1> SUFFICES ASSUME intent[i].phase = "consumed" PROVE intent'[i] = intent[i]
  BY DEF PortalCallback, Typed, LoginsTyped
<1>1. ASSUME NEW j \in Intent, PortalStart(j) PROVE intent'[i] = intent[i]
  <2>1. j # i
    BY <1>1 DEF PortalStart, NoIntent
  <2>2. \E x : intent' = [intent EXCEPT ![j] = x]
    BY <1>1 DEF PortalStart
  <2> QED
    BY <2>1, <2>2 DEF Typed, LoginsTyped
<1>2. ASSUME NEW f \in finishing, ClaimIntent(f) PROVE intent'[i] = intent[i]
  <2>1. CASE Unclaimed(f.intent)
    <3>1. f.intent # i
      BY <2>1 DEF Unclaimed
    <3> QED
      BY <1>2, <2>1, <3>1 DEF ClaimIntent, Typed, LoginsTyped
  <2>2. CASE ~Unclaimed(f.intent)
    BY <1>2, <2>2 DEF ClaimIntent
  <2> QED
    BY <2>1, <2>2
<1>3. ASSUME NEW j \in Intent, PortalCallback(j) PROVE intent'[i] = intent[i]
  <2>1. j # i
    BY <1>3 DEF PortalCallback, Typed, LoginsTyped
  <2> QED
    BY <1>3, <2>1 DEF PortalCallback, Typed, LoginsTyped
<1>4. ASSUME NEW j \in Intent, IntentLapses(j) PROVE intent'[i] = intent[i]
  BY <1>4 DEF IntentLapses, Fresh, Typed, LoginsTyped
<1>5. \A j : Redeem(j) => UNCHANGED intent
  BY DEF Redeem
<1>6. \A j, u : Identify(j, u) \/ OidcCallback(j, u) => UNCHANGED intent
  BY DEF Identify, OidcCallback, logins
<1>7. Login => intent'[i] = intent[i]
  BY <1>1, <1>2, <1>3, <1>4, <1>5, <1>6 DEF Login
<1>8. \A r : Handle(r) => UNCHANGED intent
  BY DEF Handle, Work, Logout, EnterCustomer, ReturnPartner, CreateCustomer, SetAccess,
         ChangeDomain, SetStatus, SetFeature, SetMember, logins
<1>9. \A r : Arrive(r) \/ Lock(r) \/ Check(r) \/ Abort(r) => UNCHANGED intent
  BY DEF Arrive, Lock, Check, Abort, logins
<1>10. \A p, c, u : GrantExpires(p, c, u) => UNCHANGED intent
  BY DEF GrantExpires, logins
<1>11. UNCHANGED vars => UNCHANGED intent
  BY DEF vars, logins
<1> QED
  BY <1>7, <1>8, <1>9, <1>10, <1>11 DEF Next

LEMMA OriginStep ==
  ASSUME Typed, Guarded, Origins, [Next]_vars
  PROVE  Origins'
<1>1. SessionsTyped' /\ SessionsKept /\ OriginMoves
  BY SessionStep DEF SessionMoves
<1>2. None \notin Session \cup Intent /\ Session \cap Intent = {}
  BY CallersAreTyped
<1>3. ASSUME NEW s \in Session, Kept(s)
      PROVE  /\ session'[s].from = session[s].from /\ session'[s].user = session[s].user
             /\ session'[s].tenant = session[s].tenant /\ session'[s].host = session[s].host
             /\ session'[s].partner = session[s].partner
             /\ session'[s].browser = session[s].browser
             /\ session'[s].live => session[s].live
  <2>1. session[s] \in SessionRow
    BY DEF Typed, SessionsTyped
  <2>2. CASE session'[s] = session[s]
    BY <2>2
  <2>3. CASE session'[s] = [session[s] EXCEPT !.live = FALSE]
    BY <2>1, <2>3 DEF SessionRow
  <2> QED
    BY <1>3, <2>2, <2>3 DEF Kept
<1>4. ASSUME NEW r \in Request, request'[r].phase = "checked"
      PROVE  /\ request'[r].session \in Session
             /\ \A s \in Session : session[s].from # request'[r].session
  <2>1. CASE Check(r)
    <3>1. /\ request'[r].session = request[r].session /\ request[r].phase = "waiting"
          /\ session[request[r].session].live
      BY <2>1 DEF Check, StillLive, Typed, RequestsTyped
    <3>2. request[r].session \in Session
      BY <3>1 DEF Typed, RequestsTyped
    <3> QED
      BY <3>1, <3>2 DEF Origins
  <2>2. CASE request'[r] = request[r] /\ request[r].phase = "checked"
    BY <2>2 DEF Origins, Typed, RequestsTyped
  <2> QED
    BY <1>4, <2>1, <2>2, BecomesChecked
<1> DEFINE Own(s) ==
       /\ session[s].from \in Session =>
            session[session[s].from] # NoSession /\ ~session[session[s].from].live
       /\ \A r \in Request : request[r].phase = "checked" => session[s].from # request[r].session
       /\ session[s].from \in Intent =>
            /\ intent[session[s].from].phase = "consumed"
            /\ session[s].user = intent[session[s].from].user
            /\ session[s].tenant = intent[session[s].from].tenant
            /\ session[s].host = intent[session[s].from].host
            /\ session[s].partner = intent[session[s].from].partner
            /\ session[s].browser = intent[session[s].from].browser
       Apart2(s, t) == s # t /\ session[s].from # None => session[s].from # session[t].from
<1>5. ASSUME NEW s \in Session, Kept(s) PROVE Own(s)'
  <2>1. ASSUME session[s].from \in Session
        PROVE  session'[session[s].from] # NoSession /\ ~session'[session[s].from].live
    <3>1. session[session[s].from] # NoSession /\ ~session[session[s].from].live
      BY <2>1 DEF Origins
    <3>2. Kept(session[s].from)
      BY <2>1, <3>1, <1>1 DEF SessionsKept
    <3> QED
      BY <2>1, <3>1, <3>2, <1>3, UsedStays DEF Typed
  <2>2. session[s].from \in Intent => intent'[session[s].from] = intent[session[s].from]
    BY ConsumedStays DEF Origins
  <2>3. session[s].from \in Intent =>
            /\ intent[session[s].from].phase = "consumed"
            /\ session[s].user = intent[session[s].from].user
            /\ session[s].tenant = intent[session[s].from].tenant
            /\ session[s].host = intent[session[s].from].host
            /\ session[s].partner = intent[session[s].from].partner
            /\ session[s].browser = intent[session[s].from].browser
    BY DEF Origins
  <2> QED
    BY <1>3, <1>4, <1>5, <2>1, <2>2, <2>3
<1>6. ASSUME NEW s \in Session, NEW t \in Session, Kept(s), Kept(t) PROVE Apart2(s, t)'
  BY <1>3, <1>6 DEF Origins
<1>7. ASSUME NEW s \in Session, NewOne(s), Own(s)',
             session'[s].from # None => \A t \in Session : session[t].from # session'[s].from
      PROVE  Origins'
  <2>1. \A t \in Session : Own(t)'
    BY <1>5, <1>7 DEF NewOne
  <2>2. \A t, u \in Session : Apart2(t, u)'
    <3> SUFFICES ASSUME NEW t \in Session, NEW u \in Session, t # u, session'[t].from # None
                 PROVE  session'[t].from # session'[u].from
      OBVIOUS
    <3>1. CASE t # s /\ u # s
      BY <3>1, <1>6, <1>7 DEF NewOne
    <3>2. CASE t = s
      BY <3>2, <1>3, <1>7 DEF NewOne
    <3>3. CASE u = s
      BY <3>3, <1>3, <1>7 DEF NewOne
    <3> QED
      BY <3>1, <3>2, <3>3
  <2> QED
    BY <2>1, <2>2 DEF Origins
<1>8. CASE \A s \in Session : Kept(s)
  BY <1>5, <1>6, <1>8 DEF Origins
<1>9. ASSUME NEW s \in Session, NewOne(s), session'[s].from = None PROVE Origins'
  BY <1>2, <1>4, <1>7, <1>9
<1>10. ASSUME NEW s \in Session, NEW i \in Intent, NewOne(s), session'[s] = LoginRow(i),
              PortalCallback(i)
       PROVE  Origins'
  <2>1. /\ session'[s].from = i /\ session'[s].user = intent[i].user
        /\ session'[s].tenant = intent[i].tenant /\ session'[s].host = intent[i].host
        /\ session'[s].partner = intent[i].partner /\ session'[s].browser = intent[i].browser
    BY <1>10 DEF LoginRow
  <2>2. intent[i].phase = "authenticated" /\ intent'[i] = [intent[i] EXCEPT !.phase = "consumed"]
    BY <1>10, ConsumedStays
  <2>3. /\ intent'[i].phase = "consumed" /\ intent'[i].user = intent[i].user
        /\ intent'[i].tenant = intent[i].tenant /\ intent'[i].host = intent[i].host
        /\ intent'[i].partner = intent[i].partner /\ intent'[i].browser = intent[i].browser
    <3>1. intent[i] \in IntentRow
      BY DEF Typed, LoginsTyped
    <3> QED
      BY <3>1, <2>2 DEF IntentRow
  <2>4. Own(s)'
    BY <1>2, <1>4, <2>1, <2>3
  <2>5. \A t \in Session : session[t].from # i
    BY <2>2 DEF Origins
  <2> HIDE DEF Own
  <2> QED
    BY <1>7, <1>10, <2>1, <2>4, <2>5
<1>11. ASSUME NEW s \in Session, NEW r \in Request, request[r].phase = "checked", Done(r),
              NewOne(s), session'[s].from = request[r].session,
              ~session'[request[r].session].live
       PROVE  Origins'
  <2> DEFINE o == request[r].session
  <2>1. o \in Session /\ session[o] # NoSession
    BY <1>11 DEF Typed, RequestsTyped, Caller
  <2>2. session'[o] # NoSession
    BY <2>1, <1>1, UsedStays DEF SessionsKept, Typed
  <2>3. ASSUME NEW q \in Request, request'[q].phase = "checked" PROVE request'[q].session # o
    <3>1. q # r /\ request'[q] = request[q]
      BY <1>11, <2>3 DEF Done, Idle, Typed, RequestsTyped
    <3>2. request[q].session = o => owner[Caller(r).tenant] = q /\ owner[Caller(r).tenant] = r
      BY <3>1, <2>3, <1>11, HandlerHolds DEF Caller
    <3> QED
      BY <3>1, <3>2
  <2>4. Own(s)'
    BY <1>2, <1>11, <2>1, <2>2, <2>3
  <2>5. \A t \in Session : session[t].from # o
    BY <1>11 DEF Origins
  <2> HIDE DEF Own
  <2> QED
    BY <1>7, <1>11, <2>4, <2>5
<1> QED
  BY <1>1, <1>8, <1>9, <1>10, <1>11 DEF OriginMoves

-----------------------------------------------------------------------------
\* Nobody waits in a circle.

\* A nonempty bounded set of numbers has a largest member.
LEMMA MaxExists ==
  ASSUME NEW T, T \subseteq Nat, T # {}, NEW n \in Nat, \A t \in T : t <= n
  PROVE  \E m \in T : \A t \in T : t <= m
<1> DEFINE R == OpToRel(<, Nat)
<1> DEFINE D == {n - t : t \in T}
<1>1. D \subseteq Nat /\ D # {}
  <2>1. \A t \in T : n - t \in Nat
    OBVIOUS
  <2>2. D \subseteq Nat
    BY <2>1
  <2>3. PICK t \in T : TRUE
    OBVIOUS
  <2>4. n - t \in D
    OBVIOUS
  <2> QED
    BY <2>2, <2>4
<1>2. PICK d \in D : \A e \in D : ~ (<<e, d>> \in R)
  BY <1>1, NatLessThanWellFounded, WFMin
<1>3. \A e, f \in Nat : e < f => <<e, f>> \in R
  BY DEF OpToRel
<1> HIDE DEF R
<1>4. PICK m \in T : d = n - m
  OBVIOUS
<1>5. ASSUME NEW t \in T PROVE t <= m
  <2>1. n - t \in D
    OBVIOUS
  <2>2. ~ (n - t < d)
    BY <2>1, <1>2, <1>3, <1>1
  <2> QED
    BY <2>2, <1>4
<1> QED
  BY <1>5

LEMMA OrderedWaits ==
  ASSUME Typed, Ordered
  PROVE  NoCircularWait
<1> SUFFICES ASSUME NEW S \in SUBSET Request, S # {},
                    \A r \in S : \E other \in S : WaitsFor(r, other)
             PROVE  FALSE
  BY DEF NoCircularWait
<1> DEFINE T == {t \in Tenant : owner[t] \in S /\ \E r \in S : t \in NextLock(request[r].want)}
<1>1. \A r \in S : \E t \in T : request[r].phase = "waiting" /\ t \in NextLock(request[r].want)
  <2> SUFFICES ASSUME NEW r \in S
               PROVE  \E t \in T : request[r].phase = "waiting" /\ t \in NextLock(request[r].want)
    OBVIOUS
  <2>1. PICK other \in S : WaitsFor(r, other)
    OBVIOUS
  <2>2. PICK t \in NextLock(request[r].want) : owner[t] = other
    BY <2>1 DEF WaitsFor
  <2>3. request[r].phase = "waiting" /\ request[r].want \subseteq Tenant
    BY <2>1 DEF WaitsFor, Typed, RequestsTyped
  <2>4. t \in Tenant
    BY <2>2, <2>3 DEF NextLock
  <2>5. t \in T
    BY <2>2, <2>4
  <2> QED
    BY <2>2, <2>3, <2>5
<1>2. T # {} /\ T \subseteq Nat /\ \E n \in Nat : \A t \in T : t <= n
  <2>1. PICK r \in S : TRUE
    OBVIOUS
  <2>2. T # {}
    BY <1>1, <2>1
  <2>3. T \subseteq Tenant
    OBVIOUS
  <2> QED
    BY <2>2, <2>3, TenantsAreOrdered, CallersAreTyped
<1>3. PICK m \in T : \A t \in T : t <= m
  BY <1>2, MaxExists
<1>4. PICK r \in S : owner[m] = r
  OBVIOUS
<1>5. PICK t \in T : t \in NextLock(request[r].want)
  BY <1>1
<1>6. m < t
  BY <1>4, <1>5 DEF Ordered, NextLock
<1>7. t <= m /\ t \in Nat /\ m \in Nat
  BY <1>2, <1>3, <1>5
<1> QED
  BY <1>6, <1>7

LEMMA OrderedTransfers ==
  ASSUME Typed, Guarded
  PROVE  TransferHoldsBoth
<1> SUFFICES ASSUME NEW r \in Request, Handling(r, "credits"),
                    <<Caller(r).tenant, request[r].op.target>> \in link
             PROVE  owner[request[r].op.target] = r /\ owner[Caller(r).tenant] = r
  BY DEF TransferHoldsBoth
<1>1. GuardedBy(r) /\ request[r].want = {}
  BY DEF Handling, Guarded, GuardedBy
<1> QED
  BY <1>1 DEF GuardedBy, Holds, Handling

-----------------------------------------------------------------------------
AccessInv == Typed /\ Guarded /\ Ordered /\ ContextStaysTrue /\ Origins

LEMMA InitAccess == Init => AccessInv
<1> SUFFICES ASSUME Init PROVE AccessInv
  OBVIOUS
<1> USE DEF Init
<1>1. AccessTyped
  BY CallersAreTyped DEF AccessTyped, NoGrant
<1>2. LoginsTyped
  <2>1. NoIntent \in IntentRow /\ NoIntent.phase = "none"
    BY DEF NoIntent, IntentRow, Host
  <2> QED
    BY <2>1 DEF LoginsTyped
<1>3. ASSUME NEW s \in Session
      PROVE  /\ session[s] \in SessionRow /\ session[s].from = None
             /\ session[s] # NoSession =>
                  session[s].user \in User /\ session[s].tenant \in Tenant /\ ~session[s].delegated
  <2>1. CASE s \in DOMAIN SignedIn
    <3>1. session[s] = SignedIn[s]
      BY <2>1
    <3>2. SignedIn[s] \in [live : BOOLEAN, user : User, tenant : Tenant, host : Host,
                       partner : Partner \cup {None}, delegated : {FALSE},
                       browser : Browser \cup {None}, from : {None}]
      BY <2>1, CallersAreTyped
    <3> QED
      BY <3>1, <3>2 DEF SessionRow
  <2>2. CASE s \notin DOMAIN SignedIn
    <3>1. session[s] = NoSession
      BY <2>2
    <3>2. NoSession \in SessionRow /\ NoSession.from = None
      BY DEF SessionRow, NoSession, Host
    <3> QED
      BY <3>1, <3>2
  <2> QED
    BY <2>1, <2>2
<1>4. SessionsTyped
  <2>1. session \in [Session -> SessionRow]
    BY <1>3
  <2> QED
    BY <1>3, <2>1 DEF SessionsTyped
<1>5. RequestsTyped /\ Guarded /\ Ordered /\ ContextStaysTrue
  BY TenantsAreOrdered DEF RequestsTyped, Guarded, Ordered, ContextStaysTrue, Idle
<1>6. Origins
  <2>1. None \notin Session /\ None \notin Intent
    BY CallersAreTyped
  <2> QED
    BY <1>3, <2>1 DEF Origins, Idle
<1> QED
  BY <1>1, <1>2, <1>4, <1>5, <1>6 DEF AccessInv, Typed

(***************************************************************************)
(* The invariant is inductive.                                             *)
(***************************************************************************)
THEOREM AccessInvHolds == Spec => []AccessInv
<1>1. AccessInv /\ [Next]_vars => AccessInv'
  <2> SUFFICES ASSUME AccessInv, [Next]_vars PROVE AccessInv'
    OBVIOUS
  <2>1. Typed /\ Guarded /\ Ordered /\ ContextStaysTrue /\ Origins
    BY DEF AccessInv
  <2>2. AccessTyped'
    BY <2>1, AccessStep DEF AccessMoves
  <2>3. LoginsTyped' /\ SessionsTyped'
    BY <2>1, LoginStep, SessionStep DEF SessionMoves
  <2>4. RequestsTyped' /\ Guarded' /\ Ordered'
    BY <2>1, RequestStep
  <2>5. ContextStaysTrue' /\ Origins'
    BY <2>1, ContextStep, OriginStep
  <2> QED
    BY <2>2, <2>3, <2>4, <2>5 DEF AccessInv, Typed
<1> QED
  BY <1>1, InitAccess, PTL DEF Spec

(***************************************************************************)
(* The context of a checked request stays true until its transaction ends, *)
(* whatever other requests, logins and expiries happen meanwhile           *)
(* (security.py:163).                                                      *)
(***************************************************************************)
THEOREM ContextHolds == Spec => []ContextStaysTrue
<1>1. AccessInv => ContextStaysTrue
  BY DEF AccessInv
<1> QED
  BY <1>1, AccessInvHolds, PTL

(***************************************************************************)
(* No set of requests waits in a circle for organizations' locks, and a    *)
(* transfer of credits starts with the locks of both sides                 *)
(* (security.py:100).                                                      *)
(***************************************************************************)
THEOREM LocksHold == Spec => []LocksInOrder
<1>1. AccessInv => LocksInOrder
  BY OrderedWaits, OrderedTransfers DEF AccessInv, LocksInOrder
<1> QED
  BY <1>1, AccessInvHolds, PTL

(***************************************************************************)
(* An intent or a session is followed by at most one session, and a login  *)
(* ends as it was begun (portal_auth.py:97, security.py:152).              *)
(***************************************************************************)
THEOREM SessionsHold == Spec => []SessionsFollowLogins
<1>1. Typed /\ Origins => LoginAsBegun /\ OneSuccessor
  BY DEF Origins, LoginAsBegun, OneSuccessor
<1>2. AccessInv => SessionsFollowLogins
  BY <1>1 DEF AccessInv, SessionsFollowLogins
<1> QED
  BY <1>2, AccessInvHolds, PTL
=============================================================================
