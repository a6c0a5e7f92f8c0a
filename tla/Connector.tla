------------------------------- MODULE Connector -------------------------------
(***************************************************************************)
(* The figures of another product that the owner may look at               *)
(* (portfolio.py): fetched under a credential from the configuration, kept *)
(* with a deadline, withdrawn when the owner disables the connector or the *)
(* source refuses the credential.  Requests that write hold the tenant's   *)
(* lock from beginning to end; the fetch is a call to the source while it  *)
(* is held.                                                                *)
(***************************************************************************)
EXTENDS Naturals

CONSTANTS
  Grant,                 \* credentials the operator may configure, each names one grant
  Ttl,                   \* seconds for which figures may be shown
  MaxNow,                \* bound: the clock
  MaxConfigured,         \* bound: changes of the configuration
  None

VARIABLES
  now,
  grant,                 \* the grant of the credential in the configuration
  configured,            \* changes of the configuration so far
  standing,              \* grants to "valid", "refused" by the source or "lapsed"
  row,                   \* the row of the connector
  fetching,              \* a refresh in progress: its grant and when it began
  disabled               \* history: the owner disabled it since the last refresh began
vars == <<now, grant, configured, standing, row, fetching, disabled>>
world == <<now, grant, configured, standing>>

NoRow == [status |-> "disconnected", figures |-> None, binding |-> None, until |-> 0]
Idle == [grant |-> None, at |-> 0]

-----------------------------------------------------------------------------
\* The configuration, the source and the clock.

Configure(g) ==
  /\ configured < MaxConfigured /\ g # grant
  /\ grant' = g /\ configured' = configured + 1
  /\ UNCHANGED <<now, standing, row, fetching, disabled>>
Withdraw(g, to) ==
  /\ standing[g] # "lapsed" /\ standing' = [standing EXCEPT ![g] = to]
  /\ UNCHANGED <<now, grant, configured, row, fetching, disabled>>
Tick ==
  /\ now < MaxNow /\ now' = now + 1
  /\ UNCHANGED <<grant, configured, standing, row, fetching, disabled>>

-----------------------------------------------------------------------------
\* Requests of the owner, one at a time, and the sweep of the worker.

\* Mutant: requests do not wait for each other.
Unlocked == TRUE
TenantLockFree == fetching = Idle

Usable == IF grant = None THEN FALSE ELSE standing[grant] # "lapsed"
\* A disabled connector needs another grant than the one it was disabled with.
NewGrant == row.status = "revoked" => grant # row.binding
Refresh ==
  /\ fetching = Idle /\ Usable /\ NewGrant
  /\ fetching' = [grant |-> grant, at |-> now] /\ disabled' = FALSE
  /\ UNCHANGED <<world, row>>

\* Mutant: a failed refresh keeps the figures of the one before.
KeptAfterFailure(status) == [row EXCEPT !.status = status]
Failed(status) == [NoRow EXCEPT !.status = status, !.binding = row.binding]
Fetched ==
  [status |-> "connected", figures |-> fetching.grant, binding |-> fetching.grant,
   until |-> fetching.at + Ttl]
FetchQidaigo ==
  /\ fetching # Idle
  /\ \/ standing[fetching.grant] = "valid" /\ row' = Fetched
     \/ standing[fetching.grant] # "valid" /\ row' = Failed("revoked")
     \/ \E status \in {"error", "stale"} : row' = Failed(status)
  /\ fetching' = Idle
  /\ UNCHANGED <<world, disabled>>
RefreshUnusable ==
  /\ TenantLockFree /\ ~Usable /\ row.status # "revoked"
  /\ row' = Failed(IF grant = None THEN "disconnected" ELSE "revoked") /\ disabled' = FALSE
  /\ UNCHANGED <<world, fetching>>

DisableConnector ==
  /\ TenantLockFree
  /\ row' = [NoRow EXCEPT !.status = "revoked",
                          !.binding = IF row.binding = None /\ Usable THEN grant
                                      ELSE row.binding]
  /\ disabled' = TRUE
  /\ UNCHANGED <<world, fetching>>

PruneExpiredProjections ==
  /\ TenantLockFree /\ row.figures # None /\ row.until <= now
  /\ row' = [row EXCEPT !.figures = None, !.status = "stale"]
  /\ UNCHANGED <<world, fetching, disabled>>

\* What is shown when the owner looks.
Shown ==
  IF row.status # "revoked" /\ Usable /\ row.binding = grant /\ row.until > now
  THEN row.figures ELSE None

-----------------------------------------------------------------------------

Init ==
  /\ now = 0 /\ grant \in Grant \cup {None} /\ configured = 0
  /\ standing = [g \in Grant |-> "valid"]
  /\ row = NoRow /\ fetching = Idle /\ disabled = FALSE
Next ==
  \/ \E g \in Grant \cup {None} : Configure(g)
  \/ \E g \in Grant, to \in {"refused", "lapsed"} : Withdraw(g, to)
  \/ Tick
  \/ Refresh \/ FetchQidaigo \/ RefreshUnusable \/ DisableConnector \/ PruneExpiredProjections
Spec == Init /\ [][Next]_vars

-----------------------------------------------------------------------------
\* Figures are shown only by the grant that is configured, before their deadline, and
\* never between the owner's disabling the connector and the next refresh, nor after a
\* refresh that failed; a refresh that was under way does not bring them back
\* (portfolio.py:360).
ShownIsCurrent ==
  Shown # None =>
    /\ ~disabled /\ Shown = grant /\ row.status = "connected"
    /\ row.until <= now + Ttl
===============================================================================
