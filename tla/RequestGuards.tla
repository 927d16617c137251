----------------------------- MODULE RequestGuards -----------------------------
(***************************************************************************)
(* One request of one tenant on its way to the handler: csrfMiddleware and *)
(* entitlementMiddleware of main.ts, then the guards, then the             *)
(* interceptors, each of which reads rows of its own at a moment of its    *)
(* own.  Requests follow one another and share the gate's install cache.   *)
(*                                                                         *)
(* A route says which of them apply to it.  The running application        *)
(* registers the two middlewares, JwtAuthGuard and RbacGuard;              *)
(* ApiKeyGuard, ControlPlaneGuard, AppInstalledGuard and TenantWriteGuard  *)
(* are written for routes of other services of the platform.               *)
(***************************************************************************)
EXTENDS Integers

CONSTANTS Routes,             \* the routes asked for
          TTL,                \* of the install cache, 15 s
          MaxClock, MaxEdits, \* bounds on the clock and on edits of rows
          None                \* no cache entry, no subscription row

VARIABLES rows,    \* what the rows grant, see Facts
          tenant,  \* tenants row and its subscription
          cache,   \* EntitlementGate: entry of the tenant and module, or None
          request, \* the request in flight
          now, edits,
          lastActive \* history: latest time the module was ACTIVE, or None

guardsVars == <<rows, tenant, cache, request, now, edits, lastActive>>

-------------------------------------------------------------------------------
(* Rows *)

\* Codes in a CONTROL_PLANE_NAMESPACE, and the others.
Permissions == {"tenantCode", "platformCode"}

\* Session or API key active and unexpired, codes of the user's roles, an install
\* row of the module, and its status ACTIVE.
Facts == {"session", "key", "installed", "active"} \cup Permissions

Tenant == [active : BOOLEAN, trialOver : BOOLEAN, subscription : {None, "current", "ended"}]

\* TenantWriteGuard.assertWritable
Writable == tenant.active /\ (IF tenant.subscription = None THEN ~tenant.trialOver
                                                            ELSE tenant.subscription = "current")

-------------------------------------------------------------------------------
(* Requests *)

Route == [principal : {"session", "key"}, \* JwtAuthGuard or ApiKeyGuard
          required : SUBSET Permissions,  \* @Permissions
          crossTenant : BOOLEAN,          \* @SkipTenantScope
          gated : BOOLEAN,                \* a path segment names a gated module
          writes : BOOLEAN]               \* POST, PUT, DELETE, PATCH, not exempt

\* What a route asks the rows for.
Asked(route) == {route.principal} \cup route.required
                \cup (IF route.gated THEN {"installed"} ELSE {})
                \cup (IF route.writes THEN {"writable"} ELSE {})
Holding == rows \cup (IF Writable THEN {"writable"} ELSE {})

NoRoute == [principal |-> "session", required |-> {}, crossTenant |-> FALSE,
            gated |-> FALSE, writes |-> FALSE]

Idle == [at |-> "idle", route |-> NoRoute, bearer |-> FALSE, asked |-> None,
         found |-> FALSE, open |-> FALSE, seen |-> {}, fresh |-> FALSE]

Stages == {"idle", "csrf", "gate", "query", "reply", "principal", "roles", "controlPlane",
           "app", "write", "served"}

Request == [at : Stages, route : Route,
            bearer : BOOLEAN,               \* Authorization: Bearer, or the cookie
            asked : {None} \cup 0..MaxClock, \* `now' of isInstalled
            found : BOOLEAN,                \* what its query found
            open : BOOLEAN,                 \* the gate failed and let it pass
            seen : SUBSET (Facts \cup {"writable"}), \* history: held at some moment of it
            fresh : BOOLEAN]                \* history: the gate's word was less than TTL old

TypeOK ==
    /\ rows \subseteq Facts /\ tenant \in Tenant
    /\ cache = None \/ cache \in [installed : BOOLEAN, at : 0..MaxClock]
    /\ request \in Request
    /\ now \in 0..MaxClock /\ edits \in 0..MaxEdits
    /\ lastActive \in {None} \cup 0..MaxClock

Init ==
    /\ rows \in {Facts, Facts \ {"active"}}
    /\ tenant \in {t \in Tenant : t.active /\ ~t.trialOver}
    /\ cache = None /\ request = Idle
    /\ now = 0 /\ edits = 0
    /\ lastActive = IF "active" \in rows THEN 0 ELSE None

Goto(stage) == request' = [request EXCEPT !.at = stage]
Refuse == request' = Idle
Fresh == lastActive # None /\ now - lastActive < TTL
Check(passes, stage) == IF passes THEN Goto(stage) ELSE Refuse
Rest == UNCHANGED <<rows, tenant, cache, now, edits, lastActive>>

-------------------------------------------------------------------------------
(* Middleware *)

Arrive ==
    /\ request.at \in {"idle", "served"}
    /\ \E route \in Routes, bearer \in BOOLEAN :
         request' = [Idle EXCEPT !.at = "csrf", !.route = route, !.bearer = bearer,
                                 !.seen = Asked(route) \cap Holding]
    /\ Rest

\* csrfMiddleware: a bearer token is authority enough, a write with the cookie needs
\* the header to repeat it; a request without the cookie is given one and refused.
CheckCsrf ==
    /\ request.at = "csrf"
    /\ \E repeated \in BOOLEAN :
         Check(request.bearer \/ ~request.route.writes \/ repeated, "gate")
    /\ Rest

\* EntitlementGate.handle: only a bearer token tells it the tenant.
Gate ==
    /\ request.at = "gate"
    /\ IF ~request.route.gated \/ ~request.bearer THEN Goto("principal")
       ELSE IF cache # None /\ now - cache.at < TTL
            THEN IF cache.installed
                 THEN request' = [request EXCEPT !.at = "principal", !.fresh = Fresh]
                 ELSE Refuse
            ELSE request' = [request EXCEPT !.at = "query", !.asked = now]
    /\ Rest

ReadInstalled ==
    /\ request.at = "query"
    /\ request' = [request EXCEPT !.at = "reply", !.found = "active" \in rows, !.fresh = Fresh]
    /\ Rest

\* isInstalled: the entry is dated from before the query.
KeepInstalled ==
    /\ request.at = "reply"
    /\ cache' = [installed |-> request.found, at |-> request.asked]
    /\ Check(request.found, "principal")
    /\ UNCHANGED <<rows, tenant, now, edits, lastActive>>

\* "Never let entitlement checking take down a request."
FailOpen ==
    /\ request.at = "query"
    /\ request' = [request EXCEPT !.at = "principal", !.open = TRUE]
    /\ Rest

-------------------------------------------------------------------------------
(* Guards *)

\* The token or key verifies (or not), and its row is active and unexpired.
CheckPrincipal ==
    /\ request.at = "principal"
    /\ \E verified \in BOOLEAN :
         Check(verified /\ request.route.principal \in rows,
               IF request.route.principal = "key" THEN "app" ELSE "roles")
    /\ Rest

\* Fault: the permissions are those of the token, which was minted before.
CheckRoles_OfToken ==
    /\ request.at = "roles" /\ Goto("controlPlane") /\ Rest

\* RbacGuard: the roles are read again for every request.
CheckRoles ==
    /\ request.at = "roles"
    /\ Check(request.route.required \subseteq rows, "controlPlane")
    /\ Rest

\* ControlPlaneGuard: a cross-tenant handler names codes, of the platform only.
CheckControlPlane ==
    /\ request.at = "controlPlane"
    /\ Check(request.route.crossTenant =>
                 /\ request.route.required # {}
                 /\ "tenantCode" \notin request.route.required
                 /\ request.route.required \subseteq rows, "app")
    /\ Rest

-------------------------------------------------------------------------------
(* Interceptors *)

\* AppInstalledGuard: an install row, whatever its status.
CheckApp ==
    /\ request.at = "app"
    /\ Check((request.route.gated => "installed" \in rows), "write")
    /\ Rest

\* TenantWriteGuard, and the handler behind it.
CheckWritable ==
    /\ request.at = "write"
    /\ Check(request.route.writes => Writable, "served")
    /\ Rest

\* A query of a guard throws.
Fail == request.at \in {"principal", "roles", "controlPlane", "app", "write"} /\ Refuse /\ Rest

-------------------------------------------------------------------------------
(* Meanwhile *)

\* The history of the request in flight: what its route asks for and now is so.
See == request' = [request EXCEPT !.seen = IF request.at \in {"idle", "served"} THEN @
                                           ELSE @ \cup (Asked(request.route) \cap Holding')]

\* A session ends, a role, a key or an app is taken away or given.
EditRows(f) ==
    /\ edits < MaxEdits /\ edits' = edits + 1
    /\ rows' = IF f \in rows THEN rows \ (IF f = "installed" THEN {f, "active"} ELSE {f})
               ELSE rows \cup (IF f = "active" THEN {f, "installed"} ELSE {f})
    /\ lastActive' = IF "active" \in rows \cup rows' THEN now ELSE lastActive
    /\ UNCHANGED <<tenant, cache, now>>
    /\ See

\* The tenant is suspended, its trial ends, its subscription begins, ends or is renewed.
EditTenant ==
    /\ edits < MaxEdits /\ edits' = edits + 1
    /\ \E t \in Tenant : /\ t.subscription = None => tenant.subscription = None
                         /\ tenant.trialOver => t.trialOver
                         /\ tenant' = t
    /\ UNCHANGED <<rows, cache, now, lastActive>>
    /\ See

Tick ==
    /\ now < MaxClock /\ now' = now + 1
    /\ lastActive' = IF "active" \in rows THEN now' ELSE lastActive
    /\ UNCHANGED <<rows, tenant, cache, request, edits>>

-------------------------------------------------------------------------------
Next ==
    \/ Arrive \/ CheckCsrf \/ Gate \/ ReadInstalled \/ KeepInstalled \/ FailOpen
    \/ CheckPrincipal \/ CheckRoles \/ CheckControlPlane \/ CheckApp \/ CheckWritable \/ Fail
    \/ \E f \in Facts : EditRows(f)
    \/ EditTenant \/ Tick

Spec == Init /\ [][Next]_guardsVars

-------------------------------------------------------------------------------
(* Properties *)

\* A handler runs only for a request during which each thing its route asks for was
\* so at some moment (RbacGuard and the others read rows, not the token); there need
\* be no moment at which all were.  A cross-tenant handler runs on codes of the
\* platform only.  The gate's word is less than TTL old, unless it failed and
\* let the request pass.
HandlerEarned ==
    request.at = "served" =>
        LET route == request.route IN
        /\ Asked(route) \subseteq request.seen
        /\ route.crossTenant => route.required = {"platformCode"}
        /\ route.gated /\ request.bearer /\ ~request.open => request.fresh

===============================================================================
