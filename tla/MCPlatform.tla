------------------------------ MODULE MCPlatform ------------------------------
(***************************************************************************)
(* Instances of the components the platforms rest on, for TLC:             *)
(* SigningKeys, which this module extends, EmailDelivery, PlatformAccess,  *)
(* HostedPages, AgentDelegation, CredentialCache, Idempotency,             *)
(* ThirdPartyConsent, RequestGuards, ChangeTrail and ReturnPath.           *)
(*                                                                         *)
(* As in MCAccounts, a behaviour picks one (part) and the others stay as   *)
(* they began.                                                             *)
(***************************************************************************)
EXTENDS SigningKeys, TLC

CONSTANTS Things, Slots, \* what the other components name; their calls in flight
          Providers, Attempts, Quota, Sids, Dead, Perms, TTL,
          Scopes, Openid, Agent,
          MaxGrants, MaxEdits, MaxSaves, MaxRecords, LongClock

VARIABLES part,
          config, job, reserved, accepted, lastEventAt, events, suppressed, hook, dead,
          entry, grants, planned, member, edits, check, denied, verdict,
          csrf, auth, root, scoped, opened, usable, tab, lost, refused,
          held, agent, alive, token, exchange, lastHeld, agentNow,
          stored, cache, get, save, saves, cacheNow, replaced,
          record, retry, done, unclaimed, forgotten,
          client, consent, request, changes,
          rows, tenant, installs, guarded, guardsNow, guardsEdits, lastActive,
          entity, tracked, history, audit, pending, swallowed,
          place, records, landed

\* A complaint or hard bounce, and a delivery report that is newer.
Reports == {[hard |-> TRUE, at |-> 1], [hard |-> FALSE, at |-> 2]}

\* A tenant's platform, the control plane while it is suspended, and a public one.
Platform == [internal |-> FALSE, lifecycle |-> "LIVE", public |-> FALSE,
             requiresTenant |-> TRUE, authority |-> FALSE, assured |-> TRUE]
Platforms ==
    {Platform,
     [Platform EXCEPT !.internal = TRUE, !.authority = TRUE, !.lifecycle = "SUSPENDED"],
     [Platform EXCEPT !.public = TRUE, !.requiresTenant = FALSE]}

\* Of each kind of route one: behind RbacGuard, ControlPlaneGuard (one that names a
\* code of a tenant, too), the gate, and ApiKeyGuard.
R(principal, required, crossTenant, gated, writes) ==
    [principal |-> principal, required |-> required, crossTenant |-> crossTenant,
     gated |-> gated, writes |-> writes]
RoutesAsked ==
    {R("session", {}, FALSE, TRUE, FALSE), R("session", {"tenantCode"}, FALSE, TRUE, TRUE),
     R("session", {}, TRUE, FALSE, FALSE), R("session", {"platformCode"}, TRUE, FALSE, FALSE),
     R("session", {"tenantCode", "platformCode"}, TRUE, FALSE, FALSE),
     R("key", {}, FALSE, TRUE, TRUE)}

Mail == INSTANCE EmailDelivery WITH Jobs <- Slots, Events <- Reports
Access == INSTANCE PlatformAccess WITH Catalogue <- Platforms
Pages == INSTANCE HostedPages WITH Tabs <- Slots, Tokens <- Things
Agents == INSTANCE AgentDelegation WITH Issued <- Things, MaxClock <- LongClock,
                                        call <- exchange, now <- agentNow
Cache == INSTANCE CredentialCache WITH Fields <- Providers, Calls <- Slots,
                                       MaxClock <- LongClock, now <- cacheNow
Idem == INSTANCE Idempotency WITH Calls <- Things, call <- retry
Consents == INSTANCE ThirdPartyConsent
Guards == INSTANCE RequestGuards WITH Routes <- RoutesAsked, MaxClock <- LongClock,
                                      cache <- installs, request <- guarded,
                                      now <- guardsNow, edits <- guardsEdits
Trail == INSTANCE ChangeTrail WITH Calls <- Slots, Missing <- None, call <- tracked
Return == INSTANCE ReturnPath WITH stored <- records

\* None and Dead are no values of the components that use them, nor is 0, the version
\* that was there before, a request.
ASSUME PlatformAssumption ==
    /\ IsFiniteSet(Slots) /\ IsFiniteSet(Things) /\ IsFiniteSet(Providers)
    /\ Attempts \in Nat \ {0} /\ TTL \in Nat \ {0}
    /\ {Quota, MaxGrants, MaxEdits, MaxSaves, MaxRecords, LongClock} \subseteq Nat
    /\ Openid \in Scopes
    /\ None \notin Things \cup Slots /\ None \notin Return!Destinations
    /\ None \notin 0..LongClock
    /\ 0 \notin Slots

Symmetry == Permutations(Kids) \cup Permutations(Calls)

-------------------------------------------------------------------------------
\* What each component changes.
mail == <<config, job, reserved, accepted, lastEventAt, events, suppressed, hook, dead>>
access == <<entry, grants, planned, member, edits, check, denied, verdict>>
pages == <<csrf, auth, root, scoped, opened, usable, tab, lost, refused>>
agency == <<held, agent, alive, token, exchange, lastHeld, agentNow>>
caching == <<stored, cache, get, save, saves, cacheNow, replaced>>
retries == <<record, retry, done, unclaimed, forgotten>>
consents == <<client, consent, request, changes>>
guards == <<rows, tenant, installs, guarded, guardsNow, guardsEdits, lastActive>>
trail == <<entity, tracked, history, audit, pending, swallowed>>
return == <<place, records, landed>>

platformVars == <<part, vars, mail, access, pages, agency, caching, retries,
                  consents, guards, trail, return>>

\* A component that does not move is where it began (the table of keys empty);
\* the others are then not looked at.
PlatformInit ==
    /\ part \in {"keys", "mail", "access", "pages", "agent", "cache", "idem", "consent",
                "guards", "trail", "return"}
    /\ Init /\ (part # "keys" => key = NoKeys)
    /\ IF part = "mail" THEN Mail!Init
       ELSE /\ config = None /\ job = None /\ reserved = {} /\ accepted = {} /\ lastEventAt = None
            /\ events = {} /\ suppressed = FALSE /\ hook = None /\ dead = {}
    /\ IF part = "access" THEN Access!Init
       ELSE /\ entry = None /\ grants = {} /\ planned = FALSE /\ member = FALSE /\ edits = 0
            /\ check = {} /\ denied = {} /\ verdict = "none"
    /\ IF part = "agent" THEN Agents!Init
       ELSE /\ held = {} /\ agent = None /\ alive = FALSE /\ token = None /\ exchange = {}
            /\ lastHeld = None /\ agentNow = 0
    /\ IF part = "pages" THEN Pages!Init
       ELSE /\ csrf = None /\ auth = None /\ root = None /\ scoped = None /\ opened = {}
            /\ usable = {} /\ tab = None /\ lost = {} /\ refused = FALSE
    /\ IF part = "cache" THEN Cache!Init
       ELSE /\ stored = None /\ cache = {} /\ get = None /\ save = {} /\ saves = 0
            /\ cacheNow = 0 /\ replaced = None
    /\ IF part = "idem" THEN Idem!Init
       ELSE record = "none" /\ retry = None /\ done = 0 /\ unclaimed = FALSE /\ forgotten = FALSE
    /\ IF part = "consent" THEN Consents!Init
       ELSE client = None /\ consent = None /\ request = None /\ changes = 0
    /\ IF part = "guards" THEN Guards!Init
       ELSE /\ rows = {} /\ tenant = None /\ installs = None /\ guarded = None
            /\ guardsNow = 0 /\ guardsEdits = 0 /\ lastActive = None
    /\ IF part = "trail" THEN Trail!Init
       ELSE /\ entity = None /\ tracked = None /\ history = {} /\ audit = {}
            /\ pending = {} /\ swallowed = FALSE
    /\ Return!Init

PlatformNext ==
    \/ /\ part = "keys" /\ Next
       /\ UNCHANGED <<part, mail, access, pages, agency, caching, retries, consents,
                       guards, trail, return>>
    \/ /\ part = "mail" /\ Mail!Next
       /\ UNCHANGED <<part, vars, access, pages, agency, caching, retries, consents,
                       guards, trail, return>>
    \/ /\ part = "access" /\ Access!Next
       /\ UNCHANGED <<part, vars, mail, pages, agency, caching, retries, consents,
                       guards, trail, return>>
    \/ /\ part = "pages" /\ Pages!Next
       /\ UNCHANGED <<part, vars, mail, access, agency, caching, retries, consents,
                       guards, trail, return>>
    \/ /\ part = "agent" /\ Agents!Next
       /\ UNCHANGED <<part, vars, mail, access, pages, caching, retries, consents,
                       guards, trail, return>>
    \/ /\ part = "cache" /\ Cache!Next
       /\ UNCHANGED <<part, vars, mail, access, pages, agency, retries, consents,
                       guards, trail, return>>
    \/ /\ part = "idem" /\ Idem!Next
       /\ UNCHANGED <<part, vars, mail, access, pages, agency, caching, consents,
                       guards, trail, return>>
    \/ /\ part = "consent" /\ Consents!Next
       /\ UNCHANGED <<part, vars, mail, access, pages, agency, caching, retries,
                       guards, trail, return>>
    \/ /\ part = "guards" /\ Guards!Next
       /\ UNCHANGED <<part, vars, mail, access, pages, agency, caching, retries,
                       consents, trail, return>>
    \/ /\ part = "trail" /\ Trail!Next
       /\ UNCHANGED <<part, vars, mail, access, pages, agency, caching, retries,
                       consents, guards, return>>
    \/ /\ part = "return" /\ Return!Next
       /\ UNCHANGED <<part, vars, mail, access, pages, agency, caching, retries,
                       consents, guards, trail>>

PlatformSpec == PlatformInit /\ [][PlatformNext]_platformVars

-------------------------------------------------------------------------------
(* Properties: those of the components, under the names they have there,   *)
(* each with the types of its component                                    *)

\* A completed job is in the ledger, a failed one in the dead-letter queue (process),
\* and a hard bounce that is recorded suppresses the recipient (ingest).
MailAccounted ==
    part = "mail" => Mail!TypeOK /\ Mail!JobAccounted /\ Mail!HardBounceSuppresses

\* A DENY grant that stands during the whole check keeps the platform shut (decide).
DenialStands == part = "access" => Access!TypeOK /\ Access!DenialStands

\* Forms in several tabs are not refused for one another's token (getOrSetCsrf).
TabsStayValid == part = "pages" => Pages!TypeOK /\ Pages!TabsStayValid

\* No chain of token exchanges adds to what the user held (tokenExchangeGrant).
DelegationBounded == part = "agent" => Agents!TypeOK /\ Agents!DelegationBounded

\* An overwritten credential is served for no longer than the TTL (get, set).
StaleWithinTTL == part = "cache" => Cache!TypeOK /\ Cache!StaleWithinTTL

\* Retries with one key have one effect (IdempotencyInterceptor).
OneEffect == part = "idem" => Idem!TypeOK /\ Idem!OneEffect

\* A third party has codes only for scopes that were consented to (authorize).
NoCodeWithoutConsent == part = "consent" => Consents!TypeOK /\ Consents!NoCodeWithoutConsent

\* A handler runs on what its request's middleware and guards found, each at its moment.
HandlerEarned == part = "guards" => Guards!TypeOK /\ Guards!HandlerEarned

\* What changed an entity is in the audit log and in its history (the interceptors).
TrailComplete == part = "trail" => Trail!TypeOK /\ Trail!TrailComplete

\* A sign-in ends where it was meant to (safeReturnTo, assertExternalAuthAllowed).
ReturnKept == part = "return" => Return!TypeOK /\ Return!ReturnKept

===============================================================================
