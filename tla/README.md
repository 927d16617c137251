# A TLA+ model of the UniERP identity provider

The identity provider is a NestJS service: it signs users in, keeps their
sessions, and issues OIDC tokens to the other applications of the platform. All
durable state is in PostgreSQL (through Prisma) and Redis, and several replicas
share it. A request handler is a sequence of database statements with an `await`
between any two, so handlers of different requests, on one replica or on
several, interleave statement by statement, and a handler may stop between two
of them. Almost everything that can go wrong here goes wrong there, and that is
what these modules model: **one action per statement**, together with the
synchronous code that follows it.

## The system

Paths are relative to `src/src/` of the repository.

| Component | State | Operations | What is hard | Correct when |
|---|---|---|---|---|
| OIDC codes and grants (`modules/oidc`: `authorization.service`, `oidc-token.service`, token, authorize and session controllers) | `authorization_codes`, `refresh_grants`, `user_sessions` | authorize, redeem, refresh, revoke, end session, purge | races between redemptions, replays, rotations and logout; teardown in two statements | one bearer per sign-in, linear rotation, an ended session refreshes nothing |
| Third-party consent (`oidc-client.service`, consent page) | `client_consents`, `oauth_clients` | ask, record, revoke | rows edited between the reads; two controllers with one path | no code without consent |
| Signing keys (`signing-key.service`, JWKS) | `oidc_signing_keys` | ensure, rotate, retire, publish | replicas booting at once; unreadable keys; retirement while tokens are valid | one CURRENT key, no surplus keys, keys of valid tokens published |
| First-party sessions (`auth.service`, `auth.controller`, `jwt-auth.guard`) | `user_sessions` with the refresh hash; cookies | sign in, renew, touch, time out, revoke | lookup and update are separate; cookies arrive out of order; touches not awaited | cap holds, revocation is final, browser and row agree |
| One-time codes (`otp.store`) | two Redis keys per address | send, verify | parallel guesses; two commands for one counter | attempt limit, single use |
| Passwords (`login-throttle.service`, `authenticateInternal`) | counters of account and origin | sign in, lock, clear | counts written from values read long before | limits hold |
| Second factor, push approval | `users` columns, `mfa_push_challenges` | enrol, confirm, disable, recover; ask, approve, poll | a list read, matched slowly and written back | columns in step, one verdict |
| Mailed links | token tables, password | request, open, set | check long before use | a dead link opens nothing |
| Federation, single sign-on (`external-auth.store`, `oauth.service`, `sso.service`) | one-time handles, identities, users | start, callback, link, register | callbacks racing for one handle | each session is earned |
| Passkeys, ways in (`passkey.service`) | credentials, identities | register, assert, delete, unlink | last-method check, signature counter | a way in remains |
| Registration (`register`) | tenant and user, in two databases' clients | register, compensate | no common transaction; unanswered commits | no half tenant, none deleted after commit |
| Account governance, contacts | memberships, requests, contacts | switch, leave, delete, cancel | checks before writes | who left is signed out |
| Entitlements (`platform-entitlement.service`) | platforms, grants, plans, groups | check | three reads of three moments | a standing denial counts |
| Agent delegation (token exchange) | delegations, claims of tokens | exchange | claims older than roles; chains of exchanges | bounded by what the user held |
| Email (`email.processor`, `email-delivery-operations`) | BullMQ jobs, ledger, suppressions | send, fall back, webhook | retries; webhooks late, double, out of order | every job accounted for |
| Idempotency, credential cache | Redis; memory of a process | claim, complete, release; get, set | expiry between commands; slow reads | one effect; staleness bounded |
| Hosted pages (`login.controller`, views, `csrf.middleware`) | cookies, forms, `return_to` | show, submit, redirect | tabs, late answers, many carriers of one parameter | forms stay valid, sign-ins end where they should |
| Guards, middleware (`common/guards`, `common/middleware`) | rows they read, one cache | admit, refuse | each reads at its own moment | a handler is earned |
| Audit, change history | two logs | record | overlapping requests | the trail is complete |
| Import, export, bulk | rows, import log | write batches | failed statement aborts a transaction | the outcome is true |

How they meet: every token is signed with the key `SigningKeyService` hands out;
OIDC handlers read the session row that sign-in creates, and both logout and
refresh-token reuse write it; `JwtAuthGuard` reads and touches the same row on every
request; passwords, one-time codes, second factors, passkeys and federation all end in
`issueSession`; `authorize` asks the entitlement service and the consent rows before it
issues a code; the pages pass `return_to`, which holds the authorize request, to all of
them.

## Modules

| Module | Models | State and actions |
|---|---|---|
| `AuthorityChain` | abstract: what the token endpoint promises of one sign-in | the right to the next token is a *baton*, held by a code, by the server or by one refresh token; `Issue`, `TakeFromCode`, `TakeFromGrant`, `Give`, `Lose` |
| `OidcGrants` | codes, grants and the sessions they depend on | `code`, `grant`, `session` are the rows, `req[r].pc` is the statement a handler executes next. Redemption: `PresentCode`, `Consume`, `IssueTokens` or `RevokeReplayed`. Refresh: `PresentGrant`, `CheckSession`, `Rotate`, `IssueNext` or `RevokeReused`, `KillSession`. Logout: `EndSession`, `EndGrants`. `Abort` is a handler that stops |
| `ThirdPartyConsent` | consent of one person to one client | `Authorize`, `Admit`, `ReadConsent`, `IssueCode` are the reads of `authorize`; `PressAuthorize` is the form as it is served; rows are edited in between |
| `SigningKeys` | the key table, as all replicas see it | a boot or a mint is `Ask`, `ReadCurrent`, (`DemoteUnreadable`,) `InsertCurrent`, (`ReadWinner`,) `Sign`; `Rotate` and `RetireExpiredPreviousKeys` are one transaction and one statement |
| `BrowserSessions` | first-party sessions of one user and the cookie of each browser | sign-in: `CreateRow`, `ReadActive`, `Evict`, `Deliver`. Renewal: `PresentCookie`, `LookupToken`, `Renew`, `Deliver` or `Refuse`. Guard: `ReadRow`, `Touch` or `TimeOut`. A response is an action of its own, because responses overtake each other |
| `OtpStore` | the code of one address in Redis | `AskCode`, `Issue`; `ReadRecord`, `Increment`, (`SetExpiry`,) `Accept` or `Refuse` |
| `PasswordLockout` | failure counters of one account and one origin | `AssertNotThrottled`, `ReadUser`, `Compare`, then `RegisterFailedAttempt`, `ReadCounter`, `RecordFailure`, or `ClearFailures` |
| `SecondFactor` | TOTP secret and recovery codes of one user | enrol (`GenerateMfaSecret`), confirm or disable (`ProveSecret`, then a write), spend a recovery code (`MatchRecoveryCode`, `ConsumeRecoveryCode`) |
| `PushApproval` | one push challenge | a device reads and writes (`ReadForRespond`, `WriteStatus`), the login page polls (`Poll`, `IssueSession`) |
| `EmailLinks` | reset and verification links, the password they change, the rehash of old passwords | ask (`AskLink`, `BurnOutstanding`, `MintLink`), open and use (`OpenLink`, `SetPassword` or `MarkVerified`) |
| `Federation` | external sign-in: handles, identities, accounts | `Start`, `Consume`, `Dispatch`, lookups and writes of the callback, `Register`, `Unlink`; the SSO path `FindOrCreateUser`, `AssignViewer` |
| `SignInMethods` | passkeys and providers of one account | register, `Assert`, `AcceptAssertion`, `IssueSession`; count, delete, end sessions |
| `Registration` | one organisation name, several attempts | choose slug, create tenant, seed, commit; each may fail, or be done and not answered; `Compensate`, `Report` |
| `AccountGovernance` | memberships, sessions, deletion requests and contacts of one organisation | each operation is its check, its write, and what follows |
| `PlatformAccess` | one access check | `ReadPlatform`, `ReadGrants`, `ReadSubscription`, `ReadGroups`, `Answer`, while each of the rows is edited; `Decide` is the decision as an operator |
| `AgentDelegation` | tokens of one user and one agent | `Verify`, `ReadSession`, `ReadAgent`, `Record`, `MintAgentToken`; roles change, time passes |
| `EmailDelivery` | the worker, the ledger, webhooks | `Reserve`, `Deliver`, `TryNext`, `RecordAccepted`, `OnFailed`; `Ingest` reads, `CommitEvent` writes |
| `Idempotency` | one key | `Claim`, `ReadExisting`, `Run`, `Complete`, `Release`, expiry and crash |
| `CredentialCache` | one provider's credentials, one process | `Hit`, `Miss`, `ReadRows`, `Keep`; `BeginSave`, `Upsert`, `DropEntry` |
| `HostedPages` | one browser: tabs, cookies, sessions | a page is asked for and shown in two actions; forms; API answers that set cookies at other paths |
| `ReturnPath` | `return_to` from an application to a landing | an action per page, form, redirect and record; the three `safeReturnTo` as operators |
| `RequestGuards` | one request on its way to the handler | an action per middleware, guard and interceptor, each with its own read |
| `ChangeTrail` | overlapping requests on one entity | `TakeOld`, `Handle`, `TakeNew`, `RecordChange`, and the audit record that is not waited for |
| `BulkRows` | imports and bulk operations on one table | `Look`, `Create`, `Update` per row inside a transaction that a failed statement aborts; `Commit`, `Finish` |
| `CsvLines` | one line of CSV | the writers as operators; the reader's loop, one character per step |
| `MC...` | the instances for TLC | see below |
| `..._proofs` | theorems | see below |

Operators named `X_Fault`, such as `Consume_CountIgnored`, are not part of any
specification. Each is `X` with a plausible mistake in it (a dropped condition,
two commands for one), and was substituted for `X` to confirm that the property
it is meant for then fails.

Some variables are history: they record what the rows have forgotten so that a
property can speak of it (`rotations`, `until` in `SigningKeys`; `guesses`,
`accepted` in `OtpStore`; `wrong`, `lost` in `PasswordLockout`; `spent`, `stale` in
`SecondFactor`; `crossed`, `outlives`, `excused`, `abandoned`, `lastHeld`, `replaced`
and fields such as `late`, `consented` and `kept`). No guard reads them.

### Instances

`MCOidcGrants`, `MCBrowserSessions`, `MCSigningKeys` and `MCOtpStore` instantiate one
module. `MCSignIn`, `MCAccounts` and `MCPlatform` instantiate several components that
share no rows. Their product would be large and would show nothing that the components do
not show alone, so a behaviour chooses one (`part`) and the other components stay as they
began: the state space is the sum, not the product. A property of a component is stated in
the instance under the component's name for it, together with the component's types.

### What is abstracted

* Tokens, codes, keys, links and handles are distinct values; hashing, signing and
  encryption are assumed to do their job. A lookup by hash is a lookup by token.
* Checks that refuse a request before any write (unknown client, wrong redirect
  URI or PKCE verifier) are left out: the requests in the models are those that
  pass them, or that write although they fail them (a replay, a wrong password).
* Time is a flag per row where only *expired* matters, an action that may happen at
  any moment where a key has a TTL, and a small clock where ages are compared.
* What PostgreSQL, Redis, BullMQ and the browser do is modelled from how the code uses
  them, and named external: a transaction that aborts, a lock that is waited for, a job
  that is retried, cookies of two paths.
* Rows that other services write (roles, grants, plans, lifecycle) are edited by actions
  of their own, at any moment, up to a bound.
* In `SigningKeys` a key decrypts or it does not, for every replica alike. The
  cache of decrypted keys is keyed by row id and never invalidated, so it can
  only spare a decryption that would succeed.
* `OtpStore` is the Redis path, and `Idempotency` the Redis store: their in-process
  counterparts do not await between a read and a write.
* `BrowserSessions` has one cookie per browser. That the pages and the API set it at two
  paths is in `HostedPages`, where the cookies are the subject and the rows are not.

## Runs

| Run | Question | Result |
|---|---|---|
| `oidc_safety` | Can interleaved redemptions, replays, rotations, logouts and failures give one sign-in two bearers (`SingleBearer`), branch a rotation (`LinearRotation`), move a chain to another client or session (`ChainBinding`), or answer a refresh that began after the session ended (`NoRefreshAfterSessionEnd`)? Do the statements of racing requests implement `AuthorityChain` (`ImplementsChain`)? | no; yes |
| `oidc_liveness` | Without failures, does logout revoke every grant that was live when it deactivated the session, and does reuse end the session? | yes |
| `sign_in` | Does the cap hold however sign-ins overlap (`CapHolds`); is a revoked session neither renewed nor revived (`NoRenewalAfterRevocation`, `RevocationIsFinal`); does the browser have the token whose hash is in the row (`BrowserInStep`)? Is a state or ticket good for one session, and only for the person's own account (`SessionsEarned`); has a first sign-in its role (`NoAccountWithoutRole`)? Does the signature counter never go back (`CounterNeverBack`), and does a removal leave a way in and end its sessions (`RemovalInStep`)? | yes |
| `accounts` | Do parallel guesses stay within the limits (`AttemptLimit`, `GuessesBounded`); is an accepted code dead to later calls (`ConsumedCodeDead`), and a used or replaced link (`DeadLinkRefused`)? Do the columns of a second factor agree (`FactorInStep`), has a push challenge one verdict (`OneVerdict`)? Is no tenant left half-made (`NoHalfTenant`), and none deleted that was registered (`RegisteredStays`)? Is whoever left signed out (`LeftIsSignedOut`)? Is what an import reports so (`OutcomeTrue`), and does it read what an export wrote (`ExportReadsBack`)? | yes |
| `platform` | However boots, mints, rotations and retirement overlap: no call fails (`NoCallThrows`), no surplus key (`OneKeyPerRotation`), there is a CURRENT key (`CurrentKeyKept`), a young key is published (`YoungKeysPublished`). Every mail is accounted for and a bounce suppresses (`MailAccounted`); a denial is not overlooked (`DenialStands`); forms of several tabs are not refused (`TabsStayValid`); delegation adds nothing (`DelegationBounded`); a cache is stale for a TTL at most (`StaleWithinTTL`); a retry has one effect (`OneEffect`); a third party has a consent (`NoCodeWithoutConsent`); a handler is earned (`HandlerEarned`); the trail is complete (`TrailComplete`); a sign-in ends where it was meant to (`ReturnKept`) | holds |
| `oidc_replay` | "Redeeming it twice revokes everything derived from it" | **violated**: a replay answered before the first redemption has created its grant revokes nothing |
| `oidc_ended_session` | The session is re-checked when a code is redeemed | **violated**: a code outlives the session it was issued in |
| `browser_token_reuse` | "A replayed old token no longer matches any hash and is rejected" | **violated**: two overlapping renewals with one token are both answered |
| `keys_published` | "Retired once nothing signed by them can still be valid" | **violated**: the age of a key is counted from its generation, not from its last signature |
| `otp_counter` | Does every counter have a TTL? | **violated**: INCR and EXPIRE are two commands |
| `consent_recorded` | Is an approval on "the consent screen for third-party clients" recorded? | **violated**: the routes are those of a handler that records nothing |
| `provider_realm` | Does `providerLogin` issue "a provider realm token"? | **violated**: not after a second factor |

Each violated run checks a single sentence of the repository; the `findings` of
`PROJECT.json` quote it and say what the counterexample does.

Many of the passing properties are worded with an exception, and the exception is the
code's: it names the overlap or the failure against which the code does nothing. Two
handlers that cross between read and write may leave a second factor out of step
(`stale`), a push challenge with two verdicts (`crossed`), an account without a way in, or
a failure uncounted (`lost`); a handler that stops half-way may leave a session signed in
(`excused`, `outlives`), a tenant half-made (`abandoned`) or a member without a role
(`died`); two calls that overlap may both be answered for one code or one link. What the
properties then say is that nothing *else* leads there. `BrowserInStep` leaves out
sessions of which two renewals overlapped or one failed; `CurrentKeyKept` and
`NoCallThrows` leave out a call that stopped half-way.

Deadlock is checked in the `oidc`, `browser`, `keys` and `otp` runs: there is always a
request that may be sent. It is off in the three sums and in `consent_recorded` and
`provider_realm`, because there components really end: an import is answered, a request is
served, a browser has landed, edits are used up.

### Bounds, and why they are enough

* Two calls in flight unless said otherwise (three for signing keys, where the third is needed
  for one call to demote, one to insert and one to lose the race, and three retries with one
  key). All hazards listed in `PROJECT.json` are races of two actors. Slots are reused, so the
  number of requests over time is not bounded by them.
* `oidc_safety`: one code, three grants (a redemption and two rotations, the
  shortest chain that can branch), two clients (for a code presented by the wrong
  one), one failure. When the codes or grants are used up, the insert that would need
  one more fails (second disjunct of `Abort`); the same in `Fail`.
* `sign_in`: two sessions at a cap of one, so that each sign-in evicts; three
  tokens give two sign-ins and a renewal, or one sign-in and two renewals in a row; the
  clock has two values, seen at the same time or later. Two people with two accounts and
  three handles, so that one callback can run into another's account; two passkeys and a
  counter of 0 or 1.
* `accounts`: limits of two; codes that live two ticks with a cooldown of one, so that a code can be
  replaced while its counter lives on; five failures of one origin, past the ceiling of the
  backoff; two batches of two recovery codes; three links, so that a replacement is
  replaced; two slugs and two ids, so that a retry may come with the id of its
  predecessor; files of three rows, one of them repeated, in batches of two; lines of `MaxCells`
  cells of `MaxLength` characters, two of each: enough for a doubled quote and for a comma beside a
  space.
* `platform`: three keys: the one found at boot, its replacement, one rotation; Life is
  one tick and the clock has three values, so a key can be older than a lifetime. Two jobs and
  two providers with two attempts, a hard and a later soft event; two grants; one edit
  of the rows a check reads, which is enough for every read to see a value of another
  moment than the next; one record of an external sign-in at a time, because flows do not
  meet.
* `MaxFaults` is the number of handlers that may stop half-way; one suffices for each of
  the partial failures listed. It is 0 where the question is about interleaving alone.
  Elsewhere `Abort` and `Die` may happen at any time.

Symmetry is used only in runs without liveness or, for the refinement and the action
properties, with properties that are themselves symmetric in the permuted sets. In the sums
one permutation acts on all components that use the set.

### Fairness

`FairSpec` of `OidcGrants` has weak fairness of `Step(r)` for each slot: a handler that
was started goes on, because the event loop runs every continuation and the database
answers every statement. That is no more than the code's `await`s rely on. Nobody has to
send a request, sign out or fail. `oidc_liveness` is run with `MaxFaults = 0`: a handler
that stops between the two statements of a logout never executes the second, and the code
has nothing that would repeat it.

## Proofs

Every invariant and every action property of the passing runs is a theorem too: for any
number of clients, sessions, codes, keys, accounts, jobs, tabs, files and overlapping
requests, any number of failures, any limits and lifetimes, and lines of any number of cells
of any length. So is the refinement of `AuthorityChain`. One proof module goes with each
module that is model-checked by itself, one with each sum of components, and one with
`CsvLines`, whose proof needs lemmas that no other does.

The assumptions are the named `ASSUME` of the module that declares the constants, and TLC
evaluates each of them in a passing run. They say that

* `None`, `Never`, `Wrong` and `Dead` stand for no identifier, destination or time, where a
  component uses them so, and the identifiers of two tables are different;
* bounds of the model are natural numbers; caps, limits and lifetimes are positive
  where a zero would switch the mechanism off (`Cap`, `Max`, `Ttl`, `Attempts`, `TTL`);
* the sets of requests in flight, keys and mail providers are finite where they are counted;
* a file of `BulkRows` is a sequence that is not empty, as `parseCsv` has it.

The clock bounds and edit bounds remain parameters: the theorems hold at any value of them.

### The argument

A property is seldom inductive. Each section of a proof module begins with the invariant
that is, checks that it holds at first and that every action keeps it (one step per action),
and concludes. TLC checked each of these invariants on the instances of the runs first.

In the sums, a step is a step or a stutter of the component that the behaviour is about
(`AccountsParts`, `SignInParts`, `PlatformParts`), so the invariant of a component carries over
to the sum as *part = ... => Inv*.

| Theorem | Says | What makes it inductive |
|---|---|---|
| `OidcGrants_proofs!TypeCorrect`, `ChainsStayBound` | `TypeOK`, `ChainBinding` | `Shape`: types, and what a row or a handler in each state must have set (a consumed code behind a redemption, an existing grant behind a rotation, client and session equal to the code's). Binding is part of it: `IssueNext` copies from a grant that is bound by induction |
| `BatonNeverCopied` | `SingleBearer` | inductive together with `Shape`; each action moves the baton or destroys it, because `Consume` and `Rotate` are conditional updates |
| `EndedSessionsRefreshNothing` | `NoRefreshAfterSessionEnd` | `SessionInv`: nothing makes an inactive row active, a torn-down session is inactive, and a late request never passes `CheckSession` |
| `RotationIsLinear` | `LinearRotation` | `LinearInv` adds that a grant which was replaced is revoked and no handler is about to replace it again; needs `SingleBearer` for the first grant of a code |
| `GrantsImplementChain` | `ImplementsChain` | every action of `OidcGrants` is, under the mapping from rows and handlers to batons, a step of `AuthorityChain` or a stutter; `Shape` and `SingleBearer` give the only baton its place before and after |
| `BrowserSessions_proofs!SessionsTypeCorrect` | `TypeOK` | with what each handler has in its locals |
| `RevokedForGood` | `RevocationIsFinal` | an action property: no statement writes `isActive` of an existing row to true |
| `RevokedSessionsRenewNothing` | `NoRenewalAfterRevocation` | `OwnInv`: a token is known, as hash, cookie or local, to one session only; so the active row a late lookup finds would be the revoked one. Without it a token of another session could let it pass |
| `SessionCapHolds` | `CapHolds` | `CapInv`: when there are more active sessions than the cap, some sign-in has yet to read the rows, or has read them and keeps enough of the active ones in its list. The last to read sees every row that an earlier one has not revoked |
| `BrowserKeepsUp` | `BrowserInStep` | `StepInv`: a session that nobody tore has one request in flight at most, which knows the token of its row; when there is none, the browser does |
| `SigningKeys_proofs!KeysTypeCorrect` | `TypeOK` | |
| `LosingTheRaceIsNoError` | `NoCallThrows` | `RaceInv`: the unreadable key of an earlier release is the only one, only it is demoted, and once a call has lost an insert there is a readable CURRENT key as long as nothing fails |
| `UsableKeysStayPublished` | `YoungKeysPublished` | `YoungInv`: a readable key is retired by age only, and a demotion hits an unreadable one |
| `NoKeyGeneratedTwice` | `OneKeyPerRotation` | `UsableInv`: as soon as a readable key exists, one of them is CURRENT, so the unique index lets in no insert but that of a rotation, which counts itself |
| `MintingStaysPossible` | `CurrentKeyKept` | `KeptInv`: whoever demotes the CURRENT key is about to insert the next |
| `OtpStore_proofs!OtpTypeCorrect` | `TypeOK` | |
| `ParallelGuessesAreCounted` | `AttemptLimit` | `LimitInv`: the counter is the number of comparisons, plus one while its creator is between INCR and EXPIRE; in that time it has no TTL and so cannot vanish |
| `ConsumedCodesStayDead` | `ConsumedCodeDead` | an accepted code is used, not stored, and codes are fresh |
| `SignIn_proofs!EverySessionIsEarned` | `SessionsEarned` | `Vouched`, of each callback: its handle is gone and has opened nothing yet, no other callback has it, the owners it has seen include whoever the identity belongs to now, and the account it is about to sign in is one of them, or of the tenant's own provider |
| `AccountsGetTheirRole` | `NoAccountWithoutRole` | the same invariant; a callback between making an account and its role is the one excused |
| `RemovalsTakeNoMore` | `RemovalInStep` | `MethodInv`: a removal was decided with another way in at hand, and of a passkey that was removed every session, and every sign-in about to open one, is awaited by a handler that has yet to end sessions, or is excused |
| `CountersNeverGoBack` | `CounterNeverBack` | an action property: what a handler is about to store is no less than what it read, and the update is conditional on that value |
| `Accounts_proofs!GuessingStaysBounded` | `GuessesBounded` | `LockoutInv`: wrong passwords, and sign-ins that have passed the read, together are at most the reads; so is some bound on every count of the origin that a row or a handler holds |
| `ImportsTellTheTruth` | `OutcomeTrue` | `RowsTold`: of a call in the middle of its rows, each row before its position is committed or written by the open transaction unless one failed, and an aborted transaction has reported a failure |
| `LeaversAreSignedOut` | `LeftIsSignedOut` | `OwnInv`: whoever is outside and signed in, or about to be, is excused or awaited by a sign-out; rows, and calls past the check, are counted together against the limit |
| `NoTenantIsLeftHalf`, `RegisteredTenantsStay` | `NoHalfTenant`, `RegisteredStays` | `SignUpInv`: at most one attempt answers for a tenant, and it finds the rows as it left them. The second is an action property: only the attempt that answers deletes, and it does not once it has committed |
| `SecondFactorInStep` | `FactorInStep` | `FactorInv`: a list of recovery codes, in the row or in a handler, is of one batch, of those that were made |
| `DeadLinksOpenNothing` | `DeadLinkRefused` | `LinkInv`: a dead link is used; a request that is about to mint has burnt, or has on its list, all that was outstanding when it began |
| `PushHasOneVerdict` | `OneVerdict` | `PushInv`: who will write has read PENDING; unless two crossed, the row holds the one verdict there is |
| `CsvLines_proofs!ExportsAreReadBack` | `ExportReadsBack` | `CsvInv`: the reader has stored the cells before one, trimmed, and is at the byte order mark, at the quote that opens this cell, inside it with its first `j` characters read, or behind it. `Laid` says where in the line each cell is, `Spelled` where in an escaped cell each character is |
| `Platform_proofs!RetriesHaveOneEffect` | `OneEffect` | `OneClaim`: as long as nothing was forgotten and no request ran without a claim, one request at most has the claim, and none while the key is free or its answer stored |
| `CodesNeedConsent` | `NoCodeWithoutConsent` | `ConsentInv`: a consent that covers the scopes now has covered them during the request |
| `DenialsAreHeard` | `DenialStands` | `AccessInv`: the denials that have stood since the check began are in every snapshot it took. `Decide` on such snapshots refuses, whatever else is in them |
| `DelegationAddsNothing` | `DelegationBounded` | `AgentInv`: a user token was minted when its permissions were held; an exchange began while it was valid, and copies a subset of them |
| `StaleValuesFade` | `StaleWithinTTL` | `CacheInv`: an entry is dated from before its rows were read, so each of its values is in force or was replaced no earlier than that date |
| `HandlersAreEarned` | `HandlerEarned` | `GuardInv`: a request keeps in mind all that its route asks for and was so at some moment of it, and has found there what the guards behind it look for; the gate's entry is dated no later than the module was last active |
| `TheTrailIsComplete` | `TrailComplete` | `TrailInv`: while the value of a request is in the row, that value is in the history or its writer is on the way to record it (`Told`); the same of a deletion. A snapshot taken after a write may be another's, and then that other one tells |
| `SignInsReturn` | `ReturnKept` | `ReturnInv`: a page, a ticket and a one-time record that have lost nothing lead where the sign-in began (`Kept`), and those of an external sign-in never to an internal platform (`External`). `OAuthKeeps`: the three `safeReturnTo` agree on a destination, up to the host it is at |
| `TabsKeepWorking` | `TabsStayValid` | `PagesInv`: the token of each page that is not lost is the cookie's, or comes with a cookie of its own |
| `MailIsAccountedFor` | `MailAccounted` | `MailInv`: a job that is not finished has attempts left and its provider is configured; one at the ledger has been accepted by that provider |

`CsvLines` is the one module whose operators recurse over data: its writers concatenate with
`FlattenSeq`, and what an import makes of a line depends on every character before. The prover
has no usable rule of induction, so the lemmas of `CsvLines_proofs` go back to sets of numbers:
a set that has 0, and the successor of each member below `n`, has all of `0..n`, because
otherwise there would be a least number missing (`UpTo`, `Least`). Applied to the prefixes that
satisfy a recursion it gives that the recursion has a solution and that the solution only grows
(`FlattensExists`, `FlattensGrows`), where each piece of the result begins (`FlattensPlaces`),
and from there what escaping, joining and trimming do (`DoubledSpells`, `LineLays`, `TrimCuts`).
Each step of the reader is then a matter of which character it is at.

The type invariants of `OidcGrants`, `BrowserSessions`, `SigningKeys` and `OtpStore` are theorems
of their own; those of the other components are part of the property their instance states, and
proved with it.

### What stays with TLC

* `LogoutSweepsGrants` and `ReuseEndsSession`, the liveness properties of `oidc_liveness`: fairness and
  ENABLED are out of reach of the prover.
* The sentences of the violated runs, of course: they do not hold.

## Not modelled

* Cryptography, SAML and OIDC message parsing, the verification of an authenticator's
  signature: values are right or the call ends.
* Markup, wording, internationalisation and the views without state: of the 4,000 lines of
  `login.controller.ts` and the 800 of the portal views, what is modelled is their forms,
  links, cookies and redirects.
* Mail templates, XLSX and PDF, conversion of cells.
* Configuration, bootstrap, health, tracing, metrics, scripts: no state that two requests
  share.
* Code that the application does not start: the throttler, the tenant interceptor, and the
  services of `CommonModule` except those that are modelled for what they promise to
  others (import, bulk operations, change history, guards, idempotency).
* Onboarding steps, preferences and the password policy, which are each one settings
  object, read and written back whole: of two that are saved at once, one is lost, and
  nothing else depends on them.
* API tokens, login history, IP lists, queries and listings: rows of their own.
* Two encryption keys in `SigningKeys`: replicas of two releases would retire each other's
  keys. The code has no procedure for changing that key that could be checked.
