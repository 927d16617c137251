--------------------------- MODULE ThirdPartyConsent ---------------------------
(***************************************************************************)
(* One person's consent to one client: what /oidc/authorize reads, await   *)
(* by await, before it issues a code (AuthorizeController and              *)
(* OidcClientService), and the consent screen it sends the browser to.     *)
(*                                                                         *)
(* The routes of that screen are those of LoginController, which           *)
(* OidcModule lists before ConsentController; its form carries no client   *)
(* and no scope, and csrfMiddleware turns it away.  ConsentController,     *)
(* the only caller of recordConsent, is never reached, and revokeConsent   *)
(* has no caller: rows change by other means than the screen.              *)
(***************************************************************************)
EXTENDS Integers

CONSTANTS Scopes,
          Openid, Agent, \* two of them that the code names
          None,          \* no consent row
          MaxEdits       \* bound on edits of the two rows

VARIABLES client,   \* oauth_clients row
          consent,  \* client_consents row, or None
          request,  \* GET /oidc/authorize of the browser, and what follows it
          changes

consentVars == <<client, consent, request, changes>>

Client == [active : BOOLEAN, firstParty : BOOLEAN, allowed : SUBSET Scopes]
Consent == [scopes : SUBSET Scopes, revoked : BOOLEAN]

Idle == [at |-> "idle", scopes |-> {}, consented |-> FALSE]

Request == [at : {"idle", "access", "consent", "issue", "coded", "screen", "answered"},
            scopes : SUBSET Scopes,
            consented : BOOLEAN] \* history: at some moment of it, consent covered scopes

TypeOK ==
    /\ client \in Client
    /\ consent \in Consent \cup {None}
    /\ request \in Request
    /\ changes \in 0..MaxEdits

Init ==
    /\ client \in Client
    /\ consent \in Consent \cup {None}
    /\ request = Idle
    /\ changes = 0

-------------------------------------------------------------------------------
(* OidcClientService *)

\* What resolveScopes makes of the scopes asked for: {} is a refusal.
ResolveScopes(asked) ==
    IF asked = {} THEN {Openid}
    ELSE IF Agent \in asked \/ ~(asked \subseteq client.allowed) THEN {} ELSE asked

Covers(row, scopes) == row # None /\ ~row.revoked /\ scopes \subseteq row.scopes

\* Fault: a row is a consent, revoked or not.
NeedsConsent_RevokedToo(scopes) ==
    ~client.firstParty /\ (consent = None \/ ~(scopes \subseteq consent.scopes))

NeedsConsent(scopes) == ~client.firstParty /\ ~Covers(consent, scopes)

-------------------------------------------------------------------------------
(* AuthorizeController.authorize *)

\* getActiveClient and resolveScopes; another answer is an error.
Authorize ==
    /\ request.at \in {"idle", "coded", "answered"}
    /\ \E asked \in SUBSET Scopes :
         /\ client.active /\ ResolveScopes(asked) # {}
         /\ request' = [at |-> "access", scopes |-> ResolveScopes(asked),
                        consented |-> Covers(consent, ResolveScopes(asked))]
    /\ UNCHANGED <<client, consent, changes>>

\* resolveSession and assertMayAccess: signed in and let in, or not.
Admit ==
    /\ request.at = "access"
    /\ \E admitted \in BOOLEAN :
         request' = IF admitted THEN [request EXCEPT !.at = "consent"] ELSE Idle
    /\ UNCHANGED <<client, consent, changes>>

\* firstParty is that of the row read by Authorize: it is never edited.
ReadConsent ==
    /\ request.at = "consent"
    /\ request' = [request EXCEPT !.at = IF NeedsConsent(request.scopes)
                                             THEN "screen" ELSE "issue"]
    /\ UNCHANGED <<client, consent, changes>>

IssueCode ==
    /\ request.at = "issue"
    /\ request' = [request EXCEPT !.at = "coded"]
    /\ UNCHANGED <<client, consent, changes>>

-------------------------------------------------------------------------------
(* The consent screen *)

\* "Authorize App" is pressed and answered: 403, and behind it a handler that only
\* redirects.
PressAuthorize ==
    /\ request.at = "screen"
    /\ request' = [request EXCEPT !.at = "answered"]
    /\ UNCHANGED <<client, consent, changes>>

Abort ==
    /\ request.at \in {"access", "consent", "issue", "screen"}
    /\ request' = Idle
    /\ UNCHANGED <<client, consent, changes>>

-------------------------------------------------------------------------------
(* The rows, edited by other means *)

Edit(row) ==
    /\ changes < MaxEdits /\ changes' = changes + 1
    /\ consent' = row
    /\ request' = [request EXCEPT !.consented = @ \/ Covers(row, request.scopes)]

\* recordConsent: the scopes are replaced, not added to.
RecordConsent(scopes) == Edit([scopes |-> scopes, revoked |-> FALSE]) /\ UNCHANGED client

RevokeConsent ==
    /\ consent # None /\ ~consent.revoked
    /\ Edit([consent EXCEPT !.revoked = TRUE])
    /\ UNCHANGED client

EditClient ==
    /\ changes < MaxEdits /\ changes' = changes + 1
    /\ \E row \in Client : row.firstParty = client.firstParty /\ client' = row
    /\ UNCHANGED <<consent, request>>

-------------------------------------------------------------------------------
Next ==
    \/ Authorize \/ Admit \/ ReadConsent \/ IssueCode \/ PressAuthorize \/ Abort
    \/ \E scopes \in SUBSET Scopes : RecordConsent(scopes)
    \/ RevokeConsent \/ EditClient

Spec == Init /\ [][Next]_consentVars

-------------------------------------------------------------------------------
(* Properties *)

\* "Third-party apps always require an explicit grant" (needsConsent): however the
\* rows change between the awaits of authorize, a third party has a code only for
\* scopes that a consent in force covered at some moment of the request.
NoCodeWithoutConsent ==
    request.at = "coded" => client.firstParty \/ request.consented

\* "The consent screen for third-party clients" (ConsentController): once it has
\* answered an approval, the scopes that were asked for are consented to.
ApprovalRecorded ==
    request.at = "answered" => request.consented

===============================================================================
