------------------------------- MODULE ReturnPath -------------------------------
(***************************************************************************)
(* Where a sign-in ends.  An application sends the browser to the hosted   *)
(* pages with return_to; the links and hidden fields of the pages, the     *)
(* one-time records of external sign-in and passkeys, and the redirects of *)
(* LoginController, OAuthController and SsoController pass it on, each     *)
(* through a safeReturnTo of its own, until a session is opened.           *)
(*                                                                         *)
(* return_to also decides how one may sign in: it holds the authorize      *)
(* request with its client_id, and the audience of the client's platform   *)
(* selects the provider realm and forbids external accounts.               *)
(*                                                                         *)
(* A form that is refused shows its page again with the same return_to: a  *)
(* step that changes nothing here.  welcome=true may be added to what is   *)
(* returned to.  Tokens of the forms are the matter of HostedPages.        *)
(***************************************************************************)
EXTENDS Naturals, FiniteSets

CONSTANTS None,      \* no page, no destination
          MaxRecords \* bound on one-time records at a time

VARIABLES place,  \* the page the browser shows, and the flow it belongs to
          stored, \* one-time records: transactions, tickets, ceremonies
          landed  \* the last redirect out of the pages

returnVars == <<place, stored, landed>>

-------------------------------------------------------------------------------
(* Destinations *)

\* Authorize requests of a tenant's platform and of an internal one, the account
\* page, another path of this server, a known host, and the bare authorize path;
\* home and appPath are at TENANT_APP_URL.
Paths == {"root", "tenantRequest", "internalRequest", "account", "path", "authorize"}
Absolute == {"known", "home", "appPath"}
Destinations == Paths \cup Absolute

\* What an application may put in return_to: nothing, or a host nobody knows, too.
Asked == {None, "unknown", "root", "tenantRequest", "internalRequest", "path", "known"}

\* safeReturnTo of login.controller.ts.
SafeReturnTo(raw) == IF raw \in {None, "unknown"} THEN "root" ELSE raw

\* That of oauth.service.ts: paths other than /oidc/ are the tenant application's.
OAuthReturnTo(raw) ==
    CASE raw \in {None, "unknown", "root"} -> "home"
      [] raw = "path" -> "appPath"
      [] OTHER -> raw

\* That of sso.controller.ts: no host at all.
SsoReturnTo(raw) == IF raw \in {None, "unknown"} \cup Absolute THEN "authorize" ELSE raw

\* The same place, as far as the two hosts are told apart.
Same(d, e) == \E class \in {{"root", "home"}, {"path", "appPath"}, {d}} : {d, e} \subseteq class

-------------------------------------------------------------------------------
(* Pages *)

\* Those that are asked for, and those that answer a form.
Entries == {"login", "register", "forgot", "reset", "verify", "sso", "portal"}
Pages == Entries \cup {"mfa", "success"}

\* From which page to which: links, and answers to a form.  These have a return_to,
LoginLinks == {<<"login", "forgot">>, <<"login", "register">>}
MfaLinks == {<<"mfa", "login">>}
RegisterLinks == {<<"register", "login">>}
RecoveryLinks == {<<"forgot", "login">>, <<"reset", "login">>}
VerifyLinks == {<<"success", "verify">>, <<"verify", "login">>}
SsoLinks == {<<"sso", "login">>}
Keeping == LoginLinks \cup MfaLinks \cup RegisterLinks \cup RecoveryLinks \cup VerifyLinks
           \cup SsoLinks

\* and these have none: of the portal's other views, and those that come by mail.
PortalLinks == {<<"portal", "login">>, <<"portal", "register">>, <<"portal", "sso">>}
MailedLinks == {<<"forgot", "reset">>, <<"success", "verify">>, <<"verify", "verify">>}
Losing == PortalLinks \cup MailedLinks

\* How a session was opened; or a link of a page was followed without one.
Methods == {"password", "mfa", "passkey", "external", "register", "sso", "link"}

Flow == [to : Destinations,
         from : Destinations,  \* history: what it began with
         kept : BOOLEAN,       \* history: no link on the way lost it
         known : BOOLEAN]      \* history: the platform could be read each time

Record == {"external", "ticket", "passkey", "sso"}
Page == [page : Pages, flow : Flow, ticket : {None} \cup Flow]

TypeOK ==
    /\ place \in {None} \cup Page
    /\ stored \subseteq [kind : Record, flow : Flow] /\ Cardinality(stored) <= MaxRecords
    /\ landed \in {None} \cup [flow : Flow, method : Methods, realm : {"tenant", "provider"}]

Init == place = None /\ stored = {} /\ landed = None

At(page) == place # None /\ place.page = page
Flowing(to) == [to |-> to, from |-> to, kept |-> TRUE, known |-> TRUE]
Show(page, flow) == place' = [page |-> page, flow |-> flow, ticket |-> None]
Lost(flow) == [flow EXCEPT !.to = "root", !.kept = FALSE]

Land(flow, method, realm) ==
    /\ landed' = [flow |-> flow, method |-> method, realm |-> realm]
    /\ place' = None

Store(kind, flow) ==
    /\ Cardinality(stored) < MaxRecords
    /\ stored' = stored \cup {[kind |-> kind, flow |-> flow]}

\* isInternalPlatformLogin and assertExternalAuthAllowed read the client and its
\* platform; a read that fails says no as well (catch).
Unread(flow) == [flow EXCEPT !.known = FALSE]
Looks(flow) ==
    {[internal |-> flow.to = "internalRequest", flow |-> flow]}
        \cup (IF flow.to = "internalRequest" THEN {[internal |-> FALSE, flow |-> Unread(flow)]} ELSE {})

-------------------------------------------------------------------------------
(* LoginController *)

\* An application, or authorize, sends the browser to a page.
Open ==
    /\ \E raw \in Asked, page \in Entries : Show(page, Flowing(SafeReturnTo(raw)))
    /\ UNCHANGED <<stored, landed>>

\* What the page behind a link makes of the return_to in it.
Through(link, flow) == [flow EXCEPT !.to = SafeReturnTo(@)]

FollowLink ==
    /\ place # None
    /\ \/ \E link \in Keeping :
             place.page = link[1] /\ Show(link[2], Through(link, place.flow))
       \/ \E link \in Losing :
             place.page = link[1] /\ Show(link[2], Lost(place.flow))
    /\ UNCHANGED <<stored, landed>>

\* login or providerLogin, by the platform of return_to.
RealmOf(look) == IF look.internal THEN "provider" ELSE "tenant"

\* A session, or a challenge that does not name the realm.
SubmitLogin ==
    /\ At("login")
    /\ \E look \in Looks(place.flow) :
          \/ Land(look.flow, "password", RealmOf(look))
          \/ Show("mfa", look.flow) /\ UNCHANGED landed
    /\ UNCHANGED stored

\* issueSession of verifyMfaLogin is given no realm.
SubmitMfa == At("mfa") /\ Land(place.flow, "mfa", "tenant") /\ UNCHANGED stored

\* register and the login that follows it, or completeExternalRegistration, which
\* returns where the ticket says.
SubmitRegister ==
    /\ At("register")
    /\ IF place.ticket = None
       THEN Show("success", place.flow) /\ UNCHANGED <<stored, landed>>
       ELSE LET record == [kind |-> "ticket", flow |-> place.ticket] IN
            /\ record \in stored /\ stored' = stored \ {record}
            /\ Land(place.ticket, "external", "tenant")

\* "Continue" after registering (signed in) or after verifying (perhaps not).
Continue ==
    /\ \/ At("success") /\ Land(place.flow, "register", "tenant")
       \/ At("verify") /\ Land(place.flow, "link", "tenant")
    /\ UNCHANGED stored

-------------------------------------------------------------------------------
(* OAuthController and OAuthService *)

\* registerForm with external_auth takes return_to from the ticket.
ShowTicket(flow) == place' = [page |-> "register", flow |-> flow, ticket |-> flow]

\* Fault: the start of an external sign-in looks at no platform.
Admits_All(look) == TRUE

\* assertExternalAuthAllowed
Admits(look) == ~look.internal

\* The login page of an internal platform has no buttons; the registration page has.
Buttons ==
    \/ At("register") /\ place.ticket = None
    \/ At("login") /\ \E look \in Looks(place.flow) : ~look.internal

\* start
StartExternal ==
    /\ Buttons
    /\ \E look \in Looks(place.flow) :
          Admits(look) /\ Store("external", [look.flow EXCEPT !.to = OAuthReturnTo(@)])
    /\ UNCHANGED <<place, landed>>

\* link, from the account page.
StartLink == Store("external", Flowing("account")) /\ UNCHANGED <<place, landed>>

\* callback: a session, a ticket for an account that is not there yet, or an error
\* page without return_to.
Callback ==
    \E record \in {r \in stored : r.kind = "external"} :
        \/ Land(record.flow, "external", "tenant") /\ stored' = stored \ {record}
        \/ /\ record.flow.to # "account"
           /\ stored' = (stored \ {record}) \cup {[kind |-> "ticket", flow |-> record.flow]}
           /\ ShowTicket(record.flow) /\ UNCHANGED landed
        \/ /\ stored' = stored \ {record}
           /\ Show("login", Lost(record.flow)) /\ UNCHANGED landed

-------------------------------------------------------------------------------
(* PasskeyController, SsoController *)

\* authentication/options, by the script of the login page.
StartPasskey == At("login") /\ Store("passkey", place.flow) /\ UNCHANGED <<place, landed>>

\* saml/login and oidc/login of a tenant, asked for by an application.
StartSso ==
    /\ \E raw \in Asked : Store("sso", Flowing(SsoReturnTo(raw)))
    /\ UNCHANGED <<place, landed>>

\* authentication/verify
FinishPasskey ==
    \E record \in {r \in stored : r.kind = "passkey"} :
        /\ stored' = stored \ {record}
        /\ Land([record.flow EXCEPT !.to = SafeReturnTo(@)], "passkey", "tenant")

\* saml/callback and oidc/callback
FinishSso ==
    \E record \in {r \in stored : r.kind = "sso"} :
        /\ stored' = stored \ {record}
        /\ Land([record.flow EXCEPT !.to = SsoReturnTo(@)], "sso", "tenant")

\* Records expire, and are consumed by attempts that fail.
Drop == \E record \in stored : stored' = stored \ {record} /\ UNCHANGED <<place, landed>>

-------------------------------------------------------------------------------
\* Up to the first landing: the flows that go on are there without it as well.
Next ==
    /\ landed = None
    /\ \/ Open \/ FollowLink \/ SubmitLogin \/ SubmitMfa \/ SubmitRegister \/ Continue
       \/ StartExternal \/ StartLink \/ Callback \/ StartPasskey \/ StartSso \/ FinishPasskey
       \/ FinishSso \/ Drop

Spec == Init /\ [][Next]_returnVars

-------------------------------------------------------------------------------
(* Properties *)

\* A sign-in ends where it was meant to, whichever pages, records and redirects it
\* went through, unless one of them is known to lose return_to; and an external
\* account never continues the request of an internal platform whose audience could
\* be read (safeReturnTo, assertExternalAuthAllowed).
ReturnKept ==
    landed # None =>
        /\ landed.flow.kept => Same(landed.flow.to, landed.flow.from)
        /\ landed.flow.known /\ landed.method = "external" => landed.flow.to # "internalRequest"

\* "Authenticates a control-plane provider staff and issues a provider realm token"
\* (providerLogin): with a password, or with a password and a second factor.
ProviderRealm ==
    (landed # None /\ landed.method \in {"password", "mfa"} /\ landed.flow.known
        /\ landed.flow.to = "internalRequest")
    => landed.realm = "provider"

===============================================================================
