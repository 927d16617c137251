------------------------------ MODULE HostedPages ------------------------------
(***************************************************************************)
(* One browser at the hosted pages: its tabs, its cookies and the sessions *)
(* it opens.  LoginController serves the pages, csrfMiddleware and the     *)
(* exclude list of main.ts stand before it, and AuthController serves the  *)
(* scripts of the platforms in the same browser.                           *)
(*                                                                         *)
(* A page is asked for with the cookies of that moment and shown, with     *)
(* what its answer sets, later: other answers may come in between.         *)
(*                                                                         *)
(* refresh_token is set at "/" by the hosted pages and at "/api/v1/auth"   *)
(* by the API: two cookies, of which a renewal is sent both and            *)
(* cookie-parser keeps the first, the one with the longer path.            *)
(***************************************************************************)
EXTENDS Integers, FiniteSets

CONSTANTS Tabs, Sids, Tokens,
          None, \* no cookie, no challenge
          Dead  \* a refresh token that no session carries any more

VARIABLES csrf,      \* cookie oidc_csrf
          auth,      \* cookie auth_token, by its session
          root,      \* cookie refresh_token at "/", by its session
          scoped,    \* cookie refresh_token at "/api/v1/auth"
          opened,    \* sessions that have been opened
          usable,    \* those that are active and unexpired
          tab,       \* what a tab shows or waits for
          lost,      \* history: tabs whose token was overtaken or expired
          refused    \* history: a form was refused for its token, and not lost

cookies == <<csrf, auth, root, scoped>>
pagesVars == <<csrf, auth, root, scoped, opened, usable, tab, lost, refused>>

-------------------------------------------------------------------------------
(* The forms *)

SignInForms == {"login", "mfa", "register"}
PublicForms == SignInForms \cup {"forgot", "reset"} \* a resend is as forgot

\* Forms of the account page: names, theme and sessions, and a linked provider.
AccountForms == {"account", "unlink"}

\* Consent, and the pages that main.ts leaves under /api/v1: single sign-on,
\* workspaces, lockout, magic link, invitation, device and the rest.
PortalForms == {"portal"}
Forms == PublicForms \cup AccountForms \cup PortalForms

\* CONTROLLER_CSRF_PROTECTED_FORM_PATHS and the exclude list of setGlobalPrefix:
\* the other forms are answered 403 or 404.
Served == PublicForms \cup {"unlink"}

\* What a handler that did not sign in shows, its token accepted or not.
After(form, accepted) ==
    IF ~accepted THEN {form}
    ELSE [login |-> {"login", "mfa"}, mfa |-> {"mfa", "login"}, register |-> {"register"},
          forgot |-> {"forgot"}, reset |-> {"reset", "login"}, unlink |-> AccountForms][form]

Blank == [at |-> "blank", form |-> "login", token |-> None, sets |-> None, sid |-> None,
          first |-> FALSE]

Page == [at : {"blank", "asked", "shown"}, form : Forms, token : Tokens \cup {None},
         sets : Tokens \cup {None}, \* Set-Cookie oidc_csrf
         sid : Sids \cup {None},    \* Set-Cookie auth_token and refresh_token
         first : BOOLEAN]           \* history: asked for without the cookie

TypeOK ==
    /\ csrf \in Tokens \cup {None}
    /\ auth \in Sids \cup {None}
    /\ {root, scoped} \subseteq Sids \cup {None, Dead}
    /\ usable \subseteq opened /\ opened \subseteq Sids
    /\ tab \in [Tabs -> Page]
    /\ lost \subseteq Tabs
    /\ refused \in BOOLEAN

Init ==
    /\ csrf = None /\ auth = None /\ root = None /\ scoped = None
    /\ opened = {} /\ usable = {}
    /\ tab = [t \in Tabs |-> Blank]
    /\ lost = {} /\ refused = FALSE

-------------------------------------------------------------------------------
(* getOrSetCsrf, verifyCsrf, setSessionCookies *)

Unused == Tokens \ ({csrf} \cup {tab[t].token : t \in Tabs})

\* A page that sets the cookie.
Fresh == {[token |-> k, sets |-> k] : k \in Unused}

\* Fault: every page gets a token of its own.
GetOrSetCsrf_New == Fresh

\* The token of a page, and what its answer sets.
GetOrSetCsrf == IF csrf # None THEN {[token |-> csrf, sets |-> None]} ELSE Fresh

VerifyCsrf(t) == csrf # None /\ csrf = tab[t].token

\* An answer of a page for tab t.
Ask(t, form, sid) ==
    \E c \in GetOrSetCsrf :
        tab' = [tab EXCEPT ![t] = [at |-> "asked", form |-> form, token |-> c.token,
                                   sets |-> c.sets, sid |-> sid, first |-> csrf = None]]

-------------------------------------------------------------------------------
(* Pages *)

\* GET login, register, forgot-password, reset-password, verify-email, consent
GetPage(t) ==
    /\ \E f \in (PublicForms \ {"mfa"}) \cup PortalForms : Ask(t, f, None)
    /\ lost' = lost \ {t}
    /\ UNCHANGED <<cookies, opened, usable, refused>>

\* GET of a page under /api/v1/oidc, where a cookie of path /oidc is not sent: the
\* page always has a new token and sets it for all of them.
GetPortalPage(t) ==
    /\ \E k \in Tokens \ ({csrf} \cup {tab[u].token : u \in Tabs \ {t}}) :
         tab' = [tab EXCEPT ![t] = [at |-> "asked", form |-> "portal", token |-> k,
                                    sets |-> k, sid |-> None, first |-> TRUE]]
    /\ lost' = lost \ {t}
    /\ UNCHANGED <<cookies, opened, usable, refused>>

\* GET account: JwtAuthGuard wants the session of auth_token.
GetAccount(t) ==
    /\ auth \in usable
    /\ \E f \in AccountForms : Ask(t, f, None)
    /\ lost' = lost \ {t}
    /\ UNCHANGED <<cookies, opened, usable, refused>>

\* The answer comes in: its cookies replace those of the jar.  If it is to a first
\* request, pages that were meanwhile given another token have been overtaken.
Arrive(t) ==
    LET p == tab[t] IN
    /\ p.at = "asked"
    /\ tab' = [tab EXCEPT ![t] = IF p.sid = None THEN [p EXCEPT !.at = "shown", !.sets = None, !.first = FALSE]
                                 ELSE Blank]
    /\ csrf' = IF p.sets = None THEN csrf ELSE p.sets
    /\ lost' = lost \cup {u \in Tabs \ {t} : p.first /\ tab[u].token # p.token}
    /\ IF p.sid = None THEN UNCHANGED <<auth, root>>
       ELSE auth' = p.sid /\ root' = p.sid
    /\ UNCHANGED <<scoped, opened, usable, refused>>

\* A form the middleware or the router turns away.
SubmitUnserved(t) ==
    /\ tab[t].at = "shown" /\ tab[t].form \notin Served
    /\ tab' = [tab EXCEPT ![t] = Blank]
    /\ UNCHANGED <<cookies, opened, usable, lost, refused>>

\* A form that is shown again, or followed by another one: refused for its token,
\* wrong, or right and not a sign-in.  verifyEmail, forgotPassword, resetPassword,
\* register without the login that follows it, and the others are here.
Submit(t) ==
    LET p == tab[t] IN
    /\ p.at = "shown" /\ p.form \in Served
    /\ p.form \in AccountForms => auth \in usable
    /\ \E f \in After(p.form, VerifyCsrf(t)) : Ask(t, f, None)
    /\ refused' = (refused \/ (~VerifyCsrf(t) /\ t \notin lost))
    /\ lost' = lost \ {t}
    /\ UNCHANGED <<cookies, opened, usable>>

\* login, login/mfa and register answer with a session.
SubmitSignsIn(t) ==
    LET p == tab[t] IN
    /\ p.at = "shown" /\ p.form \in SignInForms /\ VerifyCsrf(t)
    /\ \E s \in Sids \ opened :
         /\ opened' = opened \cup {s} /\ usable' = usable \cup {s}
         /\ tab' = [tab EXCEPT ![t] = [at |-> "asked", form |-> p.form, token |-> p.token,
                                       sets |-> None, sid |-> s, first |-> FALSE]]
    /\ UNCHANGED <<cookies, lost, refused>>

\* oidc_csrf has Max-Age 1 h from when it was first set: pages do not extend it.
ExpireCsrf ==
    /\ csrf # None /\ csrf' = None
    /\ lost' = {t \in Tabs : tab[t].at # "blank"}
    /\ UNCHANGED <<auth, root, scoped, opened, usable, tab, refused>>

-------------------------------------------------------------------------------
(* AuthController and SessionController *)

\* auth/login and the other sign-ins of the API: sealSessionCookies.
ApiSignIn ==
    /\ \E s \in Sids \ opened :
         /\ opened' = opened \cup {s} /\ usable' = usable \cup {s}
         /\ auth' = s /\ scoped' = s
    /\ UNCHANGED <<csrf, root, tab, lost, refused>>

\* POST auth/refresh: the token is rotated and the new one set at the auth path.
Refresh ==
    LET presented == IF scoped # None THEN scoped ELSE root IN
    /\ presented # None
    /\ IF presented \in usable
       THEN /\ auth' = presented /\ scoped' = presented
            /\ root' = IF root = presented THEN Dead ELSE root
       ELSE auth' = None /\ scoped' = None /\ root' = root
    /\ UNCHANGED <<csrf, opened, usable, tab, lost, refused>>

\* POST auth/logout, behind JwtAuthGuard.
Logout ==
    /\ auth \in usable
    /\ usable' = usable \ {auth}
    /\ auth' = None /\ scoped' = None
    /\ UNCHANGED <<csrf, root, opened, tab, lost, refused>>

\* GET oidc/end_session: the session ends only if auth_token still verifies.
EndSession ==
    /\ \E verified \in BOOLEAN : usable' = IF verified THEN usable \ {auth} ELSE usable
    /\ auth' = None /\ scoped' = None
    /\ UNCHANGED <<csrf, root, opened, tab, lost, refused>>

\* Idle timeout, expiry, or a revocation elsewhere.
SessionEnds ==
    /\ \E s \in usable : usable' = usable \ {s}
    /\ UNCHANGED <<cookies, opened, tab, lost, refused>>

-------------------------------------------------------------------------------
Next ==
    \/ \E t \in Tabs : \/ GetPage(t) \/ GetPortalPage(t) \/ GetAccount(t) \/ Arrive(t)
                       \/ SubmitUnserved(t) \/ Submit(t) \/ SubmitSignsIn(t)
    \/ ExpireCsrf \/ ApiSignIn \/ Refresh \/ Logout \/ EndSession \/ SessionEnds

Spec == Init /\ [][Next]_pagesVars

-------------------------------------------------------------------------------
(* Properties *)

\* Pages opened side by side share one token (getOrSetCsrf): a form is refused for
\* its token only if the cookie has expired since, or if the answer to a request that
\* was sent without the cookie came in later: one of two pages first opened at once,
\* or a page under /api/v1.
TabsStayValid == ~refused

===============================================================================
