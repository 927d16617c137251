------------------------------ MODULE Federation ------------------------------
(***************************************************************************)
(* Sign-in through somebody else's identity provider: social providers     *)
(* (OAuthService), which identify a person by a linked identity, and a     *)
(* tenant's own SAML or OIDC provider (SsoService), which identifies one   *)
(* by email and creates the account on first use.                          *)
(*                                                                         *)
(* What crosses the browser is a handle of ExternalAuthStore: the state of *)
(* a redirect or the ticket of a registration.  One action per statement;  *)
(* what the provider answers (token exchange, signature, nonce, verified   *)
(* email) is either right or ends the call at Abort.  A person is known to *)
(* every provider by one subject and one email, both named by the person.  *)
(* Two accounts of one person are in two tenants; SSO is one tenant's.     *)
(***************************************************************************)
EXTENDS FiniteSets

CONSTANTS Calls,    \* slots for callbacks in flight
          Handles,  \* handles that may be created
          People,   \* subjects at the providers
          Users,    \* accounts that may exist
          None      \* nobody, nothing

VARIABLES handle,   \* ExternalAuthStore: what a handle stands for, while it exists
          user,     \* users: whose email a row has, in which tenant, status, role
          owner,    \* user_identities: the account a person's identity belongs to
          seen,     \* SAML assertion ids recorded
          call,     \* call[c]: where a callback is, and its locals
          used,     \* history: handles that led to a session
          again,    \* history: handles that led to two
          stranger, \* history: a session for an account not bound to the person
          died      \* history: a callback stopped before it was done

federationVars == <<handle, user, owner, seen, call, used, again, stranger, died>>

-------------------------------------------------------------------------------
Fresh == [state |-> "unused", kind |-> None, person |-> None, user |-> None]

NoUser == [mail |-> None, sso |-> FALSE, active |-> FALSE, role |-> FALSE]

Idle == [pc |-> "idle", handle |-> None, person |-> None, user |-> None, owners |-> {}]

Journeys == {"login", "link", "ticket", "saml", "oidc"}

TypeOK ==
    /\ handle \in [Handles -> [state : {"unused", "live", "gone"}, kind : Journeys \cup {None},
                               person : People \cup {None}, user : Users \cup {None}]]
    /\ user \in [Users -> [mail : People \cup {None}, sso : BOOLEAN, active : BOOLEAN,
                           role : BOOLEAN]]
    /\ owner \in [People -> Users \cup {None}]
    /\ seen \subseteq People
    /\ call \in [Calls -> [pc : {"idle", "fetch", "link", "create", "resolve", "match", "register",
                                 "replay", "find", "role", "session"},
                           handle : Handles \cup {None}, person : People \cup {None},
                           user : Users \cup {None}, owners : SUBSET (Users \cup {None})]]
    /\ used \subseteq Handles /\ again \subseteq used
    /\ stranger \in BOOLEAN /\ died \in BOOLEAN

\* One account exists, by password and in the tenant that has SSO, of a person
\* who may have linked a provider.
Init ==
    /\ handle = [h \in Handles |-> Fresh]
    /\ \E u \in Users, p \in People, linked \in BOOLEAN :
         /\ user = [v \in Users |-> IF v = u THEN [mail |-> p, sso |-> TRUE, active |-> TRUE, role |-> TRUE]
                                    ELSE NoUser]
         /\ owner = [q \in People |-> IF q = p /\ linked THEN u ELSE None]
    /\ seen = {} /\ call = [c \in Calls |-> Idle]
    /\ used = {} /\ again = {} /\ stranger = FALSE /\ died = FALSE

Goto(c, pc) == call' = [call EXCEPT ![c].pc = pc]

Answer(c) == call' = [call EXCEPT ![c] = Idle]

Rows(mail, sso) == {u \in Users : user[u].mail = mail /\ (sso => user[u].sso)}

\* The identity of p now belongs to u; every callback of p that runs has seen it.
Bind(p, u, c, pc) ==
    /\ owner' = [owner EXCEPT ![p] = u]
    /\ call' = [d \in Calls |->
         IF d = c THEN [call[d] EXCEPT !.pc = pc, !.user = u, !.owners = @ \cup {u}]
         ELSE IF call[d].person = p THEN [call[d] EXCEPT !.owners = @ \cup {u}] ELSE call[d]]

-------------------------------------------------------------------------------
(* Handles *)

Create(h, kind, p, u) ==
    /\ handle[h].state = "unused"
    /\ handle' = [handle EXCEPT ![h] = [state |-> "live", kind |-> kind, person |-> p, user |-> u]]

\* buildAuthorizationUrl, buildLinkAuthorizationUrl (from a session of at most
\* ten minutes), buildSamlLoginUrl, buildOidcLoginUrl
Start(h, kind, u) ==
    /\ kind # "ticket"
    /\ IF kind = "link" THEN u # None /\ user[u].active ELSE u = None
    /\ Create(h, kind, None, u)
    /\ UNCHANGED <<user, owner, seen, call, used, again, stranger, died>>

\* Fault: the handle is read, and deleted by nobody.
Consume_ReadOnly(c, h) ==
    /\ call[c].pc = "idle" /\ handle[h].state = "live"
    /\ \E p \in People :
         /\ handle[h].kind = "ticket" => p = handle[h].person
         /\ call' = [call EXCEPT ![c] = [pc |-> "fetch", handle |-> h, person |-> p,
                                        user |-> handle[h].user, owners |-> {owner[p]}]]
    /\ UNCHANGED <<handle, user, owner, seen, used, again, stranger, died>>

\* A callback, for whoever signed in at the provider, or a completed
\* registration form: GET and DEL in one script.  A handle at the wrong
\* provider's or tenant's callback is lost the same way (Expire).
Consume(c, h) ==
    /\ call[c].pc = "idle" /\ handle[h].state = "live"
    /\ \E p \in People :
         /\ handle[h].kind = "ticket" => p = handle[h].person
         /\ call' = [call EXCEPT ![c] = [pc |-> "fetch", handle |-> h, person |-> p,
                                        user |-> handle[h].user, owners |-> {owner[p]}]]
    /\ handle' = [handle EXCEPT ![h].state = "gone"]
    /\ UNCHANGED <<user, owner, seen, used, again, stranger, died>>

Expire(h) ==
    /\ handle[h].state = "live"
    /\ handle' = [handle EXCEPT ![h].state = "gone"]
    /\ UNCHANGED <<user, owner, seen, call, used, again, stranger, died>>

\* The provider has vouched for the person.
Dispatch(c) ==
    LET kind == handle[call[c].handle].kind
    IN  /\ call[c].pc = "fetch"
        /\ Goto(c, CASE kind = "link" -> "link" [] kind = "login" -> "resolve"
                     [] kind = "ticket" -> "register" [] kind = "saml" -> "replay"
                     [] kind = "oidc" -> "find")
        /\ UNCHANGED <<handle, user, owner, seen, used, again, stranger, died>>

-------------------------------------------------------------------------------
(* Social providers *)

\* linkExternalIdentity, the lookup: an identity of somebody else is refused.
LookupIdentity(c) ==
    LET u == owner[call[c].person]
    IN  /\ call[c].pc = "link"
        /\ IF u \notin {None, call[c].user} \/ ~user[call[c].user].active THEN Answer(c)
           ELSE Goto(c, IF u = None THEN "create" ELSE "session")
        /\ UNCHANGED <<handle, user, owner, seen, used, again, stranger, died>>

\* The insert fails if the identity was bound since the lookup.
CreateIdentity(c) ==
    /\ call[c].pc = "create"
    /\ IF owner[call[c].person] = None THEN Bind(call[c].person, call[c].user, c, "session")
       ELSE Answer(c) /\ UNCHANGED owner
    /\ UNCHANGED <<handle, user, seen, used, again, stranger, died>>

ResolveLinkedUser(c) ==
    LET u == owner[call[c].person]
    IN  /\ call[c].pc = "resolve"
        /\ IF u = None THEN Goto(c, "match")
           ELSE IF user[u].active THEN call' = [call EXCEPT ![c].pc = "session", ![c].user = u]
           ELSE Answer(c)
        /\ UNCHANGED <<handle, user, owner, seen, used, again, stranger, died>>

\* An email that is known is no proof: the person is sent to the sign-in page.
\* Otherwise the profile waits for the registration form.
MatchEmail(c) ==
    LET matches == Rows(call[c].person, FALSE)
    IN  /\ call[c].pc = "match"
        /\ Answer(c)
        /\ IF matches # {} THEN UNCHANGED handle
           ELSE \E h \in Handles : Create(h, "ticket", call[c].person, None)
        /\ UNCHANGED <<user, owner, seen, used, again, stranger, died>>

\* completeExternalRegistration: account and identity commit together (see
\* Registration), or not at all if the identity is bound by now.
Register(c) ==
    LET p == call[c].person
    IN  /\ call[c].pc = "register"
        /\ \/ /\ owner[p] # None
              /\ Answer(c) /\ UNCHANGED <<user, owner>>
           \/ /\ owner[p] = None
              /\ \E u \in Users :
                   /\ user[u] = NoUser
                   /\ user' = [user EXCEPT ![u] = [mail |-> p, sso |-> FALSE, active |-> TRUE, role |-> TRUE]]
                   /\ Bind(p, u, c, "session")
        /\ UNCHANGED <<handle, seen, used, again, stranger, died>>

\* unlinkProvider, of an account with a password
Unlink(p) ==
    /\ owner[p] # None
    /\ owner' = [owner EXCEPT ![p] = None]
    /\ UNCHANGED <<handle, user, seen, call, used, again, stranger, died>>

-------------------------------------------------------------------------------
(* The provider of a tenant *)

\* recordSamlAssertion: SET NX, before the signature is verified.  A person has
\* one assertion here, which somebody may post again with a new RelayState.
RecordSamlAssertion(c) ==
    /\ call[c].pc = "replay"
    /\ IF call[c].person \in seen THEN Answer(c) ELSE Goto(c, "find")
    /\ seen' = seen \cup {call[c].person}
    /\ UNCHANGED <<handle, user, owner, used, again, stranger, died>>

\* resolveOrCreateUser, the lookup and the insert; a second insert fails.
FindOrCreateUser(c) ==
    LET found == Rows(call[c].person, TRUE)
    IN  /\ call[c].pc = "find"
        /\ \/ /\ \E u \in found :
                   call' = [call EXCEPT ![c] = IF user[u].active
                                               THEN [@ EXCEPT !.pc = "session", !.user = u] ELSE Idle]
              /\ UNCHANGED user
           \/ /\ found = {}
              /\ \E u \in Users :
                   /\ user[u] = NoUser
                   /\ user' = [user EXCEPT ![u] = [mail |-> call[c].person, sso |-> TRUE,
                                                   active |-> TRUE, role |-> FALSE]]
                   /\ call' = [call EXCEPT ![c].pc = "role", ![c].user = u]
        /\ UNCHANGED <<handle, owner, seen, used, again, stranger, died>>

\* Fault: the role is left to somebody else.
AssignViewer_Skipped(c) ==
    /\ call[c].pc = "role"
    /\ Goto(c, "session")
    /\ UNCHANGED <<handle, user, owner, seen, used, again, stranger, died>>

AssignViewer(c) ==
    /\ call[c].pc = "role"
    /\ user' = [user EXCEPT ![call[c].user].role = TRUE]
    /\ Goto(c, "session")
    /\ UNCHANGED <<handle, owner, seen, used, again, stranger, died>>

-------------------------------------------------------------------------------
IssueSession(c) ==
    LET h == call[c].handle
    IN  /\ call[c].pc = "session"
        /\ used' = used \cup {h} /\ again' = again \cup ({h} \cap used)
        /\ stranger' = (stranger \/ IF handle[h].kind \in {"saml", "oidc"}
                                    THEN ~user[call[c].user].sso \/ user[call[c].user].mail # call[c].person
                                    ELSE call[c].user \notin call[c].owners)
        /\ Answer(c)
        /\ UNCHANGED <<handle, user, owner, seen, died>>

\* An administrator suspends an account.
Suspend(u) ==
    /\ user[u].active
    /\ user' = [user EXCEPT ![u].active = FALSE]
    /\ UNCHANGED <<handle, owner, seen, call, used, again, stranger, died>>

\* The provider does not vouch for the person, or the process stops.
Abort(c) ==
    /\ call[c].pc # "idle"
    /\ Answer(c)
    /\ died' = (died \/ call[c].pc = "role")
    /\ UNCHANGED <<handle, user, owner, seen, used, again, stranger>>

Next ==
    \/ \E h \in Handles : \/ \E kind \in Journeys, u \in Users \cup {None} : Start(h, kind, u)
                          \/ Expire(h)
                          \/ \E c \in Calls : Consume(c, h)
    \/ \E c \in Calls : \/ Dispatch(c) \/ LookupIdentity(c) \/ CreateIdentity(c)
                        \/ ResolveLinkedUser(c) \/ MatchEmail(c) \/ Register(c)
                        \/ RecordSamlAssertion(c) \/ FindOrCreateUser(c) \/ AssignViewer(c)
                        \/ IssueSession(c) \/ Abort(c)
    \/ \E p \in People : Unlink(p)
    \/ \E u \in Users : Suspend(u)

Spec == Init /\ [][Next]_federationVars

-------------------------------------------------------------------------------
(* Properties *)

\* Every session is earned.  A state or a ticket is good for one, whatever callbacks
\* are sent with it at once ("One-time server-side storage").  A social provider
\* signs a person into an account only if its identity belonged to that account at
\* some moment of the callback; that the emails are equal never suffices.  A
\* tenant's provider signs into its tenant only.
SessionsEarned == again = {} /\ ~stranger

\* An account made at a first sign-in has its role as soon as the call that
\* made it is done, unless that call stopped half-way (nothing repairs it then).
NoAccountWithoutRole ==
    ~died => \A u \in Users : user[u].mail # None /\ ~user[u].role =>
                 \E c \in Calls : call[c].pc = "role" /\ call[c].user = u

===============================================================================
