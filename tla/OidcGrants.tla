------------------------------ MODULE OidcGrants ------------------------------
(***************************************************************************)
(* Authorization codes and refresh grants of the OIDC server, as the       *)
(* handlers of /oidc/authorize, /oidc/token, /oidc/revoke and              *)
(* /oidc/end_session interleave on them.                                   *)
(*                                                                         *)
(* A handler is a sequence of database statements with an await between    *)
(* any two; every statement is one action here, together with the          *)
(* synchronous code that follows it.  A member of Reqs is a slot for one   *)
(* request in flight; its slot is reused when the request is answered.     *)
(*                                                                         *)
(* A request refused without a write (unknown, suspended or                *)
(* unauthenticated client, wrong redirect_uri or PKCE verifier, missing    *)
(* consent, platform not allowed, expired credential) changes nothing and  *)
(* is left out: the presentations below are those that pass these checks,  *)
(* or that reach a write although they fail them (a replay).               *)
(***************************************************************************)
EXTENDS Naturals

CONSTANTS Clients,    \* registered OAuth clients
          Sessions,   \* user_sessions rows, signed in before the behaviour starts
          Codes,      \* authorization_code rows that may be created
          Grants,     \* refresh_grant rows that may be created
          Reqs,       \* slots for requests in flight
          None,       \* null column
          MaxFaults   \* bound: requests that may die between two statements

ASSUME ConstAssumption ==
    /\ None \notin Clients \cup Sessions \cup Codes \cup Grants
    /\ Codes \cap Grants = {}
    /\ MaxFaults \in Nat

VARIABLES session,    \* session[s]: the row's isActive and whether expiresAt has passed
          code,       \* code[c]: the authorization_code row
          grant,      \* grant[g]: the refresh_grant row
          req,        \* req[r]: where the handler in slot r is, and its locals
          faults,     \* requests that died so far
          contained,  \* history: sessions whose reuse teardown has completed
          replayed    \* history: codes whose replay teardown has completed

rows == <<session, code, grant>>
vars == <<session, code, grant, req, faults, contained, replayed>>

-------------------------------------------------------------------------------
(* Operators named X_Fault below are X with a plausible mistake in it: the   *)
(* checks put them in X's place to see that a property notices.             *)
(*                                                                          *)
(* The rows.  `root' is no column: it names the code a chain of rotations   *)
(* started from, which the rotated_from_id column only gives step by step.  *)

SessionRow == [active : BOOLEAN, lapsed : BOOLEAN]

CodeRow == [st : {"absent", "unused", "consumed", "deleted"},
            client : Clients \cup {None}, sid : Sessions \cup {None},
            offline : BOOLEAN, lapsed : BOOLEAN]

GrantRow == [st : {"absent", "live", "revoked"},
             client : Clients \cup {None}, sid : Sessions \cup {None},
             from : Grants \cup {None}, root : Codes \cup {None},
             lapsed : BOOLEAN]

Pcs == {"idle", "issue_code",
        "consume", "replay", "issue_tokens",
        "check_session", "rotate", "issue_next", "reuse", "kill_session",
        "end_grants"}

ReqState == [pc : Pcs, client : Clients \cup {None}, sid : Sessions \cup {None},
             cred : Codes \cup Grants \cup {None}, offline : BOOLEAN,
             late : BOOLEAN]

NoCodeRow == [st |-> "absent", client |-> None, sid |-> None,
              offline |-> FALSE, lapsed |-> FALSE]

NoGrantRow == [st |-> "absent", client |-> None, sid |-> None,
               from |-> None, root |-> None, lapsed |-> FALSE]

Idle == [pc |-> "idle", client |-> None, sid |-> None, cred |-> None,
         offline |-> FALSE, late |-> FALSE]

TypeOK ==
    /\ session \in [Sessions -> SessionRow]
    /\ code \in [Codes -> CodeRow]
    /\ grant \in [Grants -> GrantRow]
    /\ req \in [Reqs -> ReqState]
    /\ faults \in 0..MaxFaults
    /\ contained \subseteq Sessions
    /\ replayed \subseteq Codes

Init ==
    /\ session = [s \in Sessions |-> [active |-> TRUE, lapsed |-> FALSE]]
    /\ code = [c \in Codes |-> NoCodeRow]
    /\ grant = [g \in Grants |-> NoGrantRow]
    /\ req = [r \in Reqs |-> Idle]
    /\ faults = 0
    /\ contained = {}
    /\ replayed = {}

-------------------------------------------------------------------------------
(* Operators shared by the handlers *)

SessionLive(s) == session[s].active /\ ~session[s].lapsed

\* The session was signed out, or a reuse of one of its tokens was dealt with.
Ended(s) == ~session[s].active \/ s \in contained

FreeGrants == {g \in Grants : grant[g].st = "absent"}

\* updateMany({where: {sid, revokedAt: null}, data: {revokedAt}})
RevokeGrantsForSession(s) ==
    grant' = [g \in Grants |->
                IF grant[g].sid = s /\ grant[g].st = "live"
                THEN [grant[g] EXCEPT !.st = "revoked"] ELSE grant[g]]

DeactivateRow(s) == session' = [session EXCEPT ![s].active = FALSE]

NewGrant(g, client, s, from, root) ==
    /\ grant[g].st = "absent"
    /\ grant' = [grant EXCEPT ![g] =
                   [st |-> "live", client |-> client, sid |-> s,
                    from |-> from, root |-> root, lapsed |-> FALSE]]

Begin(r, pc, client, s, cred, offline, late) ==
    /\ req[r].pc = "idle"
    /\ req' = [req EXCEPT ![r] =
                 [pc |-> pc, client |-> client, sid |-> s, cred |-> cred,
                  offline |-> offline, late |-> late]]

Goto(r, pc) == req' = [req EXCEPT ![r].pc = pc]

Answer(r) == req' = [req EXCEPT ![r] = Idle]

-------------------------------------------------------------------------------
(* GET /oidc/authorize *)

\* resolveSession: the cookie's session row must be active and unexpired.  The
\* consent and platform checks that follow read only.
Authorize(r, cl, s, offline) ==
    /\ SessionLive(s)
    /\ Begin(r, "issue_code", cl, s, None, offline, FALSE)
    /\ UNCHANGED <<rows, faults, contained, replayed>>

IssueCode(r) ==
    /\ req[r].pc = "issue_code"
    /\ \E c \in Codes :
         /\ code[c].st = "absent"
         /\ code' = [code EXCEPT ![c] =
                       [st |-> "unused", client |-> req[r].client,
                        sid |-> req[r].sid, offline |-> req[r].offline,
                        lapsed |-> FALSE]]
    /\ Answer(r)
    /\ UNCHANGED <<session, grant, faults, contained, replayed>>

-------------------------------------------------------------------------------
(* POST /oidc/token, grant_type=authorization_code *)

\* Fault: the code is not compared with the client that presents it.
PresentCode_AnyClient(r, c, cl) ==
    /\ \/ /\ code[c].st = "consumed"
          /\ Begin(r, "replay", cl, code[c].sid, c, FALSE, FALSE)
       \/ /\ code[c].st = "unused" /\ ~code[c].lapsed
          /\ Begin(r, "consume", cl, code[c].sid, c, code[c].offline,
                   Ended(code[c].sid))
    /\ UNCHANGED <<rows, faults, contained, replayed>>

\* redeemCode reads the row.  A consumed row is a replay whoever presents it;
\* otherwise the code must be unexpired and presented by its own client.
PresentCode(r, c, cl) ==
    /\ \/ /\ code[c].st = "consumed"
          /\ Begin(r, "replay", cl, code[c].sid, c, FALSE, FALSE)
       \/ /\ code[c].st = "unused" /\ ~code[c].lapsed
          /\ code[c].client = cl
          /\ Begin(r, "consume", cl, code[c].sid, c, code[c].offline,
                   Ended(code[c].sid))
    /\ UNCHANGED <<rows, faults, contained, replayed>>

\* Fault: the number of rows the update matched is not looked at.
Consume_CountIgnored(r) ==
    LET c == req[r].cred IN
    /\ req[r].pc = "consume"
    /\ IF code[c].st = "unused"
       THEN code' = [code EXCEPT ![c].st = "consumed", ![c].lapsed = FALSE]
       ELSE UNCHANGED code
    /\ Goto(r, "issue_tokens")
    /\ UNCHANGED <<session, grant, faults, contained, replayed>>

\* updateMany({where: {codeHash, consumedAt: null}}): one row, or the race is lost.
Consume(r) ==
    LET c == req[r].cred IN
    /\ req[r].pc = "consume"
    /\ \/ /\ code[c].st = "unused"
          /\ code' = [code EXCEPT ![c].st = "consumed", ![c].lapsed = FALSE]
          /\ Goto(r, "issue_tokens")
       \/ /\ code[c].st # "unused"
          /\ Goto(r, "replay")
          /\ UNCHANGED code
    /\ UNCHANGED <<session, grant, faults, contained, replayed>>

\* revokeGrantsForSession(record.sid), then invalid_grant.
RevokeReplayed(r) ==
    /\ req[r].pc = "replay"
    /\ RevokeGrantsForSession(req[r].sid)
    /\ replayed' = replayed \cup {req[r].cred}
    /\ Answer(r)
    /\ UNCHANGED <<session, code, faults, contained>>

\* issueTokens: the access token is signed (no row), and a refresh grant is
\* created when offline_access was granted.
IssueTokens(r) ==
    /\ req[r].pc = "issue_tokens"
    /\ IF req[r].offline
       THEN \E g \in Grants :
              NewGrant(g, req[r].client, req[r].sid, None, req[r].cred)
       ELSE UNCHANGED grant
    /\ Answer(r)
    /\ UNCHANGED <<session, code, faults, contained, replayed>>

-------------------------------------------------------------------------------
(* POST /oidc/token, grant_type=refresh_token *)

\* rotateRefreshToken reads the row: another client's token is refused before a
\* revoked one is taken for reuse.
PresentGrant(r, g, cl) ==
    /\ grant[g].st # "absent" /\ grant[g].client = cl
    /\ \/ /\ grant[g].st = "revoked"
          /\ Begin(r, "reuse", cl, grant[g].sid, g, FALSE, FALSE)
       \/ /\ grant[g].st = "live" /\ ~grant[g].lapsed
          /\ Begin(r, "check_session", cl, grant[g].sid, g, FALSE,
                   Ended(grant[g].sid))
    /\ UNCHANGED <<rows, faults, contained, replayed>>

\* Fault: the session row is not looked at.
CheckSession_Skipped(r) ==
    /\ req[r].pc = "check_session"
    /\ Goto(r, "rotate")
    /\ UNCHANGED <<rows, faults, contained, replayed>>

CheckSession(r) ==
    /\ req[r].pc = "check_session"
    /\ IF SessionLive(req[r].sid) THEN Goto(r, "rotate") ELSE Answer(r)
    /\ UNCHANGED <<rows, faults, contained, replayed>>

\* Fault: the rotation updates the row by its hash alone.
Rotate_Unconditional(r) ==
    LET g == req[r].cred IN
    /\ req[r].pc = "rotate"
    /\ grant' = [grant EXCEPT ![g].st = "revoked"]
    /\ Goto(r, "issue_next")
    /\ UNCHANGED <<session, code, faults, contained, replayed>>

\* updateMany({where: {tokenHash, revokedAt: null}}): a lost race is only refused.
Rotate(r) ==
    LET g == req[r].cred IN
    /\ req[r].pc = "rotate"
    /\ \/ /\ grant[g].st = "live"
          /\ grant' = [grant EXCEPT ![g].st = "revoked"]
          /\ Goto(r, "issue_next")
       \/ /\ grant[g].st # "live"
          /\ Answer(r)
          /\ UNCHANGED grant
    /\ UNCHANGED <<session, code, faults, contained, replayed>>

\* issueRefreshToken({..., rotatedFromId: record.id}), then the access token.
IssueNext(r) ==
    LET old == req[r].cred IN
    /\ req[r].pc = "issue_next"
    /\ \E g \in Grants :
         NewGrant(g, grant[old].client, grant[old].sid, old, grant[old].root)
    /\ Answer(r)
    /\ UNCHANGED <<session, code, faults, contained, replayed>>

\* Reuse of a rotated or revoked token: revoke the session's grants ...
RevokeReused(r) ==
    /\ req[r].pc = "reuse"
    /\ RevokeGrantsForSession(req[r].sid)
    /\ Goto(r, "kill_session")
    /\ UNCHANGED <<session, code, faults, contained, replayed>>

\* Fault: reuse revokes the grants only.
KillSession_Skipped(r) ==
    /\ req[r].pc = "kill_session"
    /\ contained' = contained \cup {req[r].sid}
    /\ Answer(r)
    /\ UNCHANGED <<session, code, grant, faults, replayed>>

\* ... and then deactivate the session itself.
KillSession(r) ==
    /\ req[r].pc = "kill_session"
    /\ DeactivateRow(req[r].sid)
    /\ contained' = contained \cup {req[r].sid}
    /\ Answer(r)
    /\ UNCHANGED <<code, grant, faults, replayed>>

-------------------------------------------------------------------------------
(* POST /oidc/revoke and GET /oidc/end_session *)

RevokeToken(g) ==
    /\ grant[g].st = "live"
    /\ grant' = [grant EXCEPT ![g].st = "revoked"]
    /\ UNCHANGED <<session, code, req, faults, contained, replayed>>

\* The cookie's token is verified without reading the row, so a session that is
\* already inactive can be ended again.
EndSession(r, s) ==
    /\ Begin(r, "end_grants", None, s, None, FALSE, FALSE)
    /\ DeactivateRow(s)
    /\ UNCHANGED <<code, grant, faults, contained, replayed>>

\* Fault: logout deactivates the session only.
EndGrants_Skipped(r) ==
    /\ req[r].pc = "end_grants"
    /\ Answer(r)
    /\ UNCHANGED <<rows, faults, contained, replayed>>

EndGrants(r) ==
    /\ req[r].pc = "end_grants"
    /\ RevokeGrantsForSession(req[r].sid)
    /\ Answer(r)
    /\ UNCHANGED <<session, code, faults, contained, replayed>>

-------------------------------------------------------------------------------
(* What happens around the handlers *)

\* A request dies between two statements: a statement throws, or the process
\* stops.  Nothing already written is undone.  The second disjunct is the bound
\* on rows: the INSERT that would need one more row fails.
Abort(r) ==
    /\ req[r].pc # "idle"
    /\ \/ /\ faults < MaxFaults
          /\ faults' = faults + 1
       \/ /\ req[r].pc = "issue_code" /\ \A c \in Codes : code[c].st # "absent"
          /\ UNCHANGED faults
       \/ /\ req[r].pc \in {"issue_tokens", "issue_next"} /\ FreeGrants = {}
          /\ UNCHANGED faults
    /\ Answer(r)
    /\ UNCHANGED <<rows, contained, replayed>>

\* Logout from the profile page, the session cap and "sign out other devices"
\* deactivate the row and leave the grants alone.
DeactivateSession(s) ==
    /\ session[s].active
    /\ DeactivateRow(s)
    /\ UNCHANGED <<code, grant, req, faults, contained, replayed>>

\* expiresAt of the session passes, and AuthService.refreshSession moves it
\* forward by an update that does not look at isActive.
LapseSession(s) ==
    /\ ~session[s].lapsed
    /\ session' = [session EXCEPT ![s].lapsed = TRUE]
    /\ UNCHANGED <<code, grant, req, faults, contained, replayed>>

ExtendSession(s) ==
    /\ session[s].lapsed
    /\ session' = [session EXCEPT ![s].lapsed = FALSE]
    /\ UNCHANGED <<code, grant, req, faults, contained, replayed>>

\* The time a code is compared with passes: expiresAt while it is unused, the
\* retention of consumed rows afterwards.
LapseCode(c) ==
    /\ code[c].st \in {"unused", "consumed"} /\ ~code[c].lapsed
    /\ code' = [code EXCEPT ![c].lapsed = TRUE]
    /\ UNCHANGED <<session, grant, req, faults, contained, replayed>>

LapseGrant(g) ==
    /\ grant[g].st = "live" /\ ~grant[g].lapsed
    /\ grant' = [grant EXCEPT ![g].lapsed = TRUE]
    /\ UNCHANGED <<session, code, req, faults, contained, replayed>>

\* deleteMany: expired unused rows and consumed rows past their retention.
PurgeExpiredCodes ==
    /\ \E c \in Codes : code[c].st \in {"unused", "consumed"} /\ code[c].lapsed
    /\ code' = [c \in Codes |->
                  IF code[c].st \in {"unused", "consumed"} /\ code[c].lapsed
                  THEN [code[c] EXCEPT !.st = "deleted"] ELSE code[c]]
    /\ UNCHANGED <<session, grant, req, faults, contained, replayed>>

-------------------------------------------------------------------------------
(* The specification *)

\* One request going on with its next statement.
Step(r) ==
    \/ IssueCode(r)
    \/ Consume(r) \/ RevokeReplayed(r) \/ IssueTokens(r)
    \/ CheckSession(r) \/ Rotate(r) \/ IssueNext(r)
    \/ RevokeReused(r) \/ KillSession(r)
    \/ EndGrants(r)

Arrive(r) ==
    \/ \E cl \in Clients, s \in Sessions, offline \in BOOLEAN :
          Authorize(r, cl, s, offline)
    \/ \E c \in Codes, cl \in Clients : PresentCode(r, c, cl)
    \/ \E g \in Grants, cl \in Clients : PresentGrant(r, g, cl)
    \/ \E s \in Sessions : EndSession(r, s)

Environment ==
    \/ \E g \in Grants : RevokeToken(g) \/ LapseGrant(g)
    \/ \E s \in Sessions : DeactivateSession(s) \/ LapseSession(s) \/ ExtendSession(s)
    \/ \E c \in Codes : LapseCode(c)
    \/ PurgeExpiredCodes

Next ==
    \/ \E r \in Reqs : Arrive(r) \/ Step(r) \/ Abort(r)
    \/ Environment

Spec == Init /\ [][Next]_vars

\* A handler that was started is executed: the event loop runs every
\* continuation and the database answers every statement.  Nobody is obliged to
\* send a request.
Fairness == \A r \in Reqs : WF_vars(Step(r))

FairSpec == Spec /\ Fairness

-------------------------------------------------------------------------------
(* Properties *)

Present(g) == grant[g].st # "absent"

Live(g) == grant[g].st = "live"

\* The request in slot r has spent a credential of c's chain and has not yet
\* created the refresh grant that replaces it.
Holding(r, c) ==
    \/ req[r].pc = "issue_tokens" /\ req[r].cred = c
    \/ req[r].pc = "issue_next" /\ grant[req[r].cred].root = c

\* However redemptions, rotations, replays, logouts and purges interleave, the
\* right to the next token of a sign-in is in one place: the unredeemed code, or
\* one request, or one live refresh grant.  Two concurrent exchanges of the same
\* code or refresh token never both succeed.
SingleBearer ==
    \A c \in Codes :
       /\ code[c].st \in {"absent", "unused"} =>
             /\ \A r \in Reqs : ~Holding(r, c)
             /\ \A g \in Grants : Live(g) => grant[g].root # c
       /\ \A r1, r2 \in Reqs : Holding(r1, c) /\ Holding(r2, c) => r1 = r2
       /\ \A g1, g2 \in Grants :
             Live(g1) /\ Live(g2) /\ grant[g1].root = c /\ grant[g2].root = c => g1 = g2
       /\ \A r \in Reqs, g \in Grants : Holding(r, c) /\ Live(g) => grant[g].root # c

\* rotated_from_id is a path, never a tree: a refresh grant is replaced by at most
\* one other and a code is exchanged for at most one, however long ago that was.
LinearRotation ==
    \A g, h \in Grants :
       /\ Present(g) /\ Present(h)
       /\ grant[g].root = grant[h].root /\ grant[g].from = grant[h].from
       => g = h

\* Every refresh grant belongs to the client and the session its code was issued
\* to, so one client can never come to hold another client's chain.
ChainBinding ==
    \A g \in Grants : Present(g) =>
       /\ grant[g].client = code[grant[g].root].client
       /\ grant[g].sid = code[grant[g].root].sid

\* A refresh that begins after its session was ended (by logout, the session cap
\* or the reuse teardown) is never answered with tokens, although the grants of
\* that session may still be live or even be created afterwards.
NoRefreshAfterSessionEnd ==
    \A r \in Reqs : req[r].pc = "issue_next" => ~req[r].late

\* A code redemption that begins after its session was ended is never answered
\* with tokens: "re-checked here against server-side state: the code, the client,
\* the redirect URI, the PKCE verifier and the session" (token.controller.ts).
NoRedemptionAfterSessionEnd ==
    \A r \in Reqs : req[r].pc = "issue_tokens" => ~req[r].late

\* "redeeming it twice revokes everything derived from it": once a replay has
\* been answered, no refresh grant of that code's chain is live.
ReplayRevokesDerived ==
    \A g \in Grants : Live(g) => grant[g].root \notin replayed

\* Every grant that is live when a logout has deactivated its session is revoked
\* in the end, although the logout takes two statements.
LogoutSweepsGrants ==
    \A g \in Grants, r \in Reqs :
       (Live(g) /\ req[r].pc = "end_grants" /\ req[r].sid = grant[g].sid)
          ~> grant[g].st = "revoked"

\* Once a rotated token has been presented again, its session is ended.
ReuseEndsSession ==
    \A r \in Reqs, s \in Sessions :
       (req[r].pc = "reuse" /\ req[r].sid = s) ~> ~session[s].active

\* The grants implement the abstract chain of AuthorityChain.
ChainStage(c) ==
    IF code[c].st = "absent" THEN "none"
    ELSE IF code[c].st = "unused" THEN "code"
    ELSE IF \E r \in Reqs : Holding(r, c) THEN "server"
    ELSE IF \E g \in Grants : Live(g) /\ grant[g].root = c THEN "grant"
    ELSE "lost"

Chain == INSTANCE AuthorityChain WITH
            stage <- [c \in Codes |-> ChainStage(c)],
            live  <- {g \in Grants : Live(g)},
            owner <- [g \in Grants |-> grant[g].root]

ImplementsChain == Chain!Spec

===============================================================================
