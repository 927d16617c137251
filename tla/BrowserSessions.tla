---------------------------- MODULE BrowserSessions ----------------------------
(***************************************************************************)
(* The first-party sessions of one user: user_sessions rows, the rotating  *)
(* refresh token whose hash a row carries, and the cookie jar of the       *)
(* browser each session was opened in.                                     *)
(*                                                                         *)
(* AuthService.issueSession, refreshSession and the revocations, and       *)
(* JwtAuthGuard, one action per database statement; a response is          *)
(* delivered by an action of its own, because responses of concurrent      *)
(* requests overtake one another.  Requests that are refused before they   *)
(* write (bad password, inactive account, missing tenant) are left out.    *)
(* The access token is not a variable: every request it is presented with  *)
(* reads the row.                                                          *)
(***************************************************************************)
EXTENDS Naturals, FiniteSets

CONSTANTS Sids,      \* rows that may be created, each with its browser
          Tokens,    \* refresh tokens that may be minted
          Reqs,      \* slots for requests in flight
          None,      \* null column, missing cookie
          Cap,       \* MAX_CONCURRENT_SESSIONS
          IdleLimit, \* IDLE_TIMEOUT_MS
          MaxClock,  \* bound: the clock stops here
          MaxFaults  \* bound: requests that may fail between two statements

ASSUME ConstAssumption ==
    /\ None \notin Sids \cup Tokens
    /\ Cap \in Nat \ {0}
    /\ IdleLimit \in Nat /\ MaxClock \in Nat /\ MaxFaults \in Nat

VARIABLES row,     \* row[s]: the user_sessions row
          jar,     \* jar[s]: refresh_token cookie of the browser of s
          req,     \* req[r]: where the handler in slot r is, and its locals
          clock,
          faults,  \* requests that failed half-way so far
          minted,  \* refresh tokens that exist
          spent,   \* history: how often a token was renewed, up to twice
          torn     \* history: sessions with overlapping or failed renewals

browser == <<jar, minted, spent, torn>>
vars == <<row, jar, req, clock, faults, minted, spent, torn>>

-------------------------------------------------------------------------------
(* Operators named X_Fault below are X with a plausible mistake in it: the   *)
(* checks put them in X's place to see that a property notices.             *)

SessionRow == [st : {"absent", "active", "revoked"},
               hash : Tokens \cup {None}, seen : 0..MaxClock, lapsed : BOOLEAN]

Pcs == {"idle", "cap", "evict", "deliver", "lookup", "renew", "refused",
        "touch", "timeout"}

ReqState == [pc : Pcs, sid : Sids \cup {None}, tok : Tokens \cup {None},
             over : SUBSET Sids, at : 0..MaxClock, late : BOOLEAN]

NoRow == [st |-> "absent", hash |-> None, seen |-> 0, lapsed |-> FALSE]

Idle == [pc |-> "idle", sid |-> None, tok |-> None, over |-> {}, at |-> 0,
         late |-> FALSE]

TypeOK ==
    /\ row \in [Sids -> SessionRow]
    /\ jar \in [Sids -> Tokens \cup {None}]
    /\ req \in [Reqs -> ReqState]
    /\ clock \in 0..MaxClock
    /\ faults \in 0..MaxFaults
    /\ minted \subseteq Tokens
    /\ spent \in [Tokens -> 0..2]
    /\ torn \subseteq Sids

Init ==
    /\ row = [s \in Sids |-> NoRow]
    /\ jar = [s \in Sids |-> None]
    /\ req = [r \in Reqs |-> Idle]
    /\ clock = 0
    /\ faults = 0
    /\ minted = {}
    /\ spent = [t \in Tokens |-> 0]
    /\ torn = {}

-------------------------------------------------------------------------------
(* Operators shared by the handlers *)

Active == {s \in Sids : row[s].st = "active"}

Usable(s) == row[s].st = "active" /\ ~row[s].lapsed

Answer(r) == req' = [req EXCEPT ![r] = Idle]

Goto(r, pc) == req' = [req EXCEPT ![r].pc = pc]

\* updateMany({where: {id in S}, data: {isActive: false}}): the refresh hash stays.
DeactivateRows(S) ==
    row' = [s \in Sids |-> IF s \in S THEN [row[s] EXCEPT !.st = "revoked"] ELSE row[s]]

-------------------------------------------------------------------------------
(* issueSession *)

\* The row is created with its refresh token ...
CreateRow(r) ==
    /\ req[r].pc = "idle"
    /\ \E s \in Sids, t \in Tokens \ minted :
         /\ row[s].st = "absent"
         /\ row' = [row EXCEPT ![s] = [st |-> "active", hash |-> t, seen |-> clock,
                                       lapsed |-> FALSE]]
         /\ minted' = minted \cup {t}
         /\ req' = [req EXCEPT ![r] = [Idle EXCEPT !.pc = "cap", !.sid = s, !.tok = t]]
    /\ UNCHANGED <<jar, clock, faults, spent, torn>>

\* Fault: one more session than the cap is kept.
OverCap_OneMore(V) ==
    /\ V \subseteq Active
    /\ Cardinality(V) = IF Cardinality(Active) > Cap + 1
                        THEN Cardinality(Active) - (Cap + 1) ELSE 0
    /\ \A v \in V, k \in Active \ V : row[v].seen <= row[k].seen

\* Rows past the Cap most recently active ones; rows seen at the same time come
\* in any order.
OverCap(V) ==
    /\ V \subseteq Active
    /\ Cardinality(V) = IF Cardinality(Active) > Cap THEN Cardinality(Active) - Cap ELSE 0
    /\ \A v \in V, k \in Active \ V : row[v].seen <= row[k].seen

\* ... then the active rows are read, newest first ...
ReadActive(r) ==
    /\ req[r].pc = "cap"
    /\ \E V \in SUBSET Sids :
         /\ OverCap(V)
         /\ req' = [req EXCEPT ![r] = [@ EXCEPT !.pc = IF V = {} THEN "deliver" ELSE "evict",
                                             !.over = V]]
    /\ UNCHANGED <<row, clock, faults, browser>>

\* ... and those past the cap are revoked.
Evict(r) ==
    /\ req[r].pc = "evict"
    /\ DeactivateRows(req[r].over)
    /\ req' = [req EXCEPT ![r] = [@ EXCEPT !.pc = "deliver", !.over = {}]]
    /\ UNCHANGED <<clock, faults, browser>>

\* Set-Cookie with the refresh token: the end of a sign-in and of a renewal.
Deliver(r) ==
    /\ req[r].pc = "deliver"
    /\ jar' = [jar EXCEPT ![req[r].sid] = req[r].tok]
    /\ Answer(r)
    /\ UNCHANGED <<row, clock, faults, minted, spent, torn>>

-------------------------------------------------------------------------------
(* POST /auth/refresh *)

InFlight(s) == {r \in Reqs : req[r].sid = s /\ req[r].pc \in
                    {"cap", "evict", "deliver", "lookup", "renew", "refused"}}

\* A tab of the browser presents the cookie of the jar.
PresentCookie(r, s) ==
    /\ req[r].pc = "idle" /\ jar[s] # None
    /\ req' = [req EXCEPT ![r] = [Idle EXCEPT !.pc = "lookup", !.sid = s,
                                  !.tok = jar[s], !.late = row[s].st = "revoked"]]
    /\ torn' = IF InFlight(s) = {} THEN torn ELSE torn \cup {s}
    /\ UNCHANGED <<row, jar, clock, faults, minted, spent>>

\* Fault: a session that was revoked with its hash left in place is found too.
LookupToken_InactiveToo(r) ==
    /\ req[r].pc = "lookup"
    /\ IF \E s \in Sids : row[s].hash = req[r].tok /\ ~row[s].lapsed
       THEN Goto(r, "renew") ELSE Goto(r, "refused")
    /\ UNCHANGED <<row, clock, faults, browser>>

\* auth_lookup_refresh_token(hash): the row with that hash, active and unexpired.
LookupToken(r) ==
    /\ req[r].pc = "lookup"
    /\ IF \E s \in Sids : row[s].hash = req[r].tok /\ Usable(s)
       THEN Goto(r, "renew") ELSE Goto(r, "refused")
    /\ UNCHANGED <<row, clock, faults, browser>>

\* Fault: the rotated hash is not written.
Renew_HashKept(r) ==
    LET s == req[r].sid IN
    /\ req[r].pc = "renew"
    /\ \E t \in Tokens \ minted :
         /\ row' = [row EXCEPT ![s] = [@ EXCEPT !.lapsed = FALSE, !.seen = clock]]
         /\ minted' = minted \cup {t}
         /\ req' = [req EXCEPT ![r] = [@ EXCEPT !.pc = "deliver", !.tok = t]]
    /\ spent' = [spent EXCEPT ![req[r].tok] = IF @ = 2 THEN 2 ELSE @ + 1]
    /\ UNCHANGED <<jar, clock, faults, torn>>

\* Fault: the row is written as a whole, as it was looked up.
Renew_WholeRow(r) ==
    LET s == req[r].sid IN
    /\ req[r].pc = "renew"
    /\ \E t \in Tokens \ minted :
         /\ row' = [row EXCEPT ![s] = [st |-> "active", hash |-> t, lapsed |-> FALSE,
                                       seen |-> clock]]
         /\ minted' = minted \cup {t}
         /\ req' = [req EXCEPT ![r] = [@ EXCEPT !.pc = "deliver", !.tok = t]]
    /\ spent' = [spent EXCEPT ![req[r].tok] = IF @ = 2 THEN 2 ELSE @ + 1]
    /\ UNCHANGED <<jar, clock, faults, torn>>

\* update({where: {id}}): new hash, sliding expiry, activity now.  The row is not
\* compared with what was looked up, and isActive is not written.
Renew(r) ==
    LET s == req[r].sid IN
    /\ req[r].pc = "renew"
    /\ \E t \in Tokens \ minted :
         /\ row' = [row EXCEPT ![s] = [@ EXCEPT !.hash = t, !.lapsed = FALSE, !.seen = clock]]
         /\ minted' = minted \cup {t}
         /\ req' = [req EXCEPT ![r] = [@ EXCEPT !.pc = "deliver", !.tok = t]]
    /\ spent' = [spent EXCEPT ![req[r].tok] = IF @ = 2 THEN 2 ELSE @ + 1]
    /\ UNCHANGED <<jar, clock, faults, torn>>

\* "A dead refresh token ends the session client-side too": the cookies are cleared.
Refuse(r) ==
    /\ req[r].pc = "refused"
    /\ jar' = [jar EXCEPT ![req[r].sid] = None]
    /\ Answer(r)
    /\ UNCHANGED <<row, clock, faults, minted, spent, torn>>

-------------------------------------------------------------------------------
(* JwtAuthGuard: a request that presents the access token of session s *)

ReadRow(r, s) ==
    /\ req[r].pc = "idle" /\ Usable(s)
    /\ req' = [req EXCEPT ![r] =
                 [Idle EXCEPT !.pc = IF clock - row[s].seen > IdleLimit
                                     THEN "timeout" ELSE "touch",
                              !.sid = s, !.at = clock]]
    /\ UNCHANGED <<row, clock, faults, browser>>

\* A request with a session that is not usable is refused and writes nothing.
RejectRow(s) ==
    /\ row[s].st # "absent" /\ ~Usable(s)
    /\ UNCHANGED vars

\* The touch is not awaited, so the request itself is over already.
Touch(r) ==
    /\ req[r].pc = "touch"
    /\ row' = [row EXCEPT ![req[r].sid].seen = req[r].at]
    /\ Answer(r)
    /\ UNCHANGED <<clock, faults, browser>>

TimeOut(r) ==
    /\ req[r].pc = "timeout"
    /\ DeactivateRows({req[r].sid})
    /\ Answer(r)
    /\ UNCHANGED <<clock, faults, browser>>

-------------------------------------------------------------------------------
(* Revocation by other requests, each one statement *)

\* Logout, a tenant switch and "log out this device" also clear the hash; the
\* first also clears the browser's cookies.
RevokeSessionById(s) ==
    /\ row[s].st = "active"
    /\ row' = [row EXCEPT ![s] = [@ EXCEPT !.st = "revoked", !.hash = None]]
    /\ jar' \in {jar, [jar EXCEPT ![s] = None]}
    /\ UNCHANGED <<req, clock, faults, minted, spent, torn>>

RevokeOtherSessions(s) ==
    /\ Usable(s) /\ Active # {s}
    /\ DeactivateRows(Active \ {s})
    /\ UNCHANGED <<req, clock, faults, browser>>

\* /oidc/end_session, refresh-token reuse and the account page.
RevokeElsewhere(s) ==
    /\ row[s].st = "active"
    /\ DeactivateRows({s})
    /\ UNCHANGED <<req, clock, faults, browser>>

-------------------------------------------------------------------------------
(* Time and failures *)

Tick ==
    /\ clock < MaxClock
    /\ clock' = clock + 1
    /\ UNCHANGED <<row, req, faults, browser>>

\* expiresAt and refreshExpiresAt are always written together.
Lapse(s) ==
    /\ row[s].st = "active" /\ ~row[s].lapsed
    /\ row' = [row EXCEPT ![s].lapsed = TRUE]
    /\ UNCHANGED <<req, clock, faults, browser>>

\* A statement throws: a renewal answers by clearing the cookies, any other
\* request with an error.  Or the response is lost with the process.  The last
\* disjunct is the bound on tokens: the renewal that would need one more is lost.
Fail(r) ==
    /\ req[r].pc # "idle"
    /\ \/ faults < MaxFaults /\ faults' = faults + 1
       \/ req[r].pc = "renew" /\ minted = Tokens /\ UNCHANGED faults
    /\ \/ req[r].pc \in {"lookup", "renew", "deliver"} /\ Goto(r, "refused")
       \/ Answer(r)
    /\ torn' = torn \cup {s \in Sids : r \in InFlight(s)}
    /\ UNCHANGED <<row, jar, clock, minted, spent>>

-------------------------------------------------------------------------------
(* The specification *)

Step(r) ==
    \/ ReadActive(r) \/ Evict(r) \/ Deliver(r)
    \/ LookupToken(r) \/ Renew(r) \/ Refuse(r)
    \/ Touch(r) \/ TimeOut(r)

Arrive(r) ==
    \/ CreateRow(r)
    \/ \E s \in Sids : PresentCookie(r, s) \/ ReadRow(r, s)

Environment ==
    \/ \E s \in Sids : \/ RevokeSessionById(s) \/ RevokeOtherSessions(s)
                       \/ RevokeElsewhere(s) \/ Lapse(s)
                       \/ RejectRow(s)
    \/ Tick

Next ==
    \/ \E r \in Reqs : Arrive(r) \/ Step(r) \/ Fail(r)
    \/ Environment

Spec == Init /\ [][Next]_vars

-------------------------------------------------------------------------------
(* Properties *)

\* "The oldest active session is revoked to make room": however sign-ins overlap
\* with each other and with requests that reorder the rows, no more than the cap
\* remain active once the sign-ins have ended without an error.
CapHolds ==
    (faults = 0 /\ \A r \in Reqs : req[r].pc \notin {"cap", "evict"})
       => Cardinality(Active) <= Cap

\* "Revoking the session kills both": a renewal sent after its session was
\* revoked, by whichever of the paths that leave the hash in place, mints nothing.
NoRenewalAfterRevocation ==
    \A r \in Reqs : req[r].late => req[r].pc \in {"lookup", "refused"}

\* A session that is revoked is never active again, although a renewal or a touch
\* of it may still write its row.
RevocationIsFinal ==
    [][\A s \in Sids : row[s].st = "revoked" => row'[s].st = "revoked"]_vars

\* Between requests, the browser of a session that is usable has the refresh token whose
\* hash is in the row, unless two renewals of it overlapped or one failed.
BrowserInStep ==
    \A s \in Sids \ torn : Usable(s) /\ InFlight(s) = {} => jar[s] = row[s].hash

\* "A replayed old token no longer matches any hash and is rejected": a refresh
\* token is renewed once.
RefreshTokenUsedOnce ==
    \A t \in Tokens : spent[t] <= 1

===============================================================================
