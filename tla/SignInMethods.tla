----------------------------- MODULE SignInMethods -----------------------------
(***************************************************************************)
(* The ways into one account without a password: passkeys and linked       *)
(* providers, how they are added, used and removed.  One action per        *)
(* statement; the sessions kept here are those signed in by a passkey.     *)
(*                                                                         *)
(* Every call starts from a ceremony handle or a recent session of its own;*)
(* that a handle works once is in Federation.  Signatures are right.  An   *)
(* authenticator reports any signature counter: a synced one always 0, a   *)
(* copied one may repeat or lag.                                           *)
(***************************************************************************)
EXTENDS Integers, FiniteSets

CONSTANTS Calls,     \* slots for calls in flight
          Keys,      \* credentials that authenticators may make
          Providers, \* providers that may be linked
          None,      \* nothing
          MaxKeys,   \* MAX_PASSKEYS
          MaxCount   \* bound: highest signature counter

VARIABLES passkey,    \* passkeys: whether k has a row, and its counter
          identity,   \* user_identities: the providers linked
          session,    \* passkeys whose sign-ins are active in user_sessions
          call,       \* call[c]: where a handler is, and its locals
          removed,    \* history: passkeys and providers that have been removed
          crossed,    \* history: a way in was removed that other ways in were counted before
          outlives    \* history: passkeys whose removal stopped half-way or met a sign-in

methodVars == <<passkey, identity, session, call, removed, crossed, outlives>>

-------------------------------------------------------------------------------
NoRow == [on |-> FALSE, count |-> 0]

Idle == [pc |-> "idle", what |-> None, old |-> 0, count |-> 0, ways |-> {}]

Registered == {k \in Keys : passkey[k].on}

Ways == Registered \cup identity

TypeOK ==
    /\ passkey \in [Keys -> [on : BOOLEAN, count : 0..MaxCount]]
    /\ identity \subseteq Providers /\ session \subseteq Keys
    /\ call \in [Calls -> [pc : {"idle", "create", "accept", "session", "delete", "signout", "unlink"},
                           what : Keys \cup Providers \cup {None},
                           old : 0..MaxCount, count : 0..MaxCount,
                           ways : SUBSET (Keys \cup Providers)]]
    /\ removed \subseteq Keys \cup Providers /\ outlives \subseteq Keys
    /\ crossed \in BOOLEAN

\* The account has no password: it was registered through a provider, or at a
\* first sign-in through its tenant's own.
Init ==
    /\ passkey = [k \in Keys |-> NoRow] /\ session = {}
    /\ \E p \in Providers : identity \in {{}, {p}}
    /\ call = [c \in Calls |-> Idle]
    /\ removed = {} /\ crossed = FALSE /\ outlives = {}

Enter(c, pc, x) ==
    /\ call[c].pc = "idle"
    /\ call' = [call EXCEPT ![c] = [Idle EXCEPT !.pc = pc, !.what = x,
                                               !.ways = IF pc = "create" THEN {} ELSE Ways]]

Answer(c) == call' = [call EXCEPT ![c] = Idle]

-------------------------------------------------------------------------------
(* Registration of a passkey *)

\* registrationOptions: the cap is checked here and nowhere else.
RegistrationOptions(c, k) ==
    /\ k \notin Registered \cup removed /\ Cardinality(Registered) < MaxKeys
    /\ Enter(c, "create", k)
    /\ UNCHANGED <<passkey, identity, session, removed, crossed, outlives>>

\* verifyRegistration: a credential that has been registered before is refused.
VerifyRegistration(c) ==
    LET k == call[c].what
    IN  /\ call[c].pc = "create"
        /\ IF k \in Registered \cup removed THEN UNCHANGED passkey
           ELSE \E n \in 0..MaxCount : passkey' = [passkey EXCEPT ![k] = [on |-> TRUE, count |-> n]]
        /\ Answer(c)
        /\ UNCHANGED <<identity, session, removed, crossed, outlives>>

\* handleCallback of the journey "link" (Federation)
LinkProvider(p) ==
    /\ p \notin identity
    /\ identity' = identity \cup {p}
    /\ UNCHANGED <<passkey, session, call, removed, crossed, outlives>>

-------------------------------------------------------------------------------
(* Sign-in by passkey *)

\* The row is looked up and the counter of the assertion compared with it: it
\* must be higher, unless both are 0.
Assert(c, k, n) ==
    /\ k \in Registered
    /\ n > passkey[k].count \/ (n = 0 /\ passkey[k].count = 0)
    /\ call[c].pc = "idle"
    /\ call' = [call EXCEPT ![c] = [Idle EXCEPT !.pc = "accept", !.what = k, !.count = n,
                                               !.old = passkey[k].count]]
    /\ UNCHANGED <<passkey, identity, session, removed, crossed, outlives>>

\* Fault: the update is by id.
AcceptAssertion_ById(c) ==
    LET k == call[c].what
    IN  /\ call[c].pc = "accept"
        /\ IF passkey[k].on
           THEN /\ passkey' = [passkey EXCEPT ![k].count = call[c].count]
                /\ call' = [call EXCEPT ![c].pc = "session"]
           ELSE Answer(c) /\ UNCHANGED passkey
        /\ UNCHANGED <<identity, session, removed, crossed, outlives>>

\* The update is conditional on the counter that was read.
AcceptAssertion(c) ==
    LET k == call[c].what
    IN  /\ call[c].pc = "accept"
        /\ IF passkey[k].on /\ passkey[k].count = call[c].old
           THEN /\ passkey' = [passkey EXCEPT ![k].count = call[c].count]
                /\ call' = [call EXCEPT ![c].pc = "session"]
           ELSE Answer(c) /\ UNCHANGED passkey
        /\ UNCHANGED <<identity, session, removed, crossed, outlives>>

IssueSession(c) ==
    /\ call[c].pc = "session"
    /\ session' = session \cup {call[c].what}
    /\ Answer(c)
    /\ UNCHANGED <<passkey, identity, removed, crossed, outlives>>

-------------------------------------------------------------------------------
(* Removal *)

\* Fault: the last passkey may go.
CountMethods_Last(c, k) ==
    /\ identity # {} \/ Cardinality(Registered) >= 1
    /\ Enter(c, "delete", k)
    /\ UNCHANGED <<passkey, identity, session, removed, crossed, outlives>>

\* deletePasskey, the three counts
CountMethods(c, k) ==
    /\ identity # {} \/ Cardinality(Registered) > 1
    /\ Enter(c, "delete", k)
    /\ UNCHANGED <<passkey, identity, session, removed, crossed, outlives>>

\* deleteMany; a passkey that is gone is an error.
DeletePasskey(c) ==
    LET k == call[c].what
    IN  /\ call[c].pc = "delete"
        /\ IF passkey[k].on
           THEN /\ passkey' = [passkey EXCEPT ![k] = NoRow]
                /\ removed' = removed \cup {k}
                /\ crossed' = (crossed \/ call[c].ways # Ways)
                /\ call' = [call EXCEPT ![c].pc = "signout"]
           ELSE Answer(c) /\ UNCHANGED <<passkey, removed, crossed>>
        /\ UNCHANGED <<identity, session, outlives>>

\* Every session but the caller's is ended; a sign-in that has been accepted
\* and has no row yet is not seen.
EndOtherSessions(c) ==
    /\ call[c].pc = "signout"
    /\ session' = {}
    /\ outlives' = outlives \cup {call[d].what : d \in {d \in Calls : call[d].pc = "session"}}
    /\ Answer(c)
    /\ UNCHANGED <<passkey, identity, removed, crossed>>

\* unlinkProvider: passkeys do not count as another method here.
CountIdentities(c, p) ==
    /\ p \in identity /\ Cardinality(identity) > 1
    /\ Enter(c, "unlink", p)
    /\ UNCHANGED <<passkey, identity, session, removed, crossed, outlives>>

UnlinkProvider(c) ==
    /\ call[c].pc = "unlink"
    /\ identity' = identity \ {call[c].what}
    /\ removed' = removed \cup {call[c].what}
    /\ crossed' = (crossed \/ call[c].ways # Ways)
    /\ Answer(c)
    /\ UNCHANGED <<passkey, session, outlives>>

Abort(c) ==
    /\ call[c].pc # "idle"
    /\ outlives' = outlives \cup IF call[c].pc = "signout" THEN {call[c].what} ELSE {}
    /\ Answer(c)
    /\ UNCHANGED <<passkey, identity, session, removed, crossed>>

Next ==
    \/ \E c \in Calls :
         \/ \E k \in Keys : \/ RegistrationOptions(c, k) \/ CountMethods(c, k)
                            \/ \E n \in 0..MaxCount : Assert(c, k, n)
         \/ VerifyRegistration(c) \/ AcceptAssertion(c) \/ IssueSession(c)
         \/ DeletePasskey(c) \/ EndOtherSessions(c)
         \/ \E p \in Providers : CountIdentities(c, p)
         \/ UnlinkProvider(c) \/ Abort(c)
    \/ \E p \in Providers : LinkProvider(p)

Spec == Init /\ [][Next]_methodVars

-------------------------------------------------------------------------------
(* Properties *)

\* The signature counter of a passkey never goes back, however assertions
\* overlap, so a copied authenticator that lags is noticed (verifyAuthentication).
CounterNeverBack ==
    [][\A k \in Keys : passkey[k].on /\ passkey'[k].on => passkey'[k].count >= passkey[k].count]_methodVars

\* A removal takes what it removes and no more.  An account without a password
\* keeps a way in, unless the ways in changed between the count and the delete; and
\* the sessions a removed passkey signed in end with it, except one whose sign-in
\* was under way and those of a removal that stopped half-way (which a second try
\* does not reach: the passkey is gone).
RemovalInStep ==
    /\ removed # {} /\ ~crossed => Ways # {}
    /\ \A k \in session \cap removed :
          k \in outlives \/ \E c \in Calls : call[c].pc = "signout"

===============================================================================
