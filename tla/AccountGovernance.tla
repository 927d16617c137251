--------------------------- MODULE AccountGovernance ---------------------------
(***************************************************************************)
(* What a person can do to their own membership of one organisation:       *)
(* leave it, ask for deletion and change their mind, and keep recovery     *)
(* addresses; with the sign-ins that go on meanwhile.  One action per      *)
(* statement (what one Promise.all reads is read at once).                 *)
(*                                                                         *)
(* A caller has a recent session, in this organisation or, to leave or to  *)
(* switch, in another one with the same verified email.  The job that      *)
(* erases an account, and the console that appoints owners, are other      *)
(* services.  A recovery address is a number: only how many is checked.    *)
(***************************************************************************)
EXTENDS Integers, FiniteSets

CONSTANTS Calls,       \* slots for calls in flight
          Members,     \* accounts of the organisation
          None,        \* nobody
          MaxContacts  \* MAX_CONTACTS

VARIABLES active,   \* users with status ACTIVE
          owners,   \* users with a user_roles row of an owner role
          session,  \* users with an active session
          requests, \* data_erasure_requests: how many are PENDING
          contacts, \* account_contacts: how many an account has
          call,     \* call[c]: where a handler is, and whose
          excused   \* history: accounts whose leaving stopped half-way or met a sign-in

governanceVars == <<active, owners, session, requests, contacts, call, excused>>

-------------------------------------------------------------------------------
Idle == [pc |-> "idle", who |-> None]

\* Limits are read before the insert: calls in flight pass them together.
Overshoot == Cardinality(Calls) - 1

TypeOK ==
    /\ active \subseteq Members /\ owners \subseteq Members /\ session \subseteq Members
    /\ requests \in [Members -> 0..(1 + Overshoot)]
    /\ contacts \in [Members -> 0..(MaxContacts + Overshoot)]
    /\ call \in [Calls -> [pc : {"idle", "leave", "signout", "session", "request", "contact"},
                           who : Members \cup {None}]]
    /\ excused \subseteq Members

\* The registrant is SUPER_ADMIN; others have been invited or appointed.
Init ==
    /\ active = Members
    /\ owners \in SUBSET Members /\ owners # {}
    /\ session = {}
    /\ requests = [u \in Members |-> 0]
    /\ contacts = [u \in Members |-> 0]
    /\ call = [c \in Calls |-> Idle]
    /\ excused = {}

Enter(c, pc, u) == call[c].pc = "idle" /\ call' = [call EXCEPT ![c] = [pc |-> pc, who |-> u]]

Answer(c) == call' = [call EXCEPT ![c] = Idle]

LastOwner(u) == u \in owners /\ Cardinality(owners) <= 1

-------------------------------------------------------------------------------
(* Sign-in, and switchOrganization or switchTenant into this organisation *)

CheckStatus(c, u) ==
    /\ u \in active
    /\ Enter(c, "session", u)
    /\ UNCHANGED <<active, owners, session, requests, contacts, excused>>

IssueSession(c) ==
    /\ call[c].pc = "session"
    /\ session' = session \cup {call[c].who}
    /\ Answer(c)
    /\ UNCHANGED <<active, owners, requests, contacts, excused>>

\* The session ends: sign-out, expiry.
EndSession(u) ==
    /\ u \in session
    /\ session' = session \ {u}
    /\ UNCHANGED <<active, owners, requests, contacts, call, excused>>

-------------------------------------------------------------------------------
(* leaveOrganization *)

\* Membership and owners are read.  An owner is whoever has the role, active or
\* not.
CheckLeave(c, u) ==
    /\ u \in active /\ ~LastOwner(u)
    /\ Enter(c, "leave", u)
    /\ UNCHANGED <<active, owners, session, requests, contacts, excused>>

\* Fault: the sessions are ended before the status is changed.
Leave_SignsOutFirst(c) ==
    LET u == call[c].who
    IN  /\ call[c].pc \in {"leave", "signout"}
        /\ IF u \notin active THEN Answer(c) /\ UNCHANGED <<active, session>>
           ELSE IF call[c].pc = "leave"
           THEN session' = session \ {u} /\ call' = [call EXCEPT ![c].pc = "signout"] /\ UNCHANGED active
           ELSE active' = active \ {u} /\ Answer(c) /\ UNCHANGED session
        /\ UNCHANGED <<owners, requests, contacts, excused>>

\* The update is conditional on the status.
Leave(c) ==
    LET u == call[c].who
    IN  /\ call[c].pc = "leave"
        /\ IF u \in active
           THEN active' = active \ {u} /\ call' = [call EXCEPT ![c].pc = "signout"]
           ELSE Answer(c) /\ UNCHANGED active
        /\ UNCHANGED <<owners, session, requests, contacts, excused>>

SignOut(c) ==
    LET u == call[c].who
    IN  /\ call[c].pc = "signout"
        /\ session' = session \ {u}
        /\ excused' = excused \cup {call[d].who : d \in {d \in Calls : call[d] = [pc |-> "session", who |-> u]}}
        /\ Answer(c)
        /\ UNCHANGED <<active, owners, requests, contacts>>

\* The console of the tenant appoints an owner, or reinstates an account.
Appoint(u) ==
    /\ u \notin owners \cap active
    /\ owners' = owners \cup {u} /\ active' = active \cup {u}
    /\ UNCHANGED <<session, requests, contacts, call, excused>>

-------------------------------------------------------------------------------
(* requestAccountDeletion, cancelAccountDeletion *)

CheckRequest(c, u) ==
    /\ u \in session /\ requests[u] = 0 /\ ~LastOwner(u)
    /\ Enter(c, "request", u)
    /\ UNCHANGED <<active, owners, session, requests, contacts, excused>>

CreateRequest(c) ==
    LET u == call[c].who
    IN  /\ call[c].pc = "request"
        /\ requests' = [requests EXCEPT ![u] = @ + 1]
        /\ Answer(c)
        /\ UNCHANGED <<active, owners, session, contacts, excused>>

\* One request, if it is still PENDING.
CancelRequest(u) ==
    /\ u \in session /\ requests[u] > 0
    /\ requests' = [requests EXCEPT ![u] = @ - 1]
    /\ UNCHANGED <<active, owners, session, contacts, call, excused>>

-------------------------------------------------------------------------------
(* AccountContactService *)

CountContacts(c, u) ==
    /\ u \in session /\ contacts[u] < MaxContacts
    /\ Enter(c, "contact", u)
    /\ UNCHANGED <<active, owners, session, requests, contacts, excused>>

AddContact(c) ==
    /\ call[c].pc = "contact"
    /\ contacts' = [contacts EXCEPT ![call[c].who] = @ + 1]
    /\ Answer(c)
    /\ UNCHANGED <<active, owners, session, requests, excused>>

RemoveContact(u) ==
    /\ u \in session /\ contacts[u] > 0
    /\ contacts' = [contacts EXCEPT ![u] = @ - 1]
    /\ UNCHANGED <<active, owners, session, requests, call, excused>>

-------------------------------------------------------------------------------
Abort(c) ==
    /\ call[c].pc # "idle"
    /\ excused' = excused \cup IF call[c].pc = "signout" THEN {call[c].who} ELSE {}
    /\ Answer(c)
    /\ UNCHANGED <<active, owners, session, requests, contacts>>

Next ==
    \/ \E c \in Calls :
         \/ \E u \in Members : \/ CheckStatus(c, u) \/ CheckLeave(c, u)
                               \/ CheckRequest(c, u) \/ CountContacts(c, u)
         \/ IssueSession(c) \/ Leave(c) \/ SignOut(c)
         \/ CreateRequest(c) \/ AddContact(c) \/ Abort(c)
    \/ \E u \in Members : EndSession(u) \/ Appoint(u) \/ CancelRequest(u) \/ RemoveContact(u)

Spec == Init /\ [][Next]_governanceVars

-------------------------------------------------------------------------------
(* Properties *)

\* Whoever has left the organisation is signed out of it, except by a sign-in
\* that was under way, or when leaving stopped half-way.
LeftIsSignedOut ==
    \A u \in session \ active :
        u \in excused \/ \E c \in Calls : call[c] = [pc |-> "signout", who |-> u]

===============================================================================
