----------------------------- MODULE PushApproval -----------------------------
(***************************************************************************)
(* "Approve this sign-in?": one row of mfa_push_challenges per sign-in     *)
(* that reached the second step, the devices that may answer it, and the   *)
(* login page that polls it.  One action per statement.                    *)
(*                                                                         *)
(* The challenge token binds every call to the user of the challenge, so   *)
(* all devices here are that user's.  Delivery of the notification is left *)
(* out: an endpoint that answers 404 or 410 is removed, which is Remove.   *)
(***************************************************************************)
EXTENDS Integers, FiniteSets

CONSTANTS Calls,    \* slots for calls in flight
          Devices,  \* devices of the user
          None      \* no verdict

VARIABLES devices,   \* push_subscriptions
          status,    \* status of the challenge; None before it is created
          expired,   \* expires_at has passed
          call,      \* call[c]: where a handler is, the status it read, the one it will write
          verdicts,  \* history: verdicts whose device was told they were taken
          signedIn,  \* history: a poll issued a session
          crossed    \* history: a status was written over another than the one read

pushVars == <<devices, status, expired, call, verdicts, signedIn, crossed>>

-------------------------------------------------------------------------------
Decided == {"APPROVED", "DENIED"}

Statuses == Decided \cup {"PENDING", "EXPIRED", None}

Idle == [pc |-> "idle", saw |-> None, write |-> None]

Goto(c, pc, write) == call' = [call EXCEPT ![c] = [pc |-> pc, saw |-> status, write |-> write]]

TypeOK ==
    /\ devices \subseteq Devices
    /\ status \in Statuses
    /\ expired \in BOOLEAN
    /\ call \in [Calls -> [pc : {"idle", "respond", "expire", "issue"},
                           saw : Statuses, write : Decided \cup {"EXPIRED", None}]]
    /\ verdicts \subseteq Decided
    /\ signedIn \in BOOLEAN /\ crossed \in BOOLEAN

Init ==
    /\ devices = {} /\ status = None /\ expired = FALSE
    /\ call = [c \in Calls |-> Idle]
    /\ verdicts = {} /\ signedIn = FALSE /\ crossed = FALSE

Answer(c) == call' = [call EXCEPT ![c] = Idle]

\* subscribeToPush
Subscribe(d) ==
    /\ d \notin devices /\ devices' = devices \cup {d}
    /\ UNCHANGED <<status, expired, call, verdicts, signedIn, crossed>>

\* unsubscribeFromPush, removePushDeviceById, or an endpoint that is gone
Remove(d) ==
    /\ d \in devices /\ devices' = devices \ {d}
    /\ UNCHANGED <<status, expired, call, verdicts, signedIn, crossed>>

\* sendMfaPushChallenge, with at least one device registered
SendMfaPushChallenge ==
    /\ status = None /\ devices # {}
    /\ status' = "PENDING"
    /\ UNCHANGED <<devices, expired, call, verdicts, signedIn, crossed>>

Expire ==
    /\ status # None /\ ~expired /\ expired' = TRUE
    /\ UNCHANGED <<devices, status, call, verdicts, signedIn, crossed>>

\* Fault: a challenge that has been answered can be answered again.
ReadForRespond_AnyStatus(c, verdict) ==
    /\ call[c].pc = "idle" /\ status # None /\ ~expired
    /\ Goto(c, "respond", verdict)
    /\ UNCHANGED <<devices, status, expired, verdicts, signedIn, crossed>>

\* respondToMfaPushChallenge, from a device with a session of its own
ReadForRespond(c, verdict) ==
    /\ call[c].pc = "idle" /\ status = "PENDING" /\ ~expired
    /\ Goto(c, "respond", verdict)
    /\ UNCHANGED <<devices, status, expired, verdicts, signedIn, crossed>>

\* The update is by id: it does not look at the status again.
WriteStatus(c) ==
    /\ call[c].pc \in {"respond", "expire"}
    /\ status' = call[c].write
    /\ crossed' = (crossed \/ status # call[c].saw)
    /\ verdicts' = verdicts \cup ({call[c].write} \cap Decided)
    /\ Answer(c)
    /\ UNCHANGED <<devices, expired, signedIn>>

\* getMfaPushStatus.  A poll of a denied or expired challenge is answered so.
Poll(c) ==
    /\ call[c].pc = "idle"
    /\ \/ /\ status = "PENDING" /\ expired
          /\ Goto(c, "expire", "EXPIRED")
       \/ /\ status = "APPROVED"
          /\ Goto(c, "issue", None)
    /\ UNCHANGED <<devices, status, expired, verdicts, signedIn, crossed>>

\* issueSession.  The challenge stays APPROVED, for the next poll too.
IssueSession(c) ==
    /\ call[c].pc = "issue"
    /\ signedIn' = TRUE
    /\ Answer(c)
    /\ UNCHANGED <<devices, status, expired, verdicts, crossed>>

Abort(c) ==
    /\ call[c].pc # "idle" /\ Answer(c)
    /\ UNCHANGED <<devices, status, expired, verdicts, signedIn, crossed>>

Next ==
    \/ \E d \in Devices : Subscribe(d) \/ Remove(d)
    \/ SendMfaPushChallenge \/ Expire
    \/ \E c \in Calls : \/ \E verdict \in Decided : ReadForRespond(c, verdict)
                        \/ WriteStatus(c) \/ Poll(c) \/ IssueSession(c) \/ Abort(c)

Spec == Init /\ [][Next]_pushVars

-------------------------------------------------------------------------------
(* Properties *)

\* A device that was told its verdict was taken is right, and nobody is signed
\* in by a challenge nobody approved.  Unless two handlers crossed between read
\* and update, there is one verdict and it is the status of the challenge.
OneVerdict ==
    /\ signedIn => "APPROVED" \in verdicts
    /\ ~crossed => /\ Cardinality(verdicts) <= 1
                   /\ verdicts # {} => status \in verdicts

===============================================================================
