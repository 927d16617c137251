----------------------------- MODULE SecondFactor -----------------------------
(***************************************************************************)
(* TOTP and recovery codes of one user: enrolment, confirmation, disabling *)
(* and the second step of a sign-in.  A handler reads the users row, spends*)
(* time on hashes, and writes columns of it back: one action per           *)
(* statement.                                                              *)
(*                                                                         *)
(* The challenge token of the first step is taken as valid.  A TOTP code   *)
(* is named by the secret it is computed from; wrong codes write nothing   *)
(* but login history and are left out.  Push approval is in PushApproval.  *)
(***************************************************************************)
EXTENDS Integers, FiniteSets

CONSTANTS Calls,     \* slots for calls in flight
          Secrets,   \* TOTP secrets that may be generated
          Batches,   \* sets of recovery codes that may be generated
          PerBatch,  \* how many codes a batch has
          None       \* no secret

VARIABLES mfa,    \* users: mfaSecret, mfaEnabled, mfaPending, mfaRecoveryCodes
          call,   \* call[c]: where a handler is, the row it read, its code
          made,   \* secrets and batches generated so far
          spent,  \* history: recovery codes exchanged for a session
          stale   \* history: a write was computed from a row that had changed

factorVars == <<mfa, call, made, spent, stale>>

-------------------------------------------------------------------------------
RecoveryCodes == Batches \X (1..PerBatch)

Off == [secret |-> None, enabled |-> FALSE, pending |-> FALSE, codes |-> {}]

Row == [secret : Secrets \cup {None}, enabled : BOOLEAN, pending : BOOLEAN,
        codes : SUBSET RecoveryCodes]

Idle == [pc |-> "idle", row |-> Off, code |-> None]

TypeOK ==
    /\ mfa \in Row
    /\ call \in [Calls -> [pc : {"idle", "enable", "disable", "consume"}, row : Row,
                           code : RecoveryCodes \cup {None}]]
    /\ made \subseteq Secrets \cup Batches
    /\ spent \subseteq RecoveryCodes
    /\ stale \in BOOLEAN

Init ==
    /\ mfa = Off
    /\ call = [c \in Calls |-> Idle]
    /\ made = {} /\ spent = {} /\ stale = FALSE

Enter(c, pc, k) == call' = [call EXCEPT ![c] = [pc |-> pc, row |-> mfa, code |-> k]]

Answer(c) == call' = [call EXCEPT ![c] = Idle]

NoteStale(c) == stale' = (stale \/ call[c].row # mfa)

-------------------------------------------------------------------------------
(* Enrolment *)

\* The new secret replaces the old one at once, mfaEnabled or not.
GenerateMfaSecret ==
    /\ \E s \in Secrets \ made : /\ mfa' = [mfa EXCEPT !.secret = s, !.pending = TRUE]
                                 /\ made' = made \cup {s}
    /\ UNCHANGED <<call, spent, stale>>

\* verifyMfaAndEnable: a code of the stored secret has been shown.  Enabling
\* then generates and hashes recovery codes.
ProveSecret(c, next) ==
    /\ call[c].pc = "idle" /\ mfa.secret # None
    /\ Enter(c, next, None)
    /\ UNCHANGED <<mfa, made, spent, stale>>

EnableMfa(c) ==
    /\ call[c].pc = "enable"
    /\ \E b \in Batches \ made :
         /\ mfa' = [mfa EXCEPT !.enabled = TRUE, !.pending = FALSE, !.codes = {b} \X (1..PerBatch)]
         /\ made' = made \cup {b}
    /\ NoteStale(c) /\ Answer(c)
    /\ UNCHANGED spent

DisableMfa(c) ==
    /\ call[c].pc = "disable"
    /\ mfa' = Off
    /\ NoteStale(c) /\ Answer(c)
    /\ UNCHANGED <<made, spent>>

-------------------------------------------------------------------------------
(* verifyMfaLogin *)

\* A TOTP code of the stored secret issues a session and writes nothing here.
\* Otherwise the code is compared with the recovery codes of the row.
MatchRecoveryCode(c) ==
    /\ call[c].pc = "idle" /\ mfa.enabled /\ mfa.secret # None
    /\ \E k \in mfa.codes : Enter(c, "consume", k)
    /\ UNCHANGED <<mfa, made, spent, stale>>

\* Fault: the list is written back with the used code in it.
ConsumeRecoveryCode_Kept(c) ==
    /\ call[c].pc = "consume"
    /\ mfa' = [mfa EXCEPT !.codes = call[c].row.codes]
    /\ spent' = spent \cup {call[c].code}
    /\ NoteStale(c) /\ Answer(c)
    /\ UNCHANGED made

\* The list that was read is written back without the used code; a session
\* is issued.
ConsumeRecoveryCode(c) ==
    /\ call[c].pc = "consume"
    /\ mfa' = [mfa EXCEPT !.codes = call[c].row.codes \ {call[c].code}]
    /\ spent' = spent \cup {call[c].code}
    /\ NoteStale(c) /\ Answer(c)
    /\ UNCHANGED made

Abort(c) ==
    /\ call[c].pc # "idle"
    /\ Answer(c)
    /\ UNCHANGED <<mfa, made, spent, stale>>

Next ==
    \/ GenerateMfaSecret
    \/ \E c \in Calls : \/ \E next \in {"enable", "disable"} : ProveSecret(c, next)
                        \/ EnableMfa(c) \/ DisableMfa(c)
                        \/ MatchRecoveryCode(c) \/ ConsumeRecoveryCode(c) \/ Abort(c)

Spec == Init /\ [][Next]_factorVars

-------------------------------------------------------------------------------
(* Properties *)

\* Unless two of its handlers overlapped, the row keeps its parts in step: no
\* code that was exchanged for a session is listed, there is only one batch,
\* and a second factor that is required can be given.
FactorInStep ==
    ~stale => /\ mfa.codes \cap spent = {}
              /\ \A k, l \in mfa.codes : k[1] = l[1]
              /\ mfa.enabled => mfa.secret # None
              /\ ~mfa.enabled => mfa.codes = {}

===============================================================================
