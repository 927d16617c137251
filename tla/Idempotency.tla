------------------------------ MODULE Idempotency ------------------------------
(***************************************************************************)
(* One Idempotency-Key of one principal: the requests that carry it and    *)
(* the record Redis keeps for it (IdempotencyInterceptor with              *)
(* RedisIdempotencyStore).  One action per command; a request whose body   *)
(* differs, and so its hash, is turned away and does nothing else.         *)
(***************************************************************************)
EXTENDS Integers, FiniteSets

CONSTANT Calls \* requests with the key and the same body

VARIABLES record,    \* idem:<key>
          call,      \* where each request is
          done,      \* how often the handler has taken effect
          unclaimed, \* history: a request ran on a GET that found nothing
          forgotten  \* history: an effect is not on record, or the record expired

idempotencyVars == <<record, call, done, unclaimed, forgotten>>

-------------------------------------------------------------------------------
TypeOK ==
    /\ record \in {"none", "in-flight", "completed"}
    /\ call \in [Calls -> {"idle", "get", "run", "complete", "release",
                           "answered", "replayed", "refused", "failed"}]
    /\ done \in 0..Cardinality(Calls)
    /\ unclaimed \in BOOLEAN /\ forgotten \in BOOLEAN

Init ==
    /\ record = "none"
    /\ call = [c \in Calls |-> "idle"]
    /\ done = 0 /\ unclaimed = FALSE /\ forgotten = FALSE

To(c, at) == call' = [call EXCEPT ![c] = at]

-------------------------------------------------------------------------------
\* Fault: SET without NX.
Claim_Overwrites(c) ==
    /\ call[c] = "idle" /\ To(c, "run")
    /\ record' = "in-flight"
    /\ UNCHANGED <<done, unclaimed, forgotten>>

\* SET NX
Claim(c) ==
    /\ call[c] = "idle"
    /\ IF record = "none" THEN record' = "in-flight" /\ To(c, "run")
       ELSE To(c, "get") /\ UNCHANGED record
    /\ UNCHANGED <<done, unclaimed, forgotten>>

\* GET: no record any more counts as a claim, though none was made.
ReadExisting(c) ==
    /\ call[c] = "get"
    /\ To(c, CASE record = "none" -> "run" [] record = "in-flight" -> "refused"
               [] record = "completed" -> "replayed")
    /\ unclaimed' = (unclaimed \/ record = "none")
    /\ UNCHANGED <<record, done, forgotten>>

Run(c) ==
    /\ call[c] = "run"
    /\ \/ To(c, "complete") /\ done' = done + 1
       \/ To(c, "release") /\ UNCHANGED done
    /\ UNCHANGED <<record, unclaimed, forgotten>>

\* The response is stored.  If that fails the request fails, and releases its claim
\* although the handler has taken effect.
Complete(c) ==
    /\ call[c] = "complete"
    /\ \/ record' = "completed" /\ To(c, "answered") /\ UNCHANGED forgotten
       \/ To(c, "release") /\ forgotten' = TRUE /\ UNCHANGED record
    /\ UNCHANGED <<done, unclaimed>>

\* DEL, whosever the record is; its failure is ignored.
Release(c) ==
    /\ call[c] = "release" /\ To(c, "failed")
    /\ record' \in {"none", record}
    /\ UNCHANGED <<done, unclaimed, forgotten>>

\* The process dies in mid-request: the claim stays until it expires.
Crash(c) ==
    /\ call[c] \in {"get", "run", "complete", "release"}
    /\ To(c, "failed")
    /\ UNCHANGED <<record, done, unclaimed, forgotten>>

\* IDEMPOTENCY_TTL_SECONDS
Expire ==
    /\ record # "none" /\ record' = "none"
    /\ forgotten' = TRUE
    /\ UNCHANGED <<call, done, unclaimed>>

-------------------------------------------------------------------------------
Next ==
    \/ \E c \in Calls : \/ Claim(c) \/ ReadExisting(c) \/ Run(c)
                        \/ Complete(c) \/ Release(c) \/ Crash(c)
    \/ Expire

Spec == Init /\ [][Next]_idempotencyVars

-------------------------------------------------------------------------------
(* Properties *)

\* However retries overlap with failures and crashes, a request takes effect twice
\* only after an answer that could not be stored, an expiry, or a claim that was
\* released between a SET NX and its GET.
OneEffect == done > 1 => unclaimed \/ forgotten

===============================================================================
