---------------------------- MODULE PasswordLockout ----------------------------
(***************************************************************************)
(* The two bounds on password guessing: the failure counter and lock in    *)
(* the users row, and the counter of the origin in login_attempt_counters, *)
(* with the sign-ins of one account from one origin on all replicas, one   *)
(* action per statement.                                                   *)
(*                                                                         *)
(* A password is right or wrong.  Refusals that write nothing (unknown     *)
(* tenant or user, CAPTCHA, account not ACTIVE) end the sign-in at Refuse; *)
(* the login history is left out.  What follows a right password (second   *)
(* factor, session) is in SecondFactor and BrowserSessions.  Times count   *)
(* from 1; 0 stands for null.                                              *)
(***************************************************************************)
EXTENDS Integers

CONSTANTS Slots,    \* sign-ins in flight
          Max,      \* MAX_FAILED_ATTEMPTS
          Lock,     \* LOCK_DURATION_MS
          Free,     \* FREE_ATTEMPTS
          Base,     \* BASE_LOCKOUT_MS
          Cap,      \* MAX_LOCKOUT_MS
          Quiet,    \* COUNTER_TTL_MS
          MaxTries, \* bound: sign-ins that read the user row
          MaxClock  \* bound: the clock stops here

Assumptions ==
    /\ {Max, Lock, Free, Base, Cap, Quiet, MaxTries, MaxClock} \subseteq Nat \ {0}
    /\ Base <= Cap

VARIABLES user,    \* users: failedLoginAttempts and lockedUntil
          origin,  \* login_attempt_counters: attempts, lockedUntil, lastSeenAt
          try,     \* try[s]: where the sign-in in slot s is, and its locals
          tries,   \* sign-ins that read the user row so far
          now,
          wrong,   \* history: wrong passwords registered since user was last reset
          lost     \* history: since then, one was registered with an outdated count

lockoutVars == <<user, origin, try, tries, now, wrong, lost>>

-------------------------------------------------------------------------------
Unlocked == [fails |-> 0, until |-> 0]

Forgotten == [n |-> 0, until |-> 0, seen |-> 0]

Idle == [pc |-> "idle", fails |-> 0, until |-> 0, n |-> 0]

TypeOK ==
    /\ user \in [fails : 0..(Max - 1), until : 0..(MaxClock + Lock)]
    /\ origin \in [n : 0..MaxTries, until : Int, seen : 0..MaxClock]
    /\ try \in [Slots -> [pc : {"idle", "read", "compare", "fail", "count", "record", "clear"},
                          fails : 0..(Max - 1), until : 0..(MaxClock + Lock),
                          n : 0..MaxTries]]
    /\ tries \in 0..MaxTries /\ now \in 1..MaxClock
    /\ wrong \in 0..MaxTries /\ lost \in BOOLEAN

Init ==
    /\ user = Unlocked /\ origin = Forgotten
    /\ try = [s \in Slots |-> Idle]
    /\ tries = 0 /\ now = 1
    /\ wrong = 0 /\ lost = FALSE

Goto(s, pc) == try' = [try EXCEPT ![s].pc = pc]

Finish(s) == try' = [try EXCEPT ![s] = Idle]

-------------------------------------------------------------------------------
(* login: the origin, the account, the password *)

\* assertNotThrottled
AssertNotThrottled(s) ==
    /\ try[s].pc = "idle" /\ origin.until <= now
    /\ Goto(s, "read")
    /\ UNCHANGED <<user, origin, tries, now, wrong, lost>>

\* The user row is read once.  A locked account is refused before its password
\* is looked at, and the refusal is counted nowhere.
ReadUser(s) ==
    /\ try[s].pc = "read" /\ tries < MaxTries
    /\ tries' = tries + 1
    /\ try' = [try EXCEPT ![s] = IF user.until > now THEN Idle
                                 ELSE [Idle EXCEPT !.pc = "compare", !.fails = user.fails,
                                                   !.until = user.until]]
    /\ UNCHANGED <<user, origin, now, wrong, lost>>

Compare(s, right) ==
    /\ try[s].pc = "compare"
    /\ IF ~right THEN Goto(s, "fail")
       ELSE IF try[s].fails > 0 \/ try[s].until > 0 THEN Goto(s, "clear") ELSE Finish(s)
    /\ UNCHANGED <<user, origin, tries, now, wrong, lost>>

Refuse(s) ==
    /\ try[s].pc \in {"read", "compare"}
    /\ Finish(s)
    /\ UNCHANGED <<user, origin, tries, now, wrong, lost>>

\* Fault: the account is locked one failure too late.
RegisterFailedAttempt_OffByOne(s) ==
    LET attempts == try[s].fails + 1
        lock == attempts > Max
    IN  /\ try[s].pc = "fail"
        /\ user' = [fails |-> IF lock THEN 0 ELSE attempts,
                    until |-> IF lock THEN now + Lock ELSE user.until]
        /\ wrong' = IF lock THEN 0 ELSE wrong + 1
        /\ lost' = (~lock /\ (lost \/ try[s].fails # user.fails))
        /\ Goto(s, "count")
        /\ UNCHANGED <<origin, tries, now>>

\* registerFailedAttempt writes the count read before the password was
\* compared, plus one.  At the limit it locks and starts over; below it,
\* lockedUntil is left as it is (undefined).
RegisterFailedAttempt(s) ==
    LET attempts == try[s].fails + 1
        lock == attempts >= Max
    IN  /\ try[s].pc = "fail"
        /\ user' = [fails |-> IF lock THEN 0 ELSE attempts,
                    until |-> IF lock THEN now + Lock ELSE user.until]
        /\ wrong' = IF lock THEN 0 ELSE wrong + 1
        /\ lost' = (~lock /\ (lost \/ try[s].fails # user.fails))
        /\ Goto(s, "count")
        /\ UNCHANGED <<origin, tries, now>>

\* A right password clears failures and lock, whatever they are by now.
ClearFailures(s) ==
    /\ try[s].pc = "clear"
    /\ user' = Unlocked /\ wrong' = 0 /\ lost' = FALSE
    /\ Finish(s)
    /\ UNCHANGED <<origin, tries, now>>

\* resetPassword clears them too, in its own transaction.
ClearLockOnReset ==
    /\ user' = Unlocked /\ wrong' = 0 /\ lost' = FALSE
    /\ UNCHANGED <<origin, try, tries, now>>

-------------------------------------------------------------------------------
(* recordFailure: the counter of the origin *)

\* An origin not seen for a day starts over.
ReadCounter(s) ==
    /\ try[s].pc = "count"
    /\ try' = [try EXCEPT ![s].pc = "record",
                          ![s].n = IF now - origin.seen > Quiet THEN 1 ELSE origin.n + 1]
    /\ UNCHANGED <<user, origin, tries, now, wrong, lost>>

\* Doubles with every failure beyond the free ones, up to the ceiling.
Backoff(n) ==
    IF n <= Free THEN 0
    ELSE LET d == Base * 2^(n - Free - 1) IN IF d < Cap THEN d ELSE Cap

\* The upsert writes count and lock computed from the row read before.
RecordFailure(s) ==
    LET delay == Backoff(try[s].n)
    IN  /\ try[s].pc = "record"
        /\ origin' = [n |-> try[s].n, until |-> IF delay = 0 THEN 0 ELSE now + delay, seen |-> now]
        /\ Finish(s)
        /\ UNCHANGED <<user, tries, now, wrong, lost>>

Tick == now < MaxClock /\ now' = now + 1 /\ UNCHANGED <<user, origin, try, tries, wrong, lost>>

Next ==
    \/ \E s \in Slots : \/ AssertNotThrottled(s) \/ ReadUser(s)
                        \/ \E right \in BOOLEAN : Compare(s, right)
                        \/ Refuse(s) \/ RegisterFailedAttempt(s) \/ ClearFailures(s)
                        \/ ReadCounter(s) \/ RecordFailure(s)
    \/ ClearLockOnReset
    \/ Tick

Spec == Init /\ [][Next]_lockoutVars

-------------------------------------------------------------------------------
(* Properties *)

\* Neither bound on guessing gives way.  As long as no failure was registered with
\* an outdated count, every wrong password counts, and MAX_FAILED_ATTEMPTS of them
\* cannot pass without a lock; and the lock of an origin never lies further ahead
\* than the ceiling ("so a lockout cannot become permanent through arithmetic").
GuessesBounded ==
    /\ ~lost => wrong = user.fails /\ wrong < Max
    /\ origin.until <= now + Cap

===============================================================================
