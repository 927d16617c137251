------------------------------- MODULE OtpStore -------------------------------
(***************************************************************************)
(* The one-time code of one email address in Redis: the code's record, the *)
(* attempt counter next to it, and the sendOtp and verifyOtp calls of all  *)
(* replicas on them, one action per Redis command.                         *)
(*                                                                         *)
(* Codes are generated fresh and compared by hash.  A key disappears when  *)
(* its TTL has passed.  The in-process fallback that is used without       *)
(* REDIS_URL has no await between its reads and writes and is left out.    *)
(***************************************************************************)
EXTENDS Integers

CONSTANTS Codes,     \* codes that may be generated
          Wrong,     \* a guess that is no code
          Calls,     \* slots for calls in flight
          None,      \* no record, no code
          Never,     \* the expiry of a key without a TTL
          Max,       \* MAX_ATTEMPTS
          Ttl,       \* OTP_TTL_SECONDS
          Cooldown,  \* RESEND_COOLDOWN_SECONDS
          MaxClock,  \* bound: the clock stops here
          MaxFaults  \* bound: calls that may die between two commands

ASSUME ConstAssumption ==
    /\ Wrong \notin Codes /\ None \notin Codes /\ Wrong # None
    /\ Max \in Nat \ {0} /\ Ttl \in Nat \ {0} /\ Cooldown \in Nat
    /\ MaxClock \in Nat /\ MaxFaults \in Nat
    /\ Never \notin Int

VARIABLES rec,      \* otp:<email>: the code, when it was issued, when it expires
          counter,  \* otp:<email>:attempts: its value, when it expires
          call,     \* call[c]: where the call in slot c is, and its locals
          clock,
          faults,   \* calls that died so far
          used,     \* codes generated so far
          guesses,  \* history: guesses[k]: verify calls that read code k
          tries,    \* history: guesses compared since the counter was created
          accepted  \* history: codes a verify call has been answered ok for

vars == <<rec, counter, call, clock, faults, used, guesses, tries, accepted>>

-------------------------------------------------------------------------------
(* Operators named X_Fault below are X with a plausible mistake in it: the   *)
(* checks put them in X's place to see that a property notices.             *)

NoRecord == [code |-> None, issued |-> 0, exp |-> 0]

NoCounter == [n |-> 0, exp |-> 0]

Idle == [pc |-> "idle", guess |-> None, code |-> None, late |-> FALSE]

Pcs == {"idle", "issue", "incr", "expire", "accept", "refuse"}

Record == [code : Codes \cup {None}, issued : 0..MaxClock, exp : 0..(MaxClock + Ttl)]

Counter == [n : Nat, exp : 0..(MaxClock + Ttl) \cup {Never}]

CallState == [pc : Pcs, guess : Codes \cup {Wrong, None}, code : Codes \cup {None},
              late : BOOLEAN]

TypeOK ==
    /\ rec \in Record
    /\ counter \in Counter
    /\ call \in [Calls -> CallState]
    /\ clock \in 0..MaxClock
    /\ faults \in 0..MaxFaults
    /\ used \subseteq Codes
    /\ guesses \in [Codes -> Nat]
    /\ tries \in Nat
    /\ accepted \subseteq Codes

Init ==
    /\ rec = NoRecord
    /\ counter = NoCounter
    /\ call = [c \in Calls |-> Idle]
    /\ clock = 0
    /\ faults = 0
    /\ used = {}
    /\ guesses = [k \in Codes |-> 0]
    /\ tries = 0
    /\ accepted = {}

Goto(c, pc) == call' = [call EXCEPT ![c].pc = pc]

Answer(c) == call' = [call EXCEPT ![c] = Idle]

-------------------------------------------------------------------------------
(* sendOtp *)

\* secondsUntilResendAllowed
ResendAllowed == rec = NoRecord \/ clock - rec.issued >= Cooldown

\* A call that has to wait is answered at once and changes nothing.
AskCode(c) ==
    /\ call[c].pc = "idle" /\ ResendAllowed
    /\ call' = [call EXCEPT ![c] = [Idle EXCEPT !.pc = "issue"]]
    /\ UNCHANGED <<rec, counter, clock, faults, used, guesses, tries, accepted>>

\* SET otp:<email> EX: replaces the record and leaves the counter alone.  The
\* code is mailed afterwards.
Issue(c) ==
    /\ call[c].pc = "issue"
    /\ \E k \in Codes \ used :
         /\ rec' = [code |-> k, issued |-> clock, exp |-> clock + Ttl]
         /\ used' = used \cup {k}
    /\ Answer(c)
    /\ UNCHANGED <<counter, clock, faults, guesses, tries, accepted>>

-------------------------------------------------------------------------------
(* verifyOtp *)

\* GET otp:<email>; without a record the answer is "missing".
ReadRecord(c, guess) ==
    /\ call[c].pc = "idle" /\ rec # NoRecord
    /\ call' = [call EXCEPT ![c] = [pc |-> "incr", guess |-> guess, code |-> rec.code,
                                    late |-> rec.code \in accepted]]
    /\ guesses' = [guesses EXCEPT ![rec.code] = @ + 1]
    /\ UNCHANGED <<rec, counter, clock, faults, used, tries, accepted>>

TooMany(n) == n > Max

\* What verify does with the value of the counter.
Judge(c, n) ==
    IF TooMany(n)
    THEN Goto(c, "refuse") /\ UNCHANGED tries
    ELSE /\ tries' = tries + 1
         /\ IF call[c].guess = call[c].code THEN Goto(c, "accept") ELSE Answer(c)

\* Fault: the counter is read and written back in two commands, so the last
\* increment of another call may be lost.
Increment_LostUpdate(c) ==
    /\ call[c].pc = "incr"
    /\ \E n \in {counter.n, counter.n - 1} :
         /\ n \in Nat
         /\ counter' = [n |-> n + 1, exp |-> IF counter.n = 0 THEN clock + Ttl ELSE counter.exp]
         /\ Judge(c, n + 1)
    /\ UNCHANGED <<rec, clock, faults, used, guesses, accepted>>

\* INCR otp:<email>:attempts: a new counter has no TTL yet ...
Increment(c) ==
    /\ call[c].pc = "incr"
    /\ IF counter.n = 0
       THEN /\ counter' = [n |-> 1, exp |-> Never]
            /\ Goto(c, "expire")
            /\ UNCHANGED tries
       ELSE /\ counter' = [counter EXCEPT !.n = @ + 1]
            /\ Judge(c, counter.n + 1)
    /\ UNCHANGED <<rec, clock, faults, used, guesses, accepted>>

\* ... until EXPIRE, which is a command of its own.
SetExpiry(c) ==
    /\ call[c].pc = "expire"
    /\ counter' = [counter EXCEPT !.exp = clock + Ttl]
    /\ Judge(c, 1)
    /\ UNCHANGED <<rec, clock, faults, used, guesses, accepted>>

\* DEL otp:<email>, whatever code it holds by now, then "too-many-attempts".
Refuse(c) ==
    /\ call[c].pc = "refuse"
    /\ rec' = NoRecord
    /\ Answer(c)
    /\ UNCHANGED <<counter, clock, faults, used, guesses, tries, accepted>>

\* Fault: the code is left in place.
Accept_KeepsCode(c) ==
    /\ call[c].pc = "accept"
    /\ accepted' = accepted \cup {call[c].code}
    /\ Answer(c)
    /\ UNCHANGED <<rec, counter, clock, faults, used, guesses, tries>>

\* The same DEL, then ok.
Accept(c) ==
    /\ call[c].pc = "accept"
    /\ rec' = NoRecord
    /\ accepted' = accepted \cup {call[c].code}
    /\ Answer(c)
    /\ UNCHANGED <<counter, clock, faults, used, guesses, tries>>

-------------------------------------------------------------------------------
(* Time and failures *)

\* Redis drops the keys whose TTL has passed.
Tick ==
    /\ clock < MaxClock
    /\ clock' = clock + 1
    /\ rec' = IF rec.exp <= clock + 1 THEN NoRecord ELSE rec
    /\ IF counter.exp # Never /\ counter.exp <= clock + 1
       THEN counter' = NoCounter /\ tries' = 0
       ELSE UNCHANGED <<counter, tries>>
    /\ UNCHANGED <<call, faults, used, guesses, accepted>>

\* The process stops or Redis does not answer.  The second disjunct is the bound
\* on codes: the call that would need one more is dropped.
Die(c) ==
    /\ call[c].pc # "idle"
    /\ \/ faults < MaxFaults /\ faults' = faults + 1
       \/ call[c].pc = "issue" /\ used = Codes /\ UNCHANGED faults
    /\ Answer(c)
    /\ UNCHANGED <<rec, counter, clock, used, guesses, tries, accepted>>

-------------------------------------------------------------------------------
(* The specification *)

Step(c) ==
    \/ AskCode(c) \/ Issue(c)
    \/ \E guess \in used \cup {Wrong} : ReadRecord(c, guess)
    \/ Increment(c) \/ SetExpiry(c) \/ Refuse(c) \/ Accept(c)

Next ==
    \/ \E c \in Calls : Step(c) \/ Die(c)
    \/ Tick

Spec == Init /\ [][Next]_vars

-------------------------------------------------------------------------------
(* Properties *)

\* "The attempt limit can be walked past by simply guessing in parallel": not here,
\* while a counter lives no more than MAX_ATTEMPTS guesses are compared.
AttemptLimit == tries <= Max

\* "Consumes the code, so it cannot be replayed": a verify call that begins after
\* the code was accepted is not accepted, although calls of the same time may be.
ConsumedCodeDead ==
    \A c \in Calls : call[c].late => call[c].pc # "accept"

\* "Tie the counter's lifetime to the code's on first use": outside the call that
\* is about to do it, a counter has a TTL.
CounterExpires ==
    counter.exp = Never => \E c \in Calls : call[c].pc = "expire"

===============================================================================
