---------------------------- MODULE OtpStore_proofs ----------------------------
(***************************************************************************)
(* Proofs about OtpStore, for any number of codes and concurrent calls and *)
(* any attempt limit, lifetime and cooldown.                               *)
(***************************************************************************)
EXTENDS OtpStore, TLAPS

-------------------------------------------------------------------------------
(* Type correctness *)

LEMMA AnswerTypes ==
    ASSUME NEW c \in Calls, call \in [Calls -> CallState], Answer(c)
    PROVE  /\ call' \in [Calls -> CallState]
           /\ call'[c].pc = "idle" /\ ~call'[c].late
           /\ \A d \in Calls \ {c} : call'[d] = call[d]
<1>1. Idle \in CallState /\ Idle.pc = "idle" /\ ~Idle.late
  BY DEF Idle, CallState, Pcs
<1> QED
  BY <1>1 DEF Answer

LEMMA GotoTypes ==
    ASSUME NEW c \in Calls, call \in [Calls -> CallState], NEW pc \in Pcs, Goto(c, pc)
    PROVE  /\ call' \in [Calls -> CallState]
           /\ call'[c].pc = pc /\ call'[c].late = call[c].late
           /\ call'[c].code = call[c].code
           /\ \A d \in Calls \ {c} : call'[d] = call[d]
BY DEF Goto, CallState

\* A verify call knows the code it compares with.
HasCode ==
    \A c \in Calls : call[c].pc \in {"incr", "expire", "accept", "refuse"}
                       => call[c].code \in Codes

RecordHasCode == rec = NoRecord \/ rec.code \in Codes

Typed == TypeOK /\ HasCode /\ RecordHasCode

LEMMA JudgeTypes ==
    ASSUME Typed, NEW c \in Calls, NEW n \in Nat, call[c].pc \in {"incr", "expire"},
           Judge(c, n)
    PROVE  /\ call' \in [Calls -> CallState]
           /\ HasCode'
           /\ call'[c].pc # "expire"
           /\ \A d \in Calls \ {c} : call'[d] = call[d]
           /\ TooMany(n) => tries' = tries
           /\ ~TooMany(n) => tries' = tries + 1
           /\ tries' \in Nat
<1>1. CASE TooMany(n)
  BY <1>1, AnswerTypes, GotoTypes DEF Judge, Typed, TypeOK, HasCode, Pcs
<1>2. CASE ~TooMany(n)
  <2>1. tries' = tries + 1 /\ (Goto(c, "accept") \/ Answer(c))
    BY <1>2 DEF Judge
  <2> QED
    BY <1>2, <2>1, AnswerTypes, GotoTypes DEF Typed, TypeOK, HasCode, Pcs
<1> QED
  BY <1>1, <1>2

LEMMA TypedInit == Init => Typed
<1> SUFFICES ASSUME Init PROVE Typed
  OBVIOUS
<1>1. rec \in Record /\ counter \in Counter
  BY ConstAssumption DEF Init, NoRecord, NoCounter, Record, Counter
<1>2. call \in [Calls -> CallState] /\ HasCode
  BY DEF Init, Idle, CallState, Pcs, HasCode
<1> QED
  BY <1>1, <1>2, ConstAssumption DEF Init, Typed, TypeOK, RecordHasCode

LEMMA TypedNext == Typed /\ [Next]_vars => Typed'
<1> SUFFICES ASSUME Typed, [Next]_vars PROVE Typed'
  OBVIOUS
<1> USE DEF Typed, RecordHasCode
<1>1. CASE UNCHANGED vars
  BY <1>1 DEF TypeOK, HasCode, vars
<1>2. ASSUME NEW c \in Calls, AskCode(c) PROVE Typed'
  <2>1. call' \in [Calls -> CallState] /\ HasCode'
    BY <1>2 DEF AskCode, TypeOK, HasCode, CallState, Idle, Pcs
  <2> QED
    BY <1>2, <2>1 DEF AskCode, TypeOK
<1>3. ASSUME NEW c \in Calls, Issue(c) PROVE Typed'
  <2>1. clock + Ttl \in 0..(MaxClock + Ttl)
    BY ConstAssumption DEF TypeOK
  <2>2. rec' \in Record /\ rec'.code \in Codes /\ used' \subseteq Codes
    BY <1>3, <2>1 DEF Issue, TypeOK, Record
  <2> QED
    BY <1>3, <2>2, AnswerTypes, GotoTypes DEF Issue, TypeOK, HasCode
<1>4. ASSUME NEW c \in Calls, NEW guess \in used \cup {Wrong}, ReadRecord(c, guess)
      PROVE  Typed'
  <2> DEFINE new == [pc |-> "incr", guess |-> guess, code |-> rec.code,
                     late |-> rec.code \in accepted]
  <2>1. call' \in [Calls -> CallState]
    <3>1. (rec.code \in accepted) \in BOOLEAN
      OBVIOUS
    <3>2. rec.code \in Codes \cup {None} /\ guess \in Codes \cup {Wrong, None}
      BY DEF TypeOK, Record
    <3>3. new \in CallState
      BY <3>1, <3>2 DEF CallState, Pcs
    <3> HIDE DEF new
    <3>4. call' = [call EXCEPT ![c] = new]
      BY <1>4 DEF ReadRecord, new
    <3> QED
      BY <3>3, <3>4 DEF TypeOK
  <2>2. guesses' \in [Codes -> Nat]
    BY <1>4 DEF ReadRecord, TypeOK
  <2>3. rec.code \in Codes
    BY <1>4 DEF ReadRecord, RecordHasCode
  <2> QED
    BY <1>4, <2>1, <2>2, <2>3 DEF ReadRecord, TypeOK, HasCode
<1>5. ASSUME NEW c \in Calls, Increment(c) PROVE Typed'
  <2>1. CASE counter.n = 0
    <3>1. counter' \in Counter
      BY <1>5, <2>1 DEF Increment, Counter
    <3>2. call' \in [Calls -> CallState] /\ HasCode' /\ UNCHANGED tries
      BY <1>5, <2>1, AnswerTypes, GotoTypes DEF Increment, TypeOK, HasCode, Pcs
    <3> QED
      BY <1>5, <3>1, <3>2 DEF Increment, TypeOK
  <2>2. CASE counter.n # 0
    <3>1. counter.n + 1 \in Nat /\ counter' \in Counter
      BY <1>5, <2>2 DEF Increment, TypeOK, Counter
    <3> QED
      BY <1>5, <2>2, <3>1, JudgeTypes DEF Increment, TypeOK
  <2> QED
    BY <2>1, <2>2
<1>6. ASSUME NEW c \in Calls, SetExpiry(c) PROVE Typed'
  <2>1. clock + Ttl \in 0..(MaxClock + Ttl)
    BY ConstAssumption DEF TypeOK
  <2>2. counter' \in Counter
    BY <1>6, <2>1 DEF SetExpiry, TypeOK, Counter
  <2> QED
    BY <1>6, <2>2, JudgeTypes DEF SetExpiry, TypeOK
<1>7. ASSUME NEW c \in Calls, Refuse(c) \/ Accept(c) PROVE Typed'
  <2>1. rec' \in Record
    BY <1>7, ConstAssumption DEF Refuse, Accept, NoRecord, Record
  <2>2. accepted' \subseteq Codes
    BY <1>7 DEF Refuse, Accept, TypeOK, HasCode
  <2> QED
    BY <1>7, <2>1, <2>2, AnswerTypes, GotoTypes DEF Refuse, Accept, TypeOK, HasCode
<1>8. CASE Tick
  <2>1. rec' \in Record
    BY <1>8, ConstAssumption DEF Tick, TypeOK, NoRecord, Record
  <2>2. counter' \in Counter /\ tries' \in Nat
    BY <1>8, ConstAssumption DEF Tick, TypeOK, NoCounter, Counter
  <2>3. clock' \in 0..MaxClock
    BY <1>8, ConstAssumption DEF Tick, TypeOK
  <2> QED
    BY <1>8, <2>1, <2>2, <2>3 DEF Tick, TypeOK, HasCode
<1>9. ASSUME NEW c \in Calls, Die(c) PROVE Typed'
  <2>1. faults' \in 0..MaxFaults
    BY <1>9, ConstAssumption DEF Die, TypeOK
  <2> QED
    BY <1>9, <2>1, AnswerTypes, GotoTypes DEF Die, TypeOK, HasCode
<1> QED
  BY <1>1, <1>2, <1>3, <1>4, <1>5, <1>6, <1>7, <1>8, <1>9 DEF Next, Step

\* The records and the locals of every call keep their types.
THEOREM OtpTypeCorrect == Spec => []TypeOK
<1>1. Typed => TypeOK
  BY DEF Typed
<1> QED
  BY <1>1, TypedInit, TypedNext, PTL DEF Spec

-------------------------------------------------------------------------------
(* The attempt limit *)

Pending(c) == call[c].pc = "expire"

\* The counter counts the guesses that were compared, and one more for the call
\* that has created it and not compared yet; only one call can be there, because
\* a counter without a TTL does not disappear.
LimitInv ==
    /\ \A c, d \in Calls : Pending(c) /\ Pending(d) => c = d
    /\ \A c \in Calls : Pending(c) =>
         counter.exp = Never /\ tries + 1 <= counter.n /\ tries + 1 <= Max
    /\ tries <= counter.n
    /\ tries <= Max

LEMMA LimitInit == Init => LimitInv
BY ConstAssumption DEF Init, LimitInv, NoCounter, Idle, Pending

LEMMA LimitNext == Typed /\ LimitInv /\ [Next]_vars => LimitInv'
<1> SUFFICES ASSUME Typed, LimitInv, [Next]_vars PROVE LimitInv'
  OBVIOUS
<1> USE DEF Pending
<1>0. /\ call \in [Calls -> CallState] /\ tries \in Nat /\ counter.n \in Nat
      /\ Max \in Nat /\ Max >= 1
  BY ConstAssumption DEF Typed, TypeOK, Counter
<1>1. CASE UNCHANGED vars
  BY <1>1 DEF LimitInv, vars
<1>2. ASSUME UNCHANGED <<counter, tries>>, NEW c \in Calls, ~Pending(c)',
             \A d \in Calls \ {c} : call'[d] = call[d]
      PROVE  LimitInv'
  BY <1>2 DEF LimitInv
<1>3. ASSUME NEW c \in Calls, AskCode(c) PROVE LimitInv'
  <2>1. call'[c].pc = "issue" /\ \A d \in Calls \ {c} : call'[d] = call[d]
    BY <1>0, <1>3 DEF AskCode, Idle
  <2> QED
    BY <1>2, <1>3, <2>1 DEF AskCode
<1>4. ASSUME NEW c \in Calls, NEW guess \in used \cup {Wrong}, ReadRecord(c, guess)
      PROVE  LimitInv'
  <2>1. call'[c].pc = "incr" /\ \A d \in Calls \ {c} : call'[d] = call[d]
    BY <1>0, <1>4 DEF ReadRecord
  <2> QED
    BY <1>2, <1>4, <2>1 DEF ReadRecord
<1>5. ASSUME NEW c \in Calls, Issue(c) \/ Refuse(c) \/ Accept(c) \/ Die(c) PROVE LimitInv'
  <2>1. UNCHANGED <<counter, tries>> /\ Answer(c)
    BY <1>5 DEF Issue, Refuse, Accept, Die
  <2> QED
    BY <1>0, <1>2, <2>1, AnswerTypes
<1>6. ASSUME NEW c \in Calls, Increment(c) PROVE LimitInv'
  <2>1. CASE counter.n = 0
    <3>1. /\ counter'.n = 1 /\ counter'.exp = Never /\ tries' = tries /\ tries = 0
          /\ \A d \in Calls : ~Pending(d)
      BY <1>0, <1>6, <2>1 DEF Increment, LimitInv
    <3>2. Goto(c, "expire")
      BY <1>6, <2>1 DEF Increment
    <3>3. \A d \in Calls \ {c} : call'[d] = call[d]
      BY <1>0, <3>2, GotoTypes DEF Pcs
    <3> QED
      BY <1>0, <3>1, <3>3 DEF LimitInv
  <2>2. CASE counter.n # 0
    <3>1. /\ counter'.n = counter.n + 1 /\ counter'.exp = counter.exp
          /\ Judge(c, counter.n + 1) /\ call[c].pc = "incr"
      BY <1>6, <2>2 DEF Increment, Typed, TypeOK, Counter
    <3>2. /\ ~Pending(c)' /\ \A d \in Calls \ {c} : call'[d] = call[d]
          /\ counter.n + 1 > Max => tries' = tries
          /\ counter.n + 1 <= Max => tries' = tries + 1
      <4>1. counter.n + 1 \in Nat
        BY <1>0
      <4> QED
        BY <1>0, <3>1, <4>1, JudgeTypes DEF TooMany
    <3>3. /\ tries' <= counter'.n /\ tries' <= Max
          /\ \A d \in Calls : Pending(d) => tries' + 1 <= counter'.n /\ tries' + 1 <= Max
      BY <1>0, <3>1, <3>2 DEF LimitInv
    <3> QED
      BY <3>1, <3>2, <3>3 DEF LimitInv
  <2> QED
    BY <2>1, <2>2
<1>7. ASSUME NEW c \in Calls, SetExpiry(c) PROVE LimitInv'
  <2>1. Pending(c) /\ Judge(c, 1) /\ counter'.n = counter.n
    BY <1>7 DEF SetExpiry, Typed, TypeOK, Counter
  <2>2. ~TooMany(1)
    BY <1>0 DEF TooMany
  <2>3. /\ ~Pending(c)' /\ \A d \in Calls \ {c} : call'[d] = call[d]
        /\ tries' = tries + 1
    BY <2>1, <2>2, JudgeTypes
  <2> QED
    BY <1>0, <2>1, <2>3 DEF LimitInv
<1>8. CASE Tick
  <2>1. CASE counter.exp # Never /\ counter.exp <= clock + 1
    <3>1. counter'.n = 0 /\ tries' = 0 /\ UNCHANGED call
      BY <1>8, <2>1 DEF Tick, NoCounter
    <3>2. \A c \in Calls : ~Pending(c)
      BY <2>1 DEF LimitInv
    <3> QED
      BY <1>0, <3>1, <3>2 DEF LimitInv
  <2>2. CASE ~(counter.exp # Never /\ counter.exp <= clock + 1)
    BY <1>8, <2>2 DEF Tick, LimitInv
  <2> QED
    BY <2>1, <2>2
<1> QED
  BY <1>1, <1>3, <1>4, <1>5, <1>6, <1>7, <1>8 DEF Next, Step

\* However many guesses are made in parallel, at most MAX_ATTEMPTS are compared with
\* a code while one counter lives.
THEOREM ParallelGuessesAreCounted == Spec => []AttemptLimit
<1>1. LimitInv => AttemptLimit
  BY DEF LimitInv, AttemptLimit
<1> QED
  BY <1>1, TypedInit, TypedNext, LimitInit, LimitNext, PTL DEF Spec

-------------------------------------------------------------------------------
(* An accepted code is dead *)

\* A code that was accepted is not stored, and is never stored again.
ConsumedInv ==
    /\ accepted \subseteq used
    /\ \A c \in Calls : call[c].pc \in {"incr", "expire", "accept", "refuse"}
                           => call[c].code \in used
    /\ rec # NoRecord => rec.code \in used \ accepted
    /\ \A c \in Calls : ~call[c].late

LEMMA ConsumedInit == Init => ConsumedInv
BY DEF Init, ConsumedInv, Idle

LEMMA ConsumedNext == Typed /\ ConsumedInv /\ [Next]_vars => ConsumedInv'
<1> SUFFICES ASSUME Typed, ConsumedInv, [Next]_vars PROVE ConsumedInv'
  OBVIOUS
<1>0. call \in [Calls -> CallState] /\ used \subseteq Codes
  BY DEF Typed, TypeOK
<1>1. CASE UNCHANGED vars
  BY <1>1 DEF ConsumedInv, vars
<1>2. ASSUME NEW c \in Calls, AskCode(c) PROVE ConsumedInv'
  BY <1>0, <1>2 DEF AskCode, Idle, ConsumedInv
<1>3. ASSUME NEW c \in Calls, Issue(c) PROVE ConsumedInv'
  <2>1. PICK k \in Codes \ used :
          /\ rec' = [code |-> k, issued |-> clock, exp |-> clock + Ttl]
          /\ used' = used \cup {k}
    BY <1>3 DEF Issue
  <2>2. rec'.code = k /\ k \notin accepted
    BY <2>1 DEF ConsumedInv
  <2> QED
    BY <1>0, <1>3, <2>1, <2>2, AnswerTypes DEF Issue, ConsumedInv
<1>4. ASSUME NEW c \in Calls, NEW guess \in used \cup {Wrong}, ReadRecord(c, guess)
      PROVE  ConsumedInv'
  <2>1. rec.code \in used \ accepted
    BY <1>4 DEF ReadRecord, ConsumedInv
  <2>2. /\ call'[c].code = rec.code /\ ~call'[c].late
        /\ \A d \in Calls \ {c} : call'[d] = call[d]
    BY <1>0, <1>4, <2>1 DEF ReadRecord
  <2> QED
    BY <1>4, <2>1, <2>2 DEF ReadRecord, ConsumedInv
<1>5. ASSUME NEW c \in Calls, NEW n \in Nat, Judge(c, n), call[c].pc \in {"incr", "expire"}
      PROVE  /\ \A d \in Calls \ {c} : call'[d] = call[d]
             /\ ~call'[c].late
             /\ call'[c].pc # "idle" => call'[c].code = call[c].code
  <2>1. Goto(c, "refuse") \/ Goto(c, "accept") \/ Answer(c)
    BY <1>5 DEF Judge
  <2> QED
    BY <1>0, <2>1, AnswerTypes, GotoTypes DEF ConsumedInv, Pcs
<1>6. ASSUME NEW c \in Calls, Increment(c) \/ SetExpiry(c) PROVE ConsumedInv'
  <2>1. /\ UNCHANGED <<rec, used, accepted>>
        /\ call[c].pc \in {"incr", "expire"}
        /\ Judge(c, counter.n + 1) \/ Judge(c, 1) \/ Goto(c, "expire")
    BY <1>6 DEF Increment, SetExpiry
  <2>2. counter.n + 1 \in Nat /\ 1 \in Nat
    BY DEF Typed, TypeOK, Counter
  <2>3. /\ \A d \in Calls \ {c} : call'[d] = call[d]
        /\ ~call'[c].late
        /\ call'[c].pc # "idle" => call'[c].code = call[c].code
    <3>1. CASE Goto(c, "expire")
      BY <1>0, <3>1, GotoTypes DEF ConsumedInv, Pcs
    <3> QED
      BY <1>5, <2>1, <2>2, <3>1
  <2> QED
    BY <2>1, <2>3 DEF ConsumedInv
<1>7. ASSUME NEW c \in Calls, Refuse(c) \/ Accept(c) PROVE ConsumedInv'
  <2>1. /\ rec' = NoRecord /\ used' = used /\ accepted' \subseteq used
    BY <1>7 DEF Refuse, Accept, ConsumedInv
  <2>2. Answer(c)
    BY <1>7 DEF Refuse, Accept
  <2> QED
    BY <1>0, <2>1, <2>2, AnswerTypes DEF ConsumedInv
<1>8. CASE Tick
  <2>1. rec' \in {NoRecord, rec} /\ UNCHANGED <<call, used, accepted>>
    BY <1>8 DEF Tick
  <2> QED
    BY <2>1 DEF ConsumedInv
<1>9. ASSUME NEW c \in Calls, Die(c) PROVE ConsumedInv'
  BY <1>0, <1>9, AnswerTypes DEF Die, ConsumedInv
<1> QED
  BY <1>1, <1>2, <1>3, <1>4, <1>6, <1>7, <1>8, <1>9 DEF Next, Step

\* A verify call that begins after its code was accepted is not accepted.
THEOREM ConsumedCodesStayDead == Spec => []ConsumedCodeDead
<1>1. ConsumedInv => ConsumedCodeDead
  BY DEF ConsumedInv, ConsumedCodeDead
<1> QED
  BY <1>1, TypedInit, TypedNext, ConsumedInit, ConsumedNext, PTL DEF Spec

===============================================================================
