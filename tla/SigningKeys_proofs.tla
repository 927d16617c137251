-------------------------- MODULE SigningKeys_proofs --------------------------
(***************************************************************************)
(* Proofs about SigningKeys, for any number of keys and concurrent calls,  *)
(* any token lifetime and any number of failures.                          *)
(***************************************************************************)
EXTENDS SigningKeys, FiniteSetTheorems, TLAPS

-------------------------------------------------------------------------------
(* Type correctness *)

LEMMA GotoType ==
    ASSUME NEW c \in Calls, call \in [Calls -> CallState],
           NEW pc \in Pcs,
           NEW k \in Kids \cup {None}, Goto(c, pc, k)
    PROVE  /\ call' \in [Calls -> CallState]
           /\ call'[c].pc = pc /\ call'[c].kid = k
           /\ \A d \in Calls \ {c} : call'[d] = call[d]
BY DEF Goto, CallState

LEMMA IdleType ==
    ASSUME NEW c \in Calls, call \in [Calls -> CallState], call' = [call EXCEPT ![c] = Idle]
    PROVE  /\ call' \in [Calls -> CallState]
           /\ call'[c].pc = "idle"
           /\ \A d \in Calls \ {c} : call'[d] = call[d]
BY DEF Idle, CallState, Pcs

LEMMA NewCurrentType == TypeOK => NewCurrent \in KeyRow
BY DEF TypeOK, NewCurrent, KeyRow

\* In "sign" and "demote" a call has a key in hand.
HasKey == \A c \in Calls : call[c].pc \in {"sign", "demote"} => call[c].kid \in Kids

Typed == TypeOK /\ HasKey

LEMMA TypedInit == Init => Typed
<1> SUFFICES ASSUME Init PROVE Typed
  OBVIOUS
<1>1. key \in [Kids -> KeyRow]
  <2>1. NoRow \in KeyRow /\ 0 \in 0..MaxClock
    BY ConstAssumption DEF NoRow, KeyRow
  <2>2. ASSUME NEW b \in BOOLEAN
        PROVE  [st |-> "CURRENT", created |-> 0, readable |-> b] \in KeyRow
    BY <2>1 DEF KeyRow
  <2>3. NoKeys \in [Kids -> KeyRow]
    BY <2>1 DEF NoKeys
  <2> QED
    BY <2>2, <2>3 DEF Init
<1>2. call \in [Calls -> CallState] /\ HasKey
  BY DEF Init, Idle, CallState, Pcs, HasKey
<1> QED
  BY <1>1, <1>2, ConstAssumption DEF Init, Typed, TypeOK

LEMMA TypedNext == Typed /\ [Next]_vars => Typed'
<1> SUFFICES ASSUME Typed, [Next]_vars PROVE Typed'
  OBVIOUS
<1> USE DEF Typed
<1>1. CASE UNCHANGED vars
  BY <1>1 DEF TypeOK, HasKey, vars
<1>2. ASSUME NEW c \in Calls, Ask(c) \/ ReadCurrent(c) \/ ReadWinner(c) PROVE Typed'
  <2>1. /\ UNCHANGED <<key, clock, faults, rotations, until>>
        /\ \/ \E pc \in {"sign", "demote"}, k \in Kids : Goto(c, pc, k)
           \/ \E pc \in {"read", "insert", "throw"} : Goto(c, pc, None)
    BY <1>2 DEF Ask, ReadCurrent, ReadWinner
  <2>2. call' \in [Calls -> CallState] /\ HasKey'
    BY <2>1, GotoType DEF Pcs, TypeOK, HasKey
  <2> QED
    BY <2>1, <2>2 DEF TypeOK
<1>3. ASSUME NEW c \in Calls, DemoteUnreadable(c) PROVE Typed'
  <2>1. key' \in [Kids -> KeyRow]
    BY <1>3 DEF DemoteUnreadable, TypeOK, KeyRow
  <2> QED
    BY <1>3, <2>1, GotoType DEF Pcs, TypeOK, HasKey, DemoteUnreadable
<1>4. ASSUME NEW c \in Calls, InsertCurrent(c) PROVE Typed'
  <2>1. key' \in [Kids -> KeyRow]
    BY <1>4, NewCurrentType DEF InsertCurrent, TypeOK
  <2>2. call' \in [Calls -> CallState] /\ HasKey'
    BY <1>4, GotoType DEF Pcs, InsertCurrent, TypeOK, HasKey
  <2> QED
    BY <1>4, <2>1, <2>2 DEF TypeOK, InsertCurrent
<1>5. ASSUME NEW c \in Calls, InsertFails(c) PROVE Typed'
  BY <1>5, GotoType, ConstAssumption DEF Pcs, TypeOK, HasKey, InsertFails
<1>6. ASSUME NEW c \in Calls, Sign(c) PROVE Typed'
  <2>1. until' \in [Kids -> 0..(MaxClock + Life)]
    <3>1. clock + Life \in 0..(MaxClock + Life)
      BY ConstAssumption DEF TypeOK
    <3> QED
      BY <1>6, <3>1 DEF Sign, TypeOK
  <2> QED
    BY <1>6, <2>1, IdleType DEF Sign, TypeOK, HasKey
<1>7. ASSUME NEW c \in Calls, Throw(c) PROVE Typed'
  BY <1>7, IdleType DEF Throw, TypeOK, HasKey
<1>8. ASSUME NEW c \in Calls, Die(c) PROVE Typed'
  <2>1. faults' \in 0..MaxFaults
    BY <1>8, ConstAssumption DEF Die, TypeOK
  <2>2. call' \in [Calls -> CallState] /\ HasKey'
    BY <1>8, IdleType DEF Die, TypeOK, HasKey
  <2> QED
    BY <1>8, <2>1, <2>2 DEF Die, TypeOK
<1>9. CASE Rotate
  <2>1. key' \in [Kids -> KeyRow]
    BY <1>9, NewCurrentType DEF Rotate, TypeOK, KeyRow
  <2> QED
    BY <1>9, <2>1 DEF Rotate, TypeOK, HasKey
<1>10. CASE RetireExpiredPreviousKeys
  <2>1. key' \in [Kids -> KeyRow]
    BY <1>10 DEF RetireExpiredPreviousKeys, TypeOK, KeyRow
  <2> QED
    BY <1>10, <2>1 DEF RetireExpiredPreviousKeys, TypeOK, HasKey
<1>11. CASE Tick
  BY <1>11, ConstAssumption DEF Tick, TypeOK, HasKey
<1> QED
  BY <1>1, <1>2, <1>3, <1>4, <1>5, <1>6, <1>7, <1>8, <1>9, <1>10, <1>11 DEF Next, Step

\* Rows and calls keep their types, whatever a call has in hand when it is
\* overtaken by a rotation, a demotion or another INSERT.
THEOREM KeysTypeCorrect == Spec => []TypeOK
<1>1. Typed => TypeOK
  BY DEF Typed
<1> QED
  BY <1>1, TypedInit, TypedNext, PTL DEF Spec

-------------------------------------------------------------------------------
(* Losing the race is no error *)

Legacy(k) == key[k].st # "absent" /\ ~key[k].readable

\* Only the key the behaviour starts with can be unreadable, so a call that has
\* come to the INSERT knows that a CURRENT row, if there is one, is readable; and
\* one that lost the INSERT knows there is one.
OneLegacy == \A j, k \in Kids : Legacy(j) /\ Legacy(k) => j = k

DemotesLegacy == \A c \in Calls : call[c].pc = "demote" => Legacy(call[c].kid)

InsertKnows ==
    \A c \in Calls, k \in Kids :
       call[c].pc \in {"insert", "reread"} /\ IsCurrent(k) => key[k].readable

WinnerExists ==
    faults = 0 => \A c \in Calls : call[c].pc = "reread" => \E k \in Kids : IsCurrent(k)

RaceInv == OneLegacy /\ DemotesLegacy /\ InsertKnows /\ WinnerExists /\ NoCallThrows

LEMMA RaceInit == Init => RaceInv
BY DEF Init, NoKeys, NoRow, Idle, RaceInv, OneLegacy, DemotesLegacy, InsertKnows,
   WinnerExists, NoCallThrows, Legacy

LEMMA RaceNext == Typed /\ RaceInv /\ [Next]_vars => RaceInv'
<1> SUFFICES ASSUME Typed, RaceInv, [Next]_vars PROVE RaceInv'
  OBVIOUS
<1> USE DEF Typed, TypeOK, RaceInv, OneLegacy, DemotesLegacy, InsertKnows, WinnerExists,
            NoCallThrows, Legacy, IsCurrent, HasKey
<1>1. CASE UNCHANGED vars
  BY <1>1 DEF vars
<1>2. ASSUME NEW c \in Calls, Ask(c) PROVE RaceInv'
  BY <1>2, GotoType DEF Pcs, Ask
<1>3. ASSUME NEW c \in Calls, ReadCurrent(c) PROVE RaceInv'
  <2> USE <1>3 DEF ReadCurrent
  <2>1. ASSUME NEW k \in Kids, IsCurrent(k), key[k].readable, Goto(c, "sign", k)
        PROVE  RaceInv'
    BY <2>1, GotoType DEF Pcs
  <2>2. ASSUME NEW k \in Kids, IsCurrent(k), ~key[k].readable, Goto(c, "demote", k)
        PROVE  RaceInv'
    BY <2>2, GotoType DEF Pcs
  <2>3. CASE (\A k \in Kids : ~IsCurrent(k)) /\ Goto(c, "insert", None)
    BY <2>3, GotoType DEF Pcs
  <2> QED
    BY <2>1, <2>2, <2>3
<1>4. ASSUME NEW c \in Calls, DemoteUnreadable(c) PROVE RaceInv'
  <2> DEFINE old == call[c].kid
  <2>1. /\ old \in Kids /\ Legacy(old)
        /\ key' = [key EXCEPT ![old].st = "RETIRED"]
        /\ call' \in [Calls -> CallState] /\ call'[c].pc = "insert"
        /\ \A d \in Calls \ {c} : call'[d] = call[d]
    BY <1>4, GotoType DEF Pcs, DemoteUnreadable
  <2>2. \A k \in Kids : /\ key'[k].readable = key[k].readable
                        /\ Legacy(k)' <=> Legacy(k)
                        /\ IsCurrent(k)' <=> IsCurrent(k) /\ k # old
    BY <2>1 DEF KeyRow
  <2>3. \A k \in Kids : IsCurrent(k)' => key'[k].readable
    BY <2>1, <2>2
  <2> QED
    BY <1>4, <2>1, <2>2, <2>3 DEF DemoteUnreadable
<1>5. ASSUME NEW c \in Calls, InsertCurrent(c) PROVE RaceInv'
  <2> USE <1>5 DEF InsertCurrent
  <2>1. ASSUME NEW k \in Kids, key[k].st = "absent", key' = [key EXCEPT ![k] = NewCurrent],
               Goto(c, "sign", k)
        PROVE  RaceInv'
    BY <2>1, GotoType DEF Pcs, NewCurrent
  <2>2. CASE (\E j \in Kids : IsCurrent(j)) /\ Goto(c, "reread", None) /\ UNCHANGED key
    BY <2>2, GotoType DEF Pcs
  <2> QED
    BY <2>1, <2>2
<1>6. ASSUME NEW c \in Calls, InsertFails(c) PROVE RaceInv'
  BY <1>6, GotoType DEF Pcs, InsertFails
<1>7. ASSUME NEW c \in Calls, ReadWinner(c) PROVE RaceInv'
  <2> USE <1>7 DEF ReadWinner
  <2>1. ASSUME NEW k \in Kids, IsCurrent(k), key[k].readable, Goto(c, "sign", k)
        PROVE  RaceInv'
    BY <2>1, GotoType DEF Pcs
  <2>2. CASE (\A k \in Kids : IsCurrent(k) => ~key[k].readable) /\ Goto(c, "throw", None)
    <3>1. faults > 0
      BY <2>2
    <3> QED
      BY <2>2, <3>1, GotoType DEF Pcs
  <2> QED
    BY <2>1, <2>2
<1>8. ASSUME NEW c \in Calls, Sign(c) \/ Throw(c) PROVE RaceInv'
  BY <1>8, IdleType DEF Sign, Throw
<1>9. ASSUME NEW c \in Calls, Die(c) PROVE RaceInv'
  <2>1. /\ faults' = 0 => faults = 0
        /\ faults > 0 => faults' > 0
    BY <1>9 DEF Die
  <2>2. /\ UNCHANGED key /\ call'[c].pc = "idle"
        /\ \A d \in Calls \ {c} : call'[d] = call[d]
    BY <1>9, IdleType DEF Die
  <2> QED
    BY <2>1, <2>2
<1>10. CASE Rotate
  <2>1. PICK k \in Kids :
          /\ key[k].st = "absent"
          /\ key' = [j \in Kids |-> IF j = k THEN NewCurrent
                                    ELSE IF IsCurrent(j) THEN [key[j] EXCEPT !.st = "PREVIOUS"]
                                    ELSE key[j]]
    BY <1>10 DEF Rotate
  <2>2. /\ IsCurrent(k)' /\ key'[k].readable
        /\ \A j \in Kids \ {k} : /\ Legacy(j)' <=> Legacy(j)
                                 /\ ~IsCurrent(j)'
    BY <2>1 DEF NewCurrent, KeyRow
  <2> QED
    BY <1>10, <2>1, <2>2 DEF Rotate
<1>11. CASE RetireExpiredPreviousKeys
  <2>1. \A k \in Kids : /\ Legacy(k)' <=> Legacy(k)
                        /\ key'[k].readable = key[k].readable
                        /\ IsCurrent(k)' <=> IsCurrent(k)
    BY <1>11 DEF RetireExpiredPreviousKeys, KeyRow
  <2> QED
    BY <1>11, <2>1 DEF RetireExpiredPreviousKeys
<1>12. CASE Tick
  BY <1>12 DEF Tick
<1> QED
  BY <1>1, <1>2, <1>3, <1>4, <1>5, <1>6, <1>7, <1>8, <1>9, <1>10, <1>11, <1>12
     DEF Next, Step

\* However many replicas boot, mint and rotate at once, no call of ensureCurrentKey
\* ends with an error that no failing statement caused.
THEOREM LosingTheRaceIsNoError == Spec => []NoCallThrows
<1>1. Typed /\ RaceInv => NoCallThrows
  BY DEF RaceInv
<1> QED
  BY <1>1, TypedInit, TypedNext, RaceInit, RaceNext, PTL DEF Spec

-------------------------------------------------------------------------------
(* A usable key is published for a token lifetime *)

\* A usable key is retired by age only: a demotion hits an unreadable one.
YoungInv ==
    \A k \in Kids : key[k].st = "RETIRED" /\ key[k].readable => key[k].created + Life < clock

LEMMA YoungInit == Init => YoungInv
BY DEF Init, NoKeys, NoRow, YoungInv

LEMMA YoungNext == Typed /\ RaceInv /\ YoungInv /\ [Next]_vars => YoungInv'
<1> SUFFICES ASSUME Typed, RaceInv, YoungInv, [Next]_vars PROVE YoungInv'
  OBVIOUS
<1> USE DEF Typed, TypeOK, YoungInv
<1>1. CASE UNCHANGED <<key, clock>>
  BY <1>1
<1>2. ASSUME NEW c \in Calls, DemoteUnreadable(c) PROVE YoungInv'
  <2>1. ~key[call[c].kid].readable
    BY <1>2 DEF DemoteUnreadable, RaceInv, DemotesLegacy, Legacy
  <2> QED
    BY <1>2, <2>1 DEF DemoteUnreadable
<1>3. ASSUME NEW c \in Calls, InsertCurrent(c) PROVE YoungInv'
  BY <1>3 DEF InsertCurrent, NewCurrent
<1>4. CASE Rotate
  BY <1>4 DEF Rotate, NewCurrent, KeyRow
<1>5. CASE RetireExpiredPreviousKeys
  <2>1. ASSUME NEW k \in Kids, key'[k].st = "RETIRED", key'[k].readable
        PROVE  key[k].created + Life < clock /\ key'[k].created = key[k].created
    BY <1>5, <2>1, ConstAssumption DEF RetireExpiredPreviousKeys, KeyRow
  <2> QED
    BY <1>5, <2>1 DEF RetireExpiredPreviousKeys
<1>6. CASE Tick
  BY <1>6, ConstAssumption DEF Tick, KeyRow
<1>7. ASSUME NEW c \in Calls, Step(c) \/ Die(c) PROVE YoungInv'
  BY <1>1, <1>2, <1>3, <1>7, Zenon
     DEF Step, Ask, ReadCurrent, InsertFails, ReadWinner, Sign, Throw, Die
<1>8. CASE UNCHANGED vars
  BY <1>1, <1>8 DEF vars
<1> QED
  BY <1>4, <1>5, <1>6, <1>7, <1>8 DEF Next

\* No operation takes a usable key out of the JWKS within a token lifetime of its
\* creation.
THEOREM UsableKeysStayPublished == Spec => []YoungKeysPublished
<1>1. Typed /\ YoungInv => YoungKeysPublished
  BY ConstAssumption DEF Typed, TypeOK, KeyRow, YoungInv, YoungKeysPublished, Published
<1> QED
  BY <1>1, TypedInit, TypedNext, RaceInit, RaceNext, YoungInit, YoungNext, PTL DEF Spec

-------------------------------------------------------------------------------
(* One key per rotation *)

UsableKeys == {k \in Kids : key[k].st # "absent" /\ key[k].readable}

\* An INSERT that is let in is the first usable key: from then on a usable one is CURRENT.
UsableInv ==
    /\ IsFiniteSet(UsableKeys)
    /\ Cardinality(UsableKeys) <= 1 + rotations
    /\ UsableKeys # {} => \E k \in UsableKeys : IsCurrent(k)

LEMMA UsableInit == Init => UsableInv
<1> SUFFICES ASSUME Init PROVE UsableInv
  OBVIOUS
<1>1. CASE UsableKeys = {}
  BY <1>1, FS_EmptySet DEF UsableInv, Init
<1>2. CASE \E k \in Kids : UsableKeys = {k} /\ IsCurrent(k)
  <2>1. PICK k \in Kids : UsableKeys = {k} /\ IsCurrent(k)
    BY <1>2
  <2>2. IsFiniteSet({k}) /\ Cardinality({k}) = 1
    BY FS_Singleton
  <2>3. IsFiniteSet(UsableKeys) /\ Cardinality(UsableKeys) = 1
    BY <2>1, <2>2
  <2> QED
    BY <2>1, <2>3 DEF UsableInv, Init
<1> QED
  BY <1>1, <1>2 DEF Init, NoKeys, NoRow, UsableKeys, IsCurrent

LEMMA UsableNext == Typed /\ RaceInv /\ UsableInv /\ [Next]_vars => UsableInv'
<1> SUFFICES ASSUME Typed, RaceInv, UsableInv, [Next]_vars PROVE UsableInv'
  OBVIOUS
<1> USE DEF Typed, TypeOK
<1>1. ASSUME UsableKeys' = UsableKeys, UNCHANGED rotations,
             \A k \in UsableKeys : IsCurrent(k) => IsCurrent(k)'
      PROVE  UsableInv'
  BY <1>1 DEF UsableInv
<1>2. ASSUME NEW c \in Calls, DemoteUnreadable(c) PROVE UsableInv'
  <2>1. /\ call[c].kid \in Kids /\ ~key[call[c].kid].readable
        /\ key' = [key EXCEPT ![call[c].kid].st = "RETIRED"]
        /\ UNCHANGED rotations
    BY <1>2 DEF DemoteUnreadable, HasKey, RaceInv, DemotesLegacy, Legacy
  <2>2. \A k \in Kids : /\ k # call[c].kid => key'[k] = key[k]
                        /\ key'[k].readable = key[k].readable
    BY <2>1 DEF KeyRow
  <2>3. UsableKeys' = UsableKeys
    BY <2>1, <2>2 DEF UsableKeys
  <2>4. \A k \in UsableKeys : IsCurrent(k) => IsCurrent(k)'
    BY <2>1, <2>2 DEF UsableKeys, IsCurrent
  <2> QED
    BY <1>1, <2>1, <2>3, <2>4
<1>3. ASSUME NEW k \in Kids, key[k].st = "absent", key'[k] = NewCurrent,
             \A j \in Kids \ {k} : /\ key'[j].readable = key[j].readable
                                   /\ key'[j].st = "absent" <=> key[j].st = "absent"
      PROVE  /\ UsableKeys' = UsableKeys \cup {k} /\ k \notin UsableKeys
             /\ IsFiniteSet(UsableKeys')
             /\ Cardinality(UsableKeys') = Cardinality(UsableKeys) + 1
             /\ k \in UsableKeys' /\ IsCurrent(k)'
  <2>1. UsableKeys' = UsableKeys \cup {k} /\ k \notin UsableKeys /\ IsCurrent(k)'
    BY <1>3 DEF UsableKeys, IsCurrent, NewCurrent
  <2> QED
    BY <2>1, FS_AddElement DEF UsableInv
<1>4. ASSUME NEW c \in Calls, InsertCurrent(c) PROVE UsableInv'
  <2>1. UNCHANGED rotations
    BY <1>4 DEF InsertCurrent
  <2>2. ASSUME NEW k \in Kids, key[k].st = "absent", \A j \in Kids : ~IsCurrent(j),
               key' = [key EXCEPT ![k] = NewCurrent]
        PROVE  UsableInv'
    <3>1. UsableKeys = {} /\ Cardinality(UsableKeys) = 0
      BY <2>2, FS_EmptySet DEF UsableInv, UsableKeys
    <3>2. /\ Cardinality(UsableKeys') = 1 /\ IsFiniteSet(UsableKeys')
          /\ k \in UsableKeys' /\ IsCurrent(k)'
      BY <1>3, <2>2, <3>1
    <3> QED
      BY <2>1, <3>2 DEF UsableInv
  <2>3. CASE UNCHANGED key
    BY <1>1, <2>1, <2>3 DEF UsableKeys, IsCurrent
  <2> QED
    BY <1>4, <2>2, <2>3 DEF InsertCurrent
<1>5. CASE Rotate
  <2>1. PICK k \in Kids :
          /\ key[k].st = "absent"
          /\ key' = [j \in Kids |-> IF j = k THEN NewCurrent
                                    ELSE IF IsCurrent(j) THEN [key[j] EXCEPT !.st = "PREVIOUS"]
                                    ELSE key[j]]
    BY <1>5 DEF Rotate
  <2>2. /\ Cardinality(UsableKeys') = Cardinality(UsableKeys) + 1
        /\ IsFiniteSet(UsableKeys') /\ k \in UsableKeys' /\ IsCurrent(k)'
    <3>1. \A j \in Kids \ {k} : /\ key'[j].readable = key[j].readable
                                /\ key'[j].st = "absent" <=> key[j].st = "absent"
      BY <2>1 DEF KeyRow, IsCurrent
    <3> QED
      BY <1>3, <2>1, <3>1
  <2>3. Cardinality(UsableKeys) \in Nat
    BY FS_CardinalityType DEF UsableInv
  <2> QED
    BY <1>5, <2>2, <2>3 DEF Rotate, UsableInv
<1>6. CASE RetireExpiredPreviousKeys
  <2>1. \A k \in Kids : /\ key'[k].readable = key[k].readable
                        /\ key'[k].st = "absent" <=> key[k].st = "absent"
                        /\ IsCurrent(k)' <=> IsCurrent(k)
    BY <1>6 DEF RetireExpiredPreviousKeys, KeyRow, IsCurrent
  <2> QED
    BY <1>1, <1>6, <2>1 DEF RetireExpiredPreviousKeys, UsableKeys
<1>7. CASE UNCHANGED <<key, rotations>>
  BY <1>1, <1>7 DEF UsableKeys, IsCurrent
<1> QED
  BY <1>2, <1>4, <1>5, <1>6, <1>7, Zenon
     DEF Next, Step, Ask, ReadCurrent, InsertFails, ReadWinner, Sign, Throw, Die, Tick, vars

\* However many calls of however many replicas find no usable key at once, the first
\* key and one per rotation is all that is ever generated.
THEOREM NoKeyGeneratedTwice == Spec => []OneKeyPerRotation
<1>1. UsableInv => OneKeyPerRotation
  BY DEF UsableInv, UsableKeys, OneKeyPerRotation
<1> QED
  BY <1>1, TypedInit, TypedNext, RaceInit, RaceNext, UsableInit, UsableNext, PTL DEF Spec

-------------------------------------------------------------------------------
(* A CURRENT key is kept *)

\* Whoever retires the CURRENT key is the one that inserts the next.
KeptInv ==
    faults = 0 /\ (\E k \in Kids : key[k].st # "absent")
      => \/ \E k \in Kids : IsCurrent(k)
         \/ \E c \in Calls : call[c].pc = "insert"

LEMMA KeptInit == Init => KeptInv
BY DEF Init, KeptInv, NoKeys, NoRow, IsCurrent

LEMMA KeptNext == Typed /\ KeptInv /\ [Next]_vars => KeptInv'
<1> SUFFICES ASSUME Typed, KeptInv, [Next]_vars PROVE KeptInv'
  OBVIOUS
<1> USE DEF Typed, TypeOK, KeptInv, IsCurrent
<1>1. ASSUME UNCHANGED <<key, faults>>,
             \A c \in Calls : call[c].pc = "insert" => call'[c].pc = "insert"
      PROVE  KeptInv'
  BY <1>1
<1>2. ASSUME NEW c \in Calls, Step(c) \/ Die(c) PROVE KeptInv'
  <2>1. CASE Ask(c)
    BY <1>1, <2>1, GotoType DEF Ask, Pcs
  <2>2. CASE ReadCurrent(c)
    <3>1. /\ call[c].pc = "read" /\ UNCHANGED <<key, faults>>
          /\ \E pc \in Pcs, k \in Kids \cup {None} : Goto(c, pc, k)
      BY <2>2 DEF ReadCurrent, Pcs
    <3> QED
      BY <1>1, <3>1, GotoType
  <2>3. CASE DemoteUnreadable(c)
    <3>1. call'[c].pc = "insert"
      BY <2>3, GotoType DEF DemoteUnreadable, Pcs
    <3> QED
      BY <3>1
  <2>4. CASE InsertCurrent(c)
    BY <2>4 DEF InsertCurrent, NewCurrent
  <2>5. CASE InsertFails(c) \/ Die(c)
    BY <2>5 DEF InsertFails, Die
  <2>6. CASE ReadWinner(c)
    <3>1. /\ call[c].pc = "reread" /\ UNCHANGED <<key, faults>>
          /\ \E pc \in Pcs, k \in Kids \cup {None} : Goto(c, pc, k)
      BY <2>6 DEF ReadWinner, Pcs
    <3> QED
      BY <1>1, <3>1, GotoType
  <2>7. CASE Sign(c) \/ Throw(c)
    BY <1>1, <2>7, IdleType DEF Sign, Throw
  <2> QED
    BY <1>2, <2>1, <2>2, <2>3, <2>4, <2>5, <2>6, <2>7 DEF Step
<1>3. CASE Rotate
  BY <1>3 DEF Rotate, NewCurrent
<1>4. CASE RetireExpiredPreviousKeys
  <2>1. \A k \in Kids : /\ key'[k].st = "absent" <=> key[k].st = "absent"
                        /\ IsCurrent(k) => IsCurrent(k)'
    BY <1>4 DEF RetireExpiredPreviousKeys, KeyRow
  <2> QED
    BY <1>4, <2>1 DEF RetireExpiredPreviousKeys
<1>5. CASE Tick \/ UNCHANGED vars
  BY <1>1, <1>5 DEF Tick, vars
<1> QED
  BY <1>2, <1>3, <1>4, <1>5 DEF Next

\* Once there is a key, one is CURRENT, except while a call that retired an unreadable
\* one is about to insert the next, or died or failed there.
THEOREM MintingStaysPossible == Spec => []CurrentKeyKept
<1>1. KeptInv => CurrentKeyKept
  BY DEF KeptInv, CurrentKeyKept
<1> QED
  BY <1>1, TypedInit, TypedNext, KeptInit, KeptNext, PTL DEF Spec

===============================================================================
