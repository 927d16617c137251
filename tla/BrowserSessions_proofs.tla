------------------------ MODULE BrowserSessions_proofs ------------------------
(***************************************************************************)
(* Proofs about BrowserSessions, for any number of sessions, tokens and    *)
(* concurrent requests and any cap and idle limit.                         *)
(***************************************************************************)
EXTENDS BrowserSessions, FiniteSetTheorems, TLAPS

-------------------------------------------------------------------------------
(* Type correctness *)

HasToken == {"cap", "evict", "deliver", "lookup", "renew"}

\* A request in flight knows its session, and its refresh token while it has one.
ReqShape ==
    \A r \in Reqs :
       /\ req[r].pc # "idle" => req[r].sid \in Sids
       /\ req[r].pc \in HasToken => req[r].tok \in Tokens

Typed == TypeOK /\ ReqShape

LEMMA AnswerReq ==
    ASSUME NEW r \in Reqs, req \in [Reqs -> ReqState], 0 \in 0..MaxClock, Answer(r)
    PROVE  /\ req' \in [Reqs -> ReqState]
           /\ req'[r] = Idle
           /\ \A q \in Reqs \ {r} : req'[q] = req[q]
<1>1. Idle \in ReqState
  BY DEF Idle, ReqState, Pcs
<1> QED
  BY <1>1 DEF Answer

LEMMA GotoReq ==
    ASSUME NEW r \in Reqs, req \in [Reqs -> ReqState], NEW pc \in Pcs, Goto(r, pc)
    PROVE  /\ req' \in [Reqs -> ReqState]
           /\ req'[r].pc = pc /\ req'[r].sid = req[r].sid
           /\ req'[r].tok = req[r].tok /\ req'[r].late = req[r].late
           /\ \A q \in Reqs \ {r} : req'[q] = req[q]
BY DEF Goto, ReqState

LEMMA DeactivateType ==
    ASSUME row \in [Sids -> SessionRow], NEW S, DeactivateRows(S)
    PROVE  /\ row' \in [Sids -> SessionRow]
           /\ \A s \in Sids : /\ row'[s].hash = row[s].hash
                              /\ row[s].st = "revoked" => row'[s].st = "revoked"
BY DEF DeactivateRows, SessionRow

LEMMA RenewedRow ==
    ASSUME NEW w \in SessionRow, NEW t \in Tokens, NEW n \in 0..MaxClock
    PROVE  [w EXCEPT !.hash = t, !.lapsed = FALSE, !.seen = n] \in SessionRow
BY DEF SessionRow

LEMMA TypedInit == Init => Typed
<1> SUFFICES ASSUME Init PROVE Typed
  OBVIOUS
<1>1. NoRow \in SessionRow /\ Idle \in ReqState
  BY ConstAssumption DEF NoRow, SessionRow, Idle, ReqState, Pcs
<1>2. ReqShape
  BY DEF Init, Idle, ReqShape, HasToken
<1> QED
  BY <1>1, <1>2, ConstAssumption DEF Init, Typed, TypeOK

LEMMA TypedArrive ==
    ASSUME Typed, NEW r \in Reqs, Arrive(r) PROVE Typed'
<1> USE DEF Typed
<1>0. 0 \in 0..MaxClock /\ clock \in 0..MaxClock
  BY ConstAssumption DEF TypeOK
<1>1. CASE CreateRow(r)
  <2>1. PICK s \in Sids, t \in Tokens \ minted :
          /\ row' = [row EXCEPT ![s] = [st |-> "active", hash |-> t, seen |-> clock,
                                        lapsed |-> FALSE]]
          /\ minted' = minted \cup {t}
          /\ req' = [req EXCEPT ![r] = [Idle EXCEPT !.pc = "cap", !.sid = s, !.tok = t]]
    BY <1>1 DEF CreateRow
  <2>2. row' \in [Sids -> SessionRow]
    BY <1>0, <2>1 DEF TypeOK, SessionRow
  <2>3. [Idle EXCEPT !.pc = "cap", !.sid = s, !.tok = t] \in ReqState
    BY <1>0 DEF Idle, ReqState, Pcs
  <2>4. req' \in [Reqs -> ReqState]
    BY <2>1, <2>3 DEF TypeOK
  <2>5. ReqShape'
    BY <2>1 DEF TypeOK, ReqShape, Idle, HasToken
  <2> QED
    BY <1>1, <2>1, <2>2, <2>4, <2>5 DEF CreateRow, TypeOK
<1>2. ASSUME NEW s \in Sids, PresentCookie(r, s) PROVE Typed'
  <2> DEFINE new == [Idle EXCEPT !.pc = "lookup", !.sid = s, !.tok = jar[s],
                                 !.late = row[s].st = "revoked"]
  <2>1. jar[s] \in Tokens
    BY <1>2 DEF PresentCookie, TypeOK
  <2>2. new \in ReqState
    <3>1. (row[s].st = "revoked") \in BOOLEAN
      OBVIOUS
    <3> QED
      BY <1>0, <2>1, <3>1 DEF Idle, ReqState, Pcs
  <2>3. new.pc = "lookup" /\ new.sid = s /\ new.tok = jar[s]
    BY DEF Idle
  <2> HIDE DEF new
  <2>4. req' = [req EXCEPT ![r] = new]
    BY <1>2 DEF PresentCookie, new
  <2>5. req' \in [Reqs -> ReqState] /\ ReqShape'
    BY <2>1, <2>2, <2>3, <2>4 DEF TypeOK, ReqShape, HasToken
  <2>6. torn' \subseteq Sids
    BY <1>2 DEF PresentCookie, TypeOK
  <2> QED
    BY <1>2, <2>5, <2>6 DEF PresentCookie, TypeOK
<1>3. ASSUME NEW s \in Sids, ReadRow(r, s) PROVE Typed'
  <2> DEFINE new == [Idle EXCEPT !.pc = IF clock - row[s].seen > IdleLimit
                                        THEN "timeout" ELSE "touch",
                                 !.sid = s, !.at = clock]
  <2>1. new \in ReqState
    BY <1>0 DEF Idle, ReqState, Pcs
  <2>2. new.pc \in {"timeout", "touch"} /\ new.sid = s
    BY DEF Idle
  <2> HIDE DEF new
  <2>3. req' = [req EXCEPT ![r] = new]
    BY <1>3 DEF ReadRow, new
  <2>4. req' \in [Reqs -> ReqState] /\ ReqShape'
    BY <2>1, <2>2, <2>3 DEF TypeOK, ReqShape, HasToken
  <2> QED
    BY <1>3, <2>4 DEF ReadRow, TypeOK, browser
<1> QED
  BY <1>1, <1>2, <1>3 DEF Arrive

LEMMA TypedStep ==
    ASSUME Typed, NEW r \in Reqs, Step(r) PROVE Typed'
<1> USE DEF Typed
<1>0. 0 \in 0..MaxClock /\ clock \in 0..MaxClock
  BY ConstAssumption DEF TypeOK
<1>1. CASE ReadActive(r)
  <2>1. PICK V \in SUBSET Sids :
          req' = [req EXCEPT ![r] = [@ EXCEPT !.pc = IF V = {} THEN "deliver" ELSE "evict",
                                              !.over = V]]
    BY <1>1 DEF ReadActive
  <2>2. req' \in [Reqs -> ReqState]
    <3>1. [req[r] EXCEPT !.pc = IF V = {} THEN "deliver" ELSE "evict", !.over = V]
            \in ReqState
      BY DEF TypeOK, ReqState, Pcs
    <3> QED
      BY <2>1, <3>1 DEF TypeOK
  <2>3. ReqShape'
    BY <1>1, <2>1 DEF ReadActive, TypeOK, ReqState, ReqShape, HasToken
  <2> QED
    BY <1>1, <2>2, <2>3 DEF ReadActive, TypeOK, browser
<1>2. CASE Evict(r)
  <2>1. req' \in [Reqs -> ReqState]
    <3>1. [req[r] EXCEPT !.pc = "deliver", !.over = {}] \in ReqState
      BY DEF TypeOK, ReqState, Pcs
    <3> QED
      BY <1>2, <3>1 DEF Evict, TypeOK
  <2>2. ReqShape'
    BY <1>2 DEF Evict, TypeOK, ReqState, ReqShape, HasToken
  <2>3. row' \in [Sids -> SessionRow]
    BY <1>2, DeactivateType DEF Evict, TypeOK
  <2> QED
    BY <1>2, <2>1, <2>2, <2>3 DEF Evict, TypeOK, browser
<1>3. CASE Deliver(r)
  <2>1. jar' \in [Sids -> Tokens \cup {None}]
    BY <1>3 DEF Deliver, TypeOK, ReqShape, HasToken
  <2>2. req' \in [Reqs -> ReqState] /\ ReqShape'
    BY <1>0, <1>3, AnswerReq DEF Deliver, TypeOK, ReqShape, Idle, HasToken
  <2> QED
    BY <1>3, <2>1, <2>2 DEF Deliver, TypeOK
<1>4. CASE LookupToken(r)
  <2>1. Goto(r, "renew") \/ Goto(r, "refused")
    BY <1>4 DEF LookupToken
  <2>2. req' \in [Reqs -> ReqState] /\ ReqShape'
    BY <1>4, <2>1, GotoReq DEF LookupToken, TypeOK, ReqShape, HasToken, Pcs
  <2> QED
    BY <1>4, <2>2 DEF LookupToken, TypeOK, browser
<1>5. CASE Renew(r)
  <2> DEFINE s == req[r].sid
  <2>1. PICK t \in Tokens \ minted :
          /\ row' = [row EXCEPT ![s] = [@ EXCEPT !.hash = t, !.lapsed = FALSE,
                                                !.seen = clock]]
          /\ minted' = minted \cup {t}
          /\ req' = [req EXCEPT ![r] = [@ EXCEPT !.pc = "deliver", !.tok = t]]
    BY <1>5 DEF Renew
  <2>0. s \in Sids /\ req[r].tok \in Tokens
    BY <1>5 DEF Renew, ReqShape, HasToken
  <2>2. row' \in [Sids -> SessionRow]
    <3>1. [row[s] EXCEPT !.hash = t, !.lapsed = FALSE, !.seen = clock] \in SessionRow
      <4>1. row[s] \in SessionRow
        BY <2>0 DEF TypeOK
      <4> QED
        BY <1>0, <4>1, RenewedRow
    <3> QED
      BY <2>1, <3>1 DEF TypeOK
  <2>3. req' \in [Reqs -> ReqState]
    <3>1. [req[r] EXCEPT !.pc = "deliver", !.tok = t] \in ReqState
      BY DEF TypeOK, ReqState, Pcs
    <3> QED
      BY <2>1, <3>1 DEF TypeOK
  <2>4. ReqShape'
    BY <1>5, <2>1 DEF Renew, TypeOK, ReqState, ReqShape, HasToken
  <2>5. spent' \in [Tokens -> 0..2]
    <3>1. (IF spent[req[r].tok] = 2 THEN 2 ELSE spent[req[r].tok] + 1) \in 0..2
      BY <2>0 DEF TypeOK
    <3> QED
      BY <1>5, <3>1 DEF Renew, TypeOK
  <2> QED
    BY <1>5, <2>1, <2>2, <2>3, <2>4, <2>5 DEF Renew, TypeOK
<1>6. CASE Refuse(r)
  <2>1. jar' \in [Sids -> Tokens \cup {None}]
    BY <1>6 DEF Refuse, TypeOK
  <2>2. req' \in [Reqs -> ReqState] /\ ReqShape'
    BY <1>0, <1>6, AnswerReq DEF Refuse, TypeOK, ReqShape, Idle, HasToken
  <2> QED
    BY <1>6, <2>1, <2>2 DEF Refuse, TypeOK
<1>7. CASE Touch(r) \/ TimeOut(r)
  <2>1. row' \in [Sids -> SessionRow]
    <3>1. CASE Touch(r)
      <4>1. req[r].at \in 0..MaxClock
        BY DEF TypeOK, ReqState
      <4>2. row' = [row EXCEPT ![req[r].sid].seen = req[r].at]
        BY <3>1 DEF Touch
      <4> QED
        BY <4>1, <4>2 DEF TypeOK, SessionRow
    <3>2. CASE TimeOut(r)
      BY <3>2, DeactivateType DEF TimeOut, TypeOK
    <3> QED
      BY <1>7, <3>1, <3>2
  <2>2. req' \in [Reqs -> ReqState] /\ ReqShape'
    BY <1>0, <1>7, AnswerReq DEF Touch, TimeOut, TypeOK, ReqShape, Idle, HasToken
  <2> QED
    BY <1>7, <2>1, <2>2 DEF Touch, TimeOut, TypeOK, browser
<1> QED
  BY <1>1, <1>2, <1>3, <1>4, <1>5, <1>6, <1>7 DEF Step

LEMMA TypedNext == Typed /\ [Next]_vars => Typed'
<1> SUFFICES ASSUME Typed, [Next]_vars PROVE Typed'
  OBVIOUS
<1> USE DEF Typed
<1>0. 0 \in 0..MaxClock /\ clock \in 0..MaxClock
  BY ConstAssumption DEF TypeOK
<1>1. CASE UNCHANGED vars
  BY <1>1 DEF TypeOK, ReqShape, vars
<1>2. ASSUME NEW r \in Reqs, Fail(r) PROVE Typed'
  <2>1. faults' \in 0..MaxFaults
    BY <1>2, ConstAssumption DEF Fail, TypeOK
  <2>2. req' \in [Reqs -> ReqState] /\ ReqShape'
    <3>1. CASE Goto(r, "refused")
      BY <1>2, <3>1, GotoReq DEF Fail, TypeOK, ReqShape, HasToken, Pcs
    <3>2. CASE Answer(r)
      BY <1>0, <3>2, AnswerReq DEF TypeOK, ReqShape, Idle, HasToken
    <3> QED
      BY <1>2, <3>1, <3>2 DEF Fail
  <2>3. torn' \subseteq Sids
    BY <1>2 DEF Fail, TypeOK
  <2> QED
    BY <1>2, <2>1, <2>2, <2>3 DEF Fail, TypeOK
<1>3. ASSUME NEW s \in Sids, RevokeSessionById(s) PROVE Typed'
  <2>1. row' \in [Sids -> SessionRow]
    <3>1. [row[s] EXCEPT !.st = "revoked", !.hash = None] \in SessionRow
      BY DEF TypeOK, SessionRow
    <3> QED
      BY <1>3, <3>1 DEF RevokeSessionById, TypeOK
  <2>2. jar' \in [Sids -> Tokens \cup {None}]
    BY <1>3 DEF RevokeSessionById, TypeOK
  <2> QED
    BY <1>3, <2>1, <2>2 DEF RevokeSessionById, TypeOK, ReqShape
<1>4. ASSUME NEW s \in Sids, RevokeOtherSessions(s) \/ RevokeElsewhere(s) PROVE Typed'
  <2>1. row' \in [Sids -> SessionRow]
    BY <1>4, DeactivateType DEF RevokeOtherSessions, RevokeElsewhere, TypeOK
  <2> QED
    BY <1>4, <2>1 DEF RevokeOtherSessions, RevokeElsewhere, TypeOK, ReqShape, browser
<1>5. ASSUME NEW s \in Sids, Lapse(s) PROVE Typed'
  <2>1. row' \in [Sids -> SessionRow]
    BY <1>5 DEF Lapse, TypeOK, SessionRow
  <2> QED
    BY <1>5, <2>1 DEF Lapse, TypeOK, ReqShape, browser
<1>6. ASSUME NEW s \in Sids, RejectRow(s) PROVE Typed'
  BY <1>1, <1>6 DEF RejectRow
<1>7. CASE Tick
  BY <1>7, ConstAssumption DEF Tick, TypeOK, ReqShape, browser
<1> QED
  BY <1>1, <1>2, <1>3, <1>4, <1>5, <1>6, <1>7, TypedArrive, TypedStep
     DEF Next, Environment

\* Rows, cookies and the locals of every request keep their types.
THEOREM SessionsTypeCorrect == Spec => []TypeOK
<1>1. Typed => TypeOK
  BY DEF Typed
<1> QED
  BY <1>1, TypedInit, TypedNext, PTL DEF Spec

-------------------------------------------------------------------------------
(* A revoked session stays revoked *)

Revoked(s) == row[s].st = "revoked"

LEMMA RevokedStays ==
    ASSUME Typed, [Next]_vars, NEW s \in Sids, Revoked(s) PROVE Revoked(s)'
<1> USE DEF Typed, TypeOK, Revoked
<1>1. CASE UNCHANGED row
  BY <1>1
<1>2. ASSUME NEW r \in Reqs, CreateRow(r) PROVE Revoked(s)'
  <2>1. PICK z \in Sids : row[z].st = "absent" /\ \A y \in Sids \ {z} : row'[y] = row[y]
    BY <1>2 DEF CreateRow
  <2> QED
    BY <2>1
<1>3. ASSUME NEW r \in Reqs, Renew(r) PROVE Revoked(s)'
  <2>1. row'[s].st = row[s].st
    BY <1>3 DEF Renew, SessionRow
  <2> QED
    BY <2>1
<1>4. ASSUME NEW r \in Reqs, Touch(r) PROVE Revoked(s)'
  BY <1>4 DEF Touch, SessionRow
<1>5. ASSUME NEW S, DeactivateRows(S) PROVE Revoked(s)'
  BY <1>5, DeactivateType
<1>6. ASSUME NEW r \in Reqs, Step(r) PROVE Revoked(s)'
  <2>1. CASE ReadActive(r) \/ Deliver(r) \/ LookupToken(r) \/ Refuse(r)
    BY <1>1, <2>1 DEF ReadActive, Deliver, LookupToken, Refuse
  <2>2. CASE Evict(r) \/ TimeOut(r)
    BY <1>5, <2>2 DEF Evict, TimeOut
  <2> QED
    BY <1>3, <1>4, <1>6, <2>1, <2>2 DEF Step
<1>7. ASSUME NEW r \in Reqs, Arrive(r) PROVE Revoked(s)'
  <2>1. ASSUME NEW z \in Sids, PresentCookie(r, z) \/ ReadRow(r, z) PROVE Revoked(s)'
    BY <1>1, <2>1 DEF PresentCookie, ReadRow
  <2> QED
    BY <1>2, <1>7, <2>1 DEF Arrive
<1>8. CASE Environment
  <2>1. ASSUME NEW z \in Sids, RevokeSessionById(z) PROVE Revoked(s)'
    <3>1. row' = [row EXCEPT ![z] = [@ EXCEPT !.st = "revoked", !.hash = None]]
      BY <2>1 DEF RevokeSessionById
    <3> QED
      BY <3>1 DEF SessionRow
  <2>2. ASSUME NEW z \in Sids, RevokeOtherSessions(z) \/ RevokeElsewhere(z)
        PROVE  Revoked(s)'
    BY <1>5, <2>2 DEF RevokeOtherSessions, RevokeElsewhere
  <2>3. ASSUME NEW z \in Sids, Lapse(z) PROVE Revoked(s)'
    BY <2>3 DEF Lapse, SessionRow
  <2>4. ASSUME NEW z \in Sids, RejectRow(z) PROVE Revoked(s)'
    BY <1>1, <2>4 DEF RejectRow, vars
  <2>5. CASE Tick
    BY <1>1, <2>5 DEF Tick
  <2> QED
    BY <1>8, <2>1, <2>2, <2>3, <2>4, <2>5 DEF Environment
<1>9. ASSUME NEW r \in Reqs, Fail(r) PROVE Revoked(s)'
  BY <1>1, <1>9 DEF Fail
<1>10. CASE UNCHANGED vars
  BY <1>1, <1>10 DEF vars
<1> QED
  BY <1>6, <1>7, <1>8, <1>9, <1>10 DEF Next

\* Whatever a renewal, a touch or the cap still writes into the row of a session
\* that was revoked, the session does not become active again.
THEOREM RevokedForGood == Spec => RevocationIsFinal
<1>1. Typed /\ [Next]_vars =>
        [\A s \in Sids : row[s].st = "revoked" => row'[s].st = "revoked"]_vars
  BY RevokedStays DEF Revoked
<1> QED
  BY <1>1, TypedInit, TypedNext, PTL DEF Spec, RevocationIsFinal

-------------------------------------------------------------------------------
(* Nothing is renewed after its revocation *)

\* Where a refresh token is known: the row, the cookie, a request.
Has(s, t) ==
    \/ row[s].hash = t
    \/ jar[s] = t
    \/ \E r \in Reqs : req[r].sid = s /\ req[r].tok = t

\* A refresh token belongs to one session, whose row is the only one the lookup of
\* its hash can find.
OwnInv ==
    \A t \in Tokens, s \in Sids : Has(s, t) =>
       /\ t \in minted
       /\ \A z \in Sids : Has(z, t) => z = s

LateInv ==
    \A r \in Reqs : req[r].late =>
       req[r].pc \in {"lookup", "refused"} /\ Revoked(req[r].sid)

RenewInv == OwnInv /\ LateInv

LEMMA RenewInit == Init => RenewInv
BY ConstAssumption DEF Init, RenewInv, OwnInv, LateInv, Has, NoRow, Idle

\* A step that moves tokens around, and one that mints one.
LEMMA OwnMoves ==
    ASSUME OwnInv, UNCHANGED minted,
           \A s \in Sids, t \in Tokens : Has(s, t)' => Has(s, t)
    PROVE  OwnInv'
BY DEF OwnInv

LEMMA OwnMints ==
    ASSUME OwnInv, NEW z \in Sids, NEW n \in Tokens \ minted, minted' = minted \cup {n},
           \A s \in Sids, t \in Tokens : Has(s, t)' => Has(s, t) \/ (s = z /\ t = n)
    PROVE  OwnInv'
BY DEF OwnInv

LEMMA OwnNext == Typed /\ OwnInv /\ [Next]_vars => OwnInv'
<1> SUFFICES ASSUME Typed, OwnInv, [Next]_vars PROVE OwnInv'
  OBVIOUS
<1> USE DEF Typed, TypeOK
<1>0. 0 \in 0..MaxClock /\ None \notin Tokens
  BY ConstAssumption
<1>1. CASE UNCHANGED vars
  BY <1>1, OwnMoves DEF Has, vars
<1>2. ASSUME NEW r \in Reqs, CreateRow(r) PROVE OwnInv'
  <2>1. PICK s \in Sids, t \in Tokens \ minted :
          /\ row' = [row EXCEPT ![s] = [st |-> "active", hash |-> t, seen |-> clock,
                                        lapsed |-> FALSE]]
          /\ minted' = minted \cup {t}
          /\ req' = [req EXCEPT ![r] = [Idle EXCEPT !.pc = "cap", !.sid = s, !.tok = t]]
          /\ UNCHANGED jar
    BY <1>2 DEF CreateRow
  <2>2. /\ row'[s].hash = t /\ \A z \in Sids \ {s} : row'[z] = row[z]
        /\ req'[r].sid = s /\ req'[r].tok = t /\ \A q \in Reqs \ {r} : req'[q] = req[q]
    BY <2>1 DEF Idle
  <2> QED
    BY <2>1, <2>2, OwnMints DEF Has
<1>3. ASSUME NEW r \in Reqs, NEW s \in Sids, PresentCookie(r, s) PROVE OwnInv'
  <2>1. /\ UNCHANGED <<row, jar, minted>>
        /\ req'[r].sid = s /\ req'[r].tok = jar[s]
        /\ \A q \in Reqs \ {r} : req'[q] = req[q]
    BY <1>3 DEF PresentCookie, Idle
  <2> QED
    BY <2>1, OwnMoves DEF Has
<1>4. ASSUME NEW r \in Reqs, NEW s \in Sids, ReadRow(r, s) PROVE OwnInv'
  <2>1. /\ UNCHANGED <<row, jar, minted>>
        /\ req'[r].tok = None /\ \A q \in Reqs \ {r} : req'[q] = req[q]
    BY <1>4 DEF ReadRow, Idle, browser
  <2> QED
    BY <1>0, <2>1, OwnMoves DEF Has
<1>5. ASSUME NEW r \in Reqs, UNCHANGED minted,
             \A q \in Reqs \ {r} : req'[q] = req[q],
             req'[r].tok = None \/ (req'[r].tok = req[r].tok /\ req'[r].sid = req[r].sid),
             \A z \in Sids : /\ row'[z].hash \in {row[z].hash, None}
                             /\ jar'[z] \in {jar[z], None}
                                  \/ (jar'[z] = req[r].tok /\ z = req[r].sid)
      PROVE  OwnInv'
  <2> SUFFICES ASSUME NEW z \in Sids, NEW t \in Tokens, Has(z, t)' PROVE Has(z, t)
    BY <1>5, OwnMoves
  <2>1. CASE row'[z].hash = t
    <3>1. row[z].hash = t
      BY <1>0, <1>5, <2>1
    <3> QED
      BY <3>1 DEF Has
  <2>2. CASE jar'[z] = t
    <3>1. jar[z] = t \/ (req[r].tok = t /\ req[r].sid = z)
      BY <1>0, <1>5, <2>2
    <3> QED
      BY <3>1 DEF Has
  <2>3. ASSUME NEW q \in Reqs, req'[q].sid = z, req'[q].tok = t PROVE Has(z, t)
    <3>1. req[q].sid = z /\ req[q].tok = t
      <4>1. CASE q = r
        BY <1>0, <1>5, <2>3, <4>1
      <4>2. CASE q # r
        BY <1>5, <2>3, <4>2
      <4> QED
        BY <4>1, <4>2
    <3> QED
      BY <3>1 DEF Has
  <2> QED
    BY <2>1, <2>2, <2>3 DEF Has
<1>6. ASSUME NEW r \in Reqs, Step(r) \/ Fail(r) PROVE OwnInv'
  <2>1. ASSUME UNCHANGED row, UNCHANGED jar, UNCHANGED minted, NEW pc \in Pcs, Goto(r, pc)
        PROVE  OwnInv'
    BY <1>5, <2>1, GotoReq
  <2>2. ASSUME UNCHANGED minted, Answer(r),
               \A z \in Sids : /\ row'[z].hash \in {row[z].hash, None}
                               /\ jar'[z] \in {jar[z], None}
                                    \/ (jar'[z] = req[r].tok /\ z = req[r].sid)
        PROVE  OwnInv'
    <3>1. /\ req'[r].tok = None /\ \A q \in Reqs \ {r} : req'[q] = req[q]
      BY <1>0, <2>2, AnswerReq DEF Idle
    <3> QED
      BY <1>5, <2>2, <3>1
  <2>3. CASE ReadActive(r) \/ Evict(r)
    <3>1. /\ UNCHANGED <<jar, minted>>
          /\ \A z \in Sids : row'[z].hash = row[z].hash
      BY <2>3, DeactivateType DEF ReadActive, Evict, browser
    <3>2. /\ req'[r].tok = req[r].tok /\ req'[r].sid = req[r].sid
          /\ \A q \in Reqs \ {r} : req'[q] = req[q]
      BY <2>3 DEF ReadActive, Evict, ReqState
    <3> QED
      BY <1>5, <3>1, <3>2
  <2>4. CASE Deliver(r) \/ Refuse(r)
    BY <2>2, <2>4 DEF Deliver, Refuse
  <2>5. CASE LookupToken(r)
    <3>1. UNCHANGED <<row, jar, minted>> /\ (Goto(r, "renew") \/ Goto(r, "refused"))
      BY <2>5 DEF LookupToken, browser
    <3> QED
      BY <2>1, <3>1 DEF Pcs
  <2>6. CASE Renew(r)
    <3> DEFINE s == req[r].sid
    <3>1. PICK t \in Tokens \ minted :
            /\ row' = [row EXCEPT ![s] = [@ EXCEPT !.hash = t, !.lapsed = FALSE,
                                                  !.seen = clock]]
            /\ minted' = minted \cup {t}
            /\ req' = [req EXCEPT ![r] = [@ EXCEPT !.pc = "deliver", !.tok = t]]
            /\ UNCHANGED jar
      BY <2>6 DEF Renew
    <3>2. s \in Sids
      BY <2>6 DEF Renew, ReqShape
    <3>3. /\ row'[s].hash = t /\ \A z \in Sids \ {s} : row'[z] = row[z]
          /\ req'[r].sid = s /\ req'[r].tok = t
          /\ \A q \in Reqs \ {r} : req'[q] = req[q]
      BY <3>1, <3>2 DEF SessionRow, ReqState
    <3> HIDE DEF s
    <3> QED
      BY <3>1, <3>2, <3>3, OwnMints DEF Has
  <2>7. CASE Touch(r) \/ TimeOut(r)
    <3>1. UNCHANGED <<jar, minted>> /\ Answer(r)
      BY <2>7 DEF Touch, TimeOut, browser
    <3>2. \A z \in Sids : row'[z].hash = row[z].hash
      BY <2>7, DeactivateType DEF Touch, TimeOut, SessionRow
    <3> QED
      BY <2>2, <3>1, <3>2
  <2>8. CASE Fail(r)
    <3>1. UNCHANGED <<row, jar, minted>> /\ (Goto(r, "refused") \/ Answer(r))
      BY <2>8 DEF Fail
    <3> QED
      BY <2>1, <2>2, <3>1 DEF Pcs
  <2> QED
    BY <1>6, <2>3, <2>4, <2>5, <2>6, <2>7, <2>8 DEF Step
<1>7. CASE Environment
  <2>1. ASSUME UNCHANGED <<req, minted>>,
               \A z \in Sids : /\ row'[z].hash \in {row[z].hash, None}
                               /\ jar'[z] \in {jar[z], None}
        PROVE  OwnInv'
    BY <1>0, <2>1, OwnMoves DEF Has
  <2>2. ASSUME NEW s \in Sids, RevokeSessionById(s) PROVE OwnInv'
    <3>1. /\ row' = [row EXCEPT ![s] = [@ EXCEPT !.st = "revoked", !.hash = None]]
          /\ jar' \in {jar, [jar EXCEPT ![s] = None]}
          /\ UNCHANGED <<req, minted>>
      BY <2>2 DEF RevokeSessionById
    <3>2. \A z \in Sids : row'[z].hash \in {row[z].hash, None}
      BY <3>1 DEF SessionRow
    <3>3. \A z \in Sids : jar'[z] \in {jar[z], None}
      BY <3>1
    <3> QED
      BY <2>1, <3>1, <3>2, <3>3
  <2>3. ASSUME NEW s \in Sids, RevokeOtherSessions(s) \/ RevokeElsewhere(s) PROVE OwnInv'
    <3>1. \A z \in Sids : row'[z].hash = row[z].hash
      BY <2>3, DeactivateType DEF RevokeOtherSessions, RevokeElsewhere
    <3> QED
      BY <2>1, <2>3, <3>1 DEF RevokeOtherSessions, RevokeElsewhere, browser
  <2>4. ASSUME NEW s \in Sids, Lapse(s) PROVE OwnInv'
    <3>1. \A z \in Sids : row'[z].hash = row[z].hash
      BY <2>4 DEF Lapse, SessionRow
    <3> QED
      BY <2>1, <2>4, <3>1 DEF Lapse, browser
  <2>5. ASSUME NEW s \in Sids, RejectRow(s) PROVE OwnInv'
    BY <1>1, <2>5 DEF RejectRow
  <2>6. CASE Tick
    BY <2>1, <2>6 DEF Tick, browser
  <2> QED
    BY <1>7, <2>2, <2>3, <2>4, <2>5, <2>6 DEF Environment
<1> QED
  BY <1>1, <1>2, <1>3, <1>4, <1>6, <1>7 DEF Next, Arrive

LEMMA LateNext == Typed /\ RenewInv /\ [Next]_vars => LateInv'
<1> SUFFICES ASSUME Typed, RenewInv, [Next]_vars PROVE LateInv'
  OBVIOUS
<1> USE DEF Typed, TypeOK, RenewInv
<1>0. 0 \in 0..MaxClock
  BY ConstAssumption
<1>1. \A s \in Sids : Revoked(s) => Revoked(s)'
  BY RevokedStays
<1>2. \A q \in Reqs : req[q].late => req[q].sid \in Sids
  BY DEF LateInv, ReqShape
<1>3. ASSUME UNCHANGED req PROVE LateInv'
  BY <1>1, <1>2, <1>3 DEF LateInv
<1>4. ASSUME NEW r \in Reqs, \A q \in Reqs \ {r} : req'[q] = req[q],
             req'[r].late => /\ req'[r].pc \in {"lookup", "refused"}
                             /\ row'[req'[r].sid].st = "revoked"
      PROVE  LateInv'
  <2> SUFFICES ASSUME NEW q \in Reqs, req'[q].late
               PROVE  /\ req'[q].pc \in {"lookup", "refused"}
                      /\ row'[req'[q].sid].st = "revoked"
    BY DEF LateInv, Revoked
  <2>1. CASE q = r
    BY <1>4, <2>1
  <2>2. CASE q # r
    <3>1. req'[q] = req[q]
      BY <1>4, <2>2
    <3> QED
      BY <1>1, <1>2, <3>1 DEF LateInv, Revoked
  <2> QED
    BY <2>1, <2>2
<1>5. ASSUME NEW r \in Reqs, Answer(r) PROVE LateInv'
  BY <1>0, <1>4, <1>5, AnswerReq DEF Idle
<1>6. ASSUME NEW r \in Reqs, Goto(r, "refused") PROVE LateInv'
  BY <1>1, <1>2, <1>4, <1>6, GotoReq DEF LateInv, Pcs
<1>7. ASSUME NEW r \in Reqs, Arrive(r) PROVE LateInv'
  <2>1. CASE CreateRow(r)
    <3>1. ~req'[r].late /\ \A q \in Reqs \ {r} : req'[q] = req[q]
      BY <2>1 DEF CreateRow, Idle
    <3> QED
      BY <1>4, <3>1
  <2>2. ASSUME NEW s \in Sids, PresentCookie(r, s) PROVE LateInv'
    <3>1. /\ req'[r].pc = "lookup" /\ req'[r].sid = s
          /\ req'[r].late => Revoked(s)
          /\ \A q \in Reqs \ {r} : req'[q] = req[q]
      BY <2>2 DEF PresentCookie, Idle, Revoked
    <3> QED
      BY <1>1, <1>4, <3>1 DEF Revoked
  <2>3. ASSUME NEW s \in Sids, ReadRow(r, s) PROVE LateInv'
    <3>1. ~req'[r].late /\ \A q \in Reqs \ {r} : req'[q] = req[q]
      BY <2>3 DEF ReadRow, Idle
    <3> QED
      BY <1>4, <3>1
  <2> QED
    BY <1>7, <2>1, <2>2, <2>3 DEF Arrive
<1>8. ASSUME NEW r \in Reqs, ~req[r].late, \A q \in Reqs \ {r} : req'[q] = req[q],
             req'[r].late = req[r].late
      PROVE  LateInv'
  BY <1>4, <1>8
<1>9. ASSUME NEW r \in Reqs, Step(r) PROVE LateInv'
  <2>1. CASE ReadActive(r) \/ Evict(r) \/ Renew(r)
    <3>1. ~req[r].late
      BY <2>1 DEF ReadActive, Evict, Renew, LateInv
    <3>2. CASE ReadActive(r)
      <4>1. req'[r].late = req[r].late /\ \A q \in Reqs \ {r} : req'[q] = req[q]
        BY <3>2 DEF ReadActive, ReqState
      <4> QED
        BY <1>8, <3>1, <4>1
    <3>3. CASE Evict(r)
      <4>1. req'[r].late = req[r].late /\ \A q \in Reqs \ {r} : req'[q] = req[q]
        BY <3>3 DEF Evict, ReqState
      <4> QED
        BY <1>8, <3>1, <4>1
    <3>4. CASE Renew(r)
      <4>1. req'[r].late = req[r].late /\ \A q \in Reqs \ {r} : req'[q] = req[q]
        BY <3>4 DEF Renew, ReqState
      <4> QED
        BY <1>8, <3>1, <4>1
    <3> QED
      BY <2>1, <3>2, <3>3, <3>4
  <2>2. CASE Deliver(r) \/ Refuse(r) \/ Touch(r) \/ TimeOut(r)
    BY <1>5, <2>2 DEF Deliver, Refuse, Touch, TimeOut
  <2>3. CASE LookupToken(r)
    <3>1. CASE Goto(r, "refused")
      BY <1>6, <3>1
    <3>2. CASE Goto(r, "renew") /\ \E s \in Sids : row[s].hash = req[r].tok /\ Usable(s)
      <4>1. PICK s \in Sids : row[s].hash = req[r].tok /\ row[s].st = "active"
        BY <3>2 DEF Usable
      <4>2. req[r].tok \in Tokens /\ req[r].sid \in Sids
        BY <2>3 DEF LookupToken, ReqShape, HasToken
      <4>3. Has(s, req[r].tok) /\ Has(req[r].sid, req[r].tok)
        BY <4>1 DEF Has
      <4>4. s = req[r].sid
        BY <4>2, <4>3 DEF OwnInv
      <4>5. ~req[r].late
        BY <4>1, <4>4 DEF LateInv, Revoked
      <4> QED
        BY <1>8, <3>2, <4>5, GotoReq DEF Pcs
    <3> QED
      BY <2>3, <3>1, <3>2 DEF LookupToken
  <2> QED
    BY <1>9, <2>1, <2>2, <2>3 DEF Step
<1>10. ASSUME NEW r \in Reqs, Fail(r) PROVE LateInv'
  BY <1>5, <1>6, <1>10 DEF Fail
<1>11. CASE Environment \/ UNCHANGED vars
  BY <1>3, <1>11 DEF Environment, RevokeSessionById, RevokeOtherSessions, RevokeElsewhere,
                     Lapse, RejectRow, Tick, vars
<1> QED
  BY <1>7, <1>9, <1>10, <1>11 DEF Next

\* A renewal that is sent after its session was revoked mints nothing, although most
\* revocations leave the refresh hash in the row.
THEOREM RevokedSessionsRenewNothing == Spec => []NoRenewalAfterRevocation
<1>1. RenewInv => NoRenewalAfterRevocation
  BY DEF RenewInv, LateInv, NoRenewalAfterRevocation
<1>2. Typed /\ RenewInv /\ [Next]_vars => RenewInv'
  BY OwnNext, LateNext DEF RenewInv
<1> QED
  BY <1>1, <1>2, TypedInit, TypedNext, RenewInit, PTL DEF Spec

-------------------------------------------------------------------------------
(* The cap on concurrent sessions *)

\* Unless a request failed, whoever may have pushed the number of active sessions past
\* the cap is still on its way to revoke the surplus: a sign-in that has not read the
\* rows yet reads them as they will be then, and one that has read them keeps in its
\* list enough of the rows that are active.
CapInv ==
    /\ IsFiniteSet(Active)
    /\ faults = 0 => \/ Cardinality(Active) <= Cap
                     \/ \E r \in Reqs : req[r].pc = "cap"
                     \/ \E r \in Reqs : /\ req[r].pc = "evict"
                                        /\ Cardinality(Active \ req[r].over) <= Cap

LEMMA CapShrinks ==
    ASSUME CapInv, Active' \subseteq Active,
           faults' = 0 => faults = 0,
           \A q \in Reqs : req[q].pc \in {"cap", "evict"}
                             => req'[q].pc = req[q].pc /\ req'[q].over = req[q].over
    PROVE  CapInv'
<1> USE DEF CapInv
<1>1. IsFiniteSet(Active')
  BY FS_Subset
<1>2. \A V : /\ IsFiniteSet(Active \ V)
             /\ Cardinality(Active' \ V) \in Nat /\ Cardinality(Active \ V) \in Nat
             /\ Cardinality(Active' \ V) <= Cardinality(Active \ V)
  <2> TAKE V
  <2>1. IsFiniteSet(Active \ V)
    BY FS_Subset
  <2>2. Active' \ V \subseteq Active \ V
    OBVIOUS
  <2>3. IsFiniteSet(Active' \ V)
    BY <2>1, <2>2, FS_Subset
  <2> QED
    BY <2>1, <2>2, <2>3, FS_Subset, FS_CardinalityType
<1>3. /\ Cardinality(Active') \in Nat /\ Cardinality(Active) \in Nat
      /\ Cardinality(Active') <= Cardinality(Active)
  BY <1>1, FS_Subset, FS_CardinalityType
<1>4. Cap \in Nat
  BY ConstAssumption
<1>5. ASSUME NEW q \in Reqs, req[q].pc = "evict", Cardinality(Active \ req[q].over) <= Cap
      PROVE  req'[q].pc = "evict" /\ Cardinality(Active' \ req'[q].over) <= Cap
  <2>1. req'[q].pc = "evict" /\ req'[q].over = req[q].over
    BY <1>5
  <2>2. PICK V : V = req[q].over
    OBVIOUS
  <2>3. /\ Cardinality(Active' \ V) \in Nat /\ Cardinality(Active \ V) \in Nat
        /\ Cardinality(Active' \ V) <= Cardinality(Active \ V)
    BY <1>2
  <2>4. Cardinality(Active \ V) <= Cap
    BY <1>5, <2>2
  <2>5. Cardinality(Active' \ V) <= Cap
    BY <1>4, <2>3, <2>4
  <2> QED
    BY <2>1, <2>2, <2>5
<1>6. Cardinality(Active) <= Cap => Cardinality(Active') <= Cap
  BY <1>3, <1>4
<1> QED
  BY <1>1, <1>5, <1>6

LEMMA CapNext == Typed /\ CapInv /\ [Next]_vars => CapInv'
<1> SUFFICES ASSUME Typed, CapInv, [Next]_vars PROVE CapInv'
  OBVIOUS
<1> USE DEF Typed, TypeOK
<1>0. Cap \in Nat /\ 0 \in 0..MaxClock
  BY ConstAssumption
\* A step of one request that waits for nothing the cap is about.
<1>1. ASSUME NEW r \in Reqs, req[r].pc \notin {"cap", "evict"},
             \A q \in Reqs \ {r} : req'[q] = req[q],
             \A s \in Sids : row'[s].st = "active" => row[s].st = "active",
             faults' = 0 => faults = 0
      PROVE  CapInv'
  <2>1. Active' \subseteq Active
    BY <1>1 DEF Active
  <2> QED
    BY <1>1, <2>1, CapShrinks
<1>2. ASSUME NEW r \in Reqs, Arrive(r) PROVE CapInv'
  <2>1. CASE CreateRow(r)
    <3>1. PICK s \in Sids :
            /\ row'[s].st = "active" /\ \A z \in Sids \ {s} : row'[z] = row[z]
            /\ req'[r].pc = "cap"
      BY <2>1 DEF CreateRow, Idle
    <3>2. Active' = Active \cup {s}
      BY <3>1 DEF Active
    <3> QED
      BY <3>1, <3>2, FS_AddElement DEF CapInv
  <2>2. ASSUME NEW s \in Sids, PresentCookie(r, s) \/ ReadRow(r, s) PROVE CapInv'
    BY <1>1, <2>2 DEF PresentCookie, ReadRow
  <2> QED
    BY <1>2, <2>1, <2>2 DEF Arrive
<1>3. ASSUME NEW r \in Reqs, Step(r) PROVE CapInv'
  <2>1. CASE ReadActive(r)
    <3>1. PICK V \in SUBSET Sids :
            /\ OverCap(V)
            /\ req'[r].pc = IF V = {} THEN "deliver" ELSE "evict"
            /\ req'[r].over = V
      BY <2>1 DEF ReadActive, ReqState
    <3>2. Active' = Active
      BY <2>1 DEF ReadActive, Active
    <3>3. IsFiniteSet(Active) /\ Cardinality(Active) \in Nat
      BY FS_CardinalityType DEF CapInv
    <3>4. CASE V = {}
      <4>1. Cardinality(Active) <= Cap
        BY <1>0, <3>1, <3>3, <3>4, FS_EmptySet DEF OverCap
      <4> QED
        BY <3>2, <3>3, <4>1 DEF CapInv
    <3>5. CASE V # {}
      <4>1. V \subseteq Active /\ IsFiniteSet(V) /\ Cardinality(V) # 0
        BY <3>1, <3>3, <3>5, FS_Subset, FS_EmptySet DEF OverCap
      <4>2. Cardinality(V) = Cardinality(Active) - Cap
        BY <3>1, <4>1 DEF OverCap
      <4>3. Cardinality(Active \ V) = Cardinality(Active) - Cardinality(Active \cap V)
        BY <3>3, <4>1, FS_Difference
      <4>4. Active \cap V = V
        BY <4>1
      <4>5. Cardinality(Active \ V) <= Cap
        BY <1>0, <3>3, <4>2, <4>3, <4>4
      <4> QED
        BY <3>1, <3>2, <3>3, <3>5, <4>5 DEF CapInv
    <3> QED
      BY <3>4, <3>5
  <2>2. CASE Evict(r)
    <3>1. /\ Active' = Active \ req[r].over
          /\ faults' = faults
          /\ \A q \in Reqs \ {r} : req'[q] = req[q]
      BY <2>2 DEF Evict, DeactivateRows, Active, SessionRow
    <3>2. req[r].pc = "evict"
      BY <2>2 DEF Evict
    <3>3. ASSUME NEW q \in Reqs, Cardinality(Active \ req[q].over) <= Cap
          PROVE  Cardinality(Active' \ req[q].over) <= Cap
      <4>1. /\ IsFiniteSet(Active \ req[q].over)
            /\ Active' \ req[q].over \subseteq Active \ req[q].over
        BY <3>1, FS_Subset DEF CapInv
      <4>2. /\ Cardinality(Active' \ req[q].over) <= Cardinality(Active \ req[q].over)
            /\ Cardinality(Active' \ req[q].over) \in Nat
            /\ Cardinality(Active \ req[q].over) \in Nat
        BY <4>1, FS_Subset, FS_CardinalityType
      <4> QED
        BY <1>0, <3>3, <4>2
    <3>4. /\ IsFiniteSet(Active')
          /\ Cardinality(Active) <= Cap => Cardinality(Active') <= Cap
      <4>1. IsFiniteSet(Active') /\ Cardinality(Active') <= Cardinality(Active)
        BY <3>1, FS_Subset DEF CapInv
      <4> QED
        BY <1>0, <4>1, FS_CardinalityType DEF CapInv
    <3>5. CASE \E q \in Reqs : req[q].pc = "cap"
      BY <3>1, <3>2, <3>4, <3>5 DEF CapInv
    <3>6. CASE \E q \in Reqs : /\ req[q].pc = "evict"
                               /\ Cardinality(Active \ req[q].over) <= Cap
      <4>1. PICK q \in Reqs : /\ req[q].pc = "evict"
                              /\ Cardinality(Active \ req[q].over) <= Cap
        BY <3>6
      <4>2. CASE q = r
        BY <3>1, <3>4, <4>1, <4>2 DEF CapInv
      <4>3. CASE q # r
        BY <3>1, <3>3, <3>4, <4>1, <4>3 DEF CapInv
      <4> QED
        BY <4>2, <4>3
    <3> QED
      BY <3>1, <3>4, <3>5, <3>6 DEF CapInv
  <2>3. CASE Deliver(r) \/ Refuse(r)
    BY <1>0, <1>1, <2>3, AnswerReq DEF Deliver, Refuse
  <2>4. CASE LookupToken(r)
    <3>1. \A q \in Reqs \ {r} : req'[q] = req[q]
      BY <2>4, GotoReq DEF LookupToken, Pcs
    <3> QED
      BY <1>1, <2>4, <3>1 DEF LookupToken
  <2>5. CASE Renew(r)
    <3>1. \A s \in Sids : row'[s].st = row[s].st
      BY <2>5 DEF Renew, SessionRow
    <3> QED
      BY <1>1, <2>5, <3>1 DEF Renew
  <2>6. CASE Touch(r)
    <3>1. \A s \in Sids : row'[s].st = row[s].st
      BY <2>6 DEF Touch, SessionRow
    <3> QED
      BY <1>0, <1>1, <2>6, <3>1, AnswerReq DEF Touch
  <2>7. CASE TimeOut(r)
    <3>1. \A s \in Sids : row'[s].st = "active" => row[s].st = "active"
      BY <2>7 DEF TimeOut, DeactivateRows, SessionRow
    <3> QED
      BY <1>0, <1>1, <2>7, <3>1, AnswerReq DEF TimeOut
  <2> QED
    BY <1>3, <2>1, <2>2, <2>3, <2>4, <2>5, <2>6, <2>7 DEF Step
<1>4. ASSUME NEW r \in Reqs, Fail(r) PROVE CapInv'
  <2>1. /\ \A q \in Reqs \ {r} : req'[q] = req[q]
        /\ UNCHANGED row
    BY <1>0, <1>4, AnswerReq, GotoReq DEF Fail, Pcs
  <2>2. faults' # 0 \/ (faults' = faults /\ req[r].pc = "renew")
    BY <1>4 DEF Fail
  <2>3. CASE faults' # 0
    BY <2>1, <2>3 DEF CapInv, Active
  <2> QED
    BY <1>1, <2>1, <2>2, <2>3
<1>5. CASE Environment \/ UNCHANGED vars
  <2>1. UNCHANGED <<req, faults>>
    BY <1>5 DEF Environment, RevokeSessionById, RevokeOtherSessions, RevokeElsewhere,
                Lapse, RejectRow, Tick, vars
  <2>2. \A s \in Sids : row'[s].st = "active" => row[s].st = "active"
    <3>1. ASSUME UNCHANGED row PROVE \A s \in Sids : row'[s].st = row[s].st
      BY <3>1
    <3>2. ASSUME NEW S, DeactivateRows(S)
          PROVE  \A s \in Sids : row'[s].st = "active" => row[s].st = "active"
      BY <3>2 DEF DeactivateRows, SessionRow
    <3>3. ASSUME NEW z \in Sids, RevokeSessionById(z) \/ Lapse(z)
          PROVE  \A s \in Sids : row'[s].st = "active" => row[s].st = "active"
      BY <3>3 DEF RevokeSessionById, Lapse, SessionRow
    <3> QED
      BY <1>5, <3>1, <3>2, <3>3 DEF Environment, RevokeOtherSessions, RevokeElsewhere,
                                    RejectRow, Tick, vars
  <2>3. Active' \subseteq Active
    BY <2>2 DEF Active
  <2> QED
    BY <2>1, <2>3, CapShrinks
<1> QED
  BY <1>2, <1>3, <1>4, <1>5 DEF Next

\* However sign-ins overlap with each other and with requests that reorder the rows, no
\* more sessions than the cap remain active once the sign-ins have ended without an error.
THEOREM SessionCapHolds == Spec => []CapHolds
<1>1. Init => CapInv
  <2> SUFFICES ASSUME Init PROVE CapInv
    OBVIOUS
  <2>1. Active = {}
    BY DEF Init, NoRow, Active
  <2> QED
    BY <2>1, FS_EmptySet, ConstAssumption DEF CapInv
<1>2. CapInv => CapHolds
  BY DEF CapInv, CapHolds
<1> QED
  BY <1>1, <1>2, TypedInit, TypedNext, CapNext, PTL DEF Spec

-------------------------------------------------------------------------------
(* The browser and the row of a session hold the same refresh token *)

\* Requests and cookies belong to rows that exist.
Exist ==
    /\ \A r \in Reqs : req[r].pc # "idle" => row[req[r].sid].st # "absent"
    /\ \A s \in Sids : jar[s] # None => row[s].st # "absent"

\* What a request in flight knows of its row, while nobody interferes: the token it will
\* deliver or present is the one in the row, and it is refused for a reason.
HoldsToken(r) ==
    LET s == req[r].sid IN
    /\ req[r].pc \in {"cap", "evict", "deliver"} /\ row[s].st = "active"
         => req[r].tok = row[s].hash
    /\ req[r].pc = "lookup" /\ Usable(s) => req[r].tok = row[s].hash
    /\ req[r].pc = "refused" => ~Usable(s)

\* At most one request of session s is in flight, and it knows the row; when none is,
\* the browser knows it.
InStep(s) ==
    /\ \A r, q \in InFlight(s) : r = q
    /\ \A r \in InFlight(s) : HoldsToken(r)
    /\ Usable(s) /\ InFlight(s) = {} => jar[s] = row[s].hash

StepInv == Exist /\ \A s \in Sids \ torn : InStep(s)

\* A step that leaves the requests of s alone, and its row and cookie unless it ends s.
LEMMA InStepKept ==
    ASSUME NEW s \in Sids, InStep(s),
           InFlight(s)' = InFlight(s),
           \A q \in InFlight(s) : req'[q] = req[q],
           row'[s].st = "active" => /\ row[s].st = "active"
                                    /\ row'[s].hash = row[s].hash,
           Usable(s)' => Usable(s) /\ jar'[s] = jar[s]
    PROVE  InStep(s)'
<1>1. ASSUME NEW q \in InFlight(s) PROVE HoldsToken(q)'
  <2>1. HoldsToken(q) /\ req'[q] = req[q] /\ req[q].sid = s
    BY <1>1 DEF InStep, InFlight
  <2> QED
    BY <2>1 DEF HoldsToken, Usable
<1> QED
  BY <1>1 DEF InStep, Usable

\* A step of a request r of session s that stays in flight, or that ends.
LEMMA InStepMoves ==
    ASSUME NEW s \in Sids, NEW r \in InFlight(s), InStep(s),
           \A q \in Reqs \ {r} : req'[q] = req[q],
           \/ /\ r \in InFlight(s)' /\ HoldsToken(r)'
           \/ /\ r \notin InFlight(s)'
              /\ Usable(s)' => jar'[s] = row'[s].hash
    PROVE  InStep(s)'
<1>1. InFlight(s)' \subseteq {r}
  BY DEF InStep, InFlight
<1> QED
  BY <1>1 DEF InStep

\* A step of one request concerns the other sessions in nothing but their end.
LEMMA InStepElsewhere ==
    ASSUME NEW s \in Sids, NEW r \in Reqs, InStep(s),
           r \notin InFlight(s), r \notin InFlight(s)',
           \A q \in Reqs \ {r} : req'[q] = req[q],
           row'[s].st = "active" => /\ row[s].st = "active"
                                    /\ row'[s].hash = row[s].hash,
           Usable(s)' => Usable(s) /\ jar'[s] = jar[s]
    PROVE  InStep(s)'
<1>1. InFlight(s)' = InFlight(s) /\ \A q \in InFlight(s) : req'[q] = req[q]
  BY DEF InFlight
<1> QED
  BY <1>1, InStepKept

\* What a renewal and a touch leave, field by field.
LEMMA RenewFields ==
    ASSUME Typed, NEW r \in Reqs, Renew(r)
    PROVE  /\ req[r].sid \in Sids /\ req'[r].sid = req[r].sid /\ req'[r].pc = "deliver"
           /\ row'[req[r].sid].hash = req'[r].tok
           /\ \A q \in Reqs \ {r} : req'[q] = req[q]
           /\ \A s \in Sids : row'[s].st = row[s].st
           /\ \A s \in Sids : s # req[r].sid => row'[s] = row[s]
<1> USE DEF Typed, TypeOK
<1>1. PICK s \in Sids : s = req[r].sid
  BY DEF Renew, ReqShape
<1>2. PICK t \in Tokens :
        /\ row' = [row EXCEPT ![s] = [@ EXCEPT !.hash = t, !.lapsed = FALSE, !.seen = clock]]
        /\ req' = [req EXCEPT ![r] = [@ EXCEPT !.pc = "deliver", !.tok = t]]
  BY <1>1 DEF Renew
<1>3. /\ req'[r].sid = s /\ req'[r].pc = "deliver" /\ req'[r].tok = t
      /\ \A q \in Reqs \ {r} : req'[q] = req[q]
  BY <1>1, <1>2 DEF ReqState
<1>4. /\ row'[s].hash = t /\ \A z \in Sids : row'[z].st = row[z].st
      /\ \A z \in Sids : z # s => row'[z] = row[z]
  BY <1>2 DEF SessionRow
<1> QED
  BY <1>1, <1>3, <1>4

LEMMA TouchFields ==
    ASSUME Typed, NEW r \in Reqs, Touch(r)
    PROVE  \A s \in Sids : /\ row'[s].st = row[s].st /\ row'[s].hash = row[s].hash
                           /\ row'[s].lapsed = row[s].lapsed
BY DEF Typed, TypeOK, Touch, SessionRow

LEMMA ListFields ==
    ASSUME Typed, NEW r \in Reqs, ReadActive(r) \/ Evict(r)
    PROVE  /\ req'[r].sid = req[r].sid /\ req'[r].tok = req[r].tok
           /\ req'[r].pc \in {"evict", "deliver"}
           /\ \A q \in Reqs \ {r} : req'[q] = req[q]
<1> USE DEF Typed, TypeOK
<1>1. CASE ReadActive(r)
  <2>1. PICK V \in SUBSET Sids :
          req' = [req EXCEPT ![r] = [@ EXCEPT !.pc = IF V = {} THEN "deliver" ELSE "evict",
                                              !.over = V]]
    BY <1>1 DEF ReadActive
  <2> QED
    BY <2>1 DEF ReqState
<1>2. CASE Evict(r)
  BY <1>2 DEF Evict, ReqState
<1> QED
  BY <1>1, <1>2

\* No row disappears, and a cookie or a request comes with its row.
LEMMA ExistNext == Typed /\ Exist /\ [Next]_vars => Exist'
<1> SUFFICES ASSUME Typed, Exist, [Next]_vars PROVE Exist'
  OBVIOUS
<1> USE DEF Typed, TypeOK
<1>0. 0 \in 0..MaxClock
  BY ConstAssumption
<1>1. ASSUME \A s \in Sids : row[s].st # "absent" => row'[s].st # "absent",
             \A s \in Sids : \/ jar'[s] \in {jar[s], None}
                             \/ row'[s].st # "absent",
             \A q \in Reqs : \/ req'[q].pc = "idle"
                             \/ req[q].pc # "idle" /\ req'[q].sid = req[q].sid
                             \/ req'[q].sid \in Sids /\ row'[req'[q].sid].st # "absent"
      PROVE  Exist'
  <2>1. \A s \in Sids : jar'[s] # None => row'[s].st # "absent"
    BY <1>1 DEF Exist
  <2>2. \A q \in Reqs : req[q].pc # "idle" => req[q].sid \in Sids
    BY DEF ReqShape
  <2>3. \A q \in Reqs : req'[q].pc # "idle" => row'[req'[q].sid].st # "absent"
    BY <1>1, <2>2 DEF Exist
  <2> QED
    BY <2>1, <2>3 DEF Exist
<1>2. ASSUME NEW S, DeactivateRows(S)
      PROVE  \A s \in Sids : row[s].st # "absent" => row'[s].st # "absent"
  BY <1>2 DEF DeactivateRows, SessionRow
<1>3. ASSUME NEW r \in Reqs, Arrive(r) PROVE Exist'
  <2>1. CASE CreateRow(r)
    BY <1>1, <2>1 DEF CreateRow, Idle
  <2>2. ASSUME NEW s \in Sids, PresentCookie(r, s) PROVE Exist'
    <3>1. req'[r].sid = s /\ row[s].st # "absent"
      BY <2>2 DEF PresentCookie, Idle, Exist
    <3> QED
      BY <1>1, <2>2, <3>1 DEF PresentCookie
  <2>3. ASSUME NEW s \in Sids, ReadRow(r, s) PROVE Exist'
    <3>1. req'[r].sid = s /\ row[s].st # "absent"
      BY <2>3 DEF ReadRow, Idle, Usable
    <3> QED
      BY <1>1, <2>3, <3>1 DEF ReadRow, browser
  <2> QED
    BY <1>3, <2>1, <2>2, <2>3 DEF Arrive
<1>4. ASSUME NEW r \in Reqs, Step(r) \/ Fail(r) PROVE Exist'
  <2>1. \A q \in Reqs : \/ req'[q].pc = "idle"
                        \/ req[q].pc # "idle" /\ req'[q].sid = req[q].sid
                        \/ req'[q] = req[q]
    <3>1. CASE ReadActive(r) \/ Evict(r) \/ Renew(r)
      BY <3>1, ListFields, RenewFields DEF ReadActive, Evict, Renew
    <3>2. CASE Answer(r)
      BY <1>0, <3>2, AnswerReq DEF Idle
    <3>3. ASSUME NEW pc \in Pcs, Goto(r, pc), req[r].pc # "idle"
          PROVE  \A q \in Reqs : \/ req[q].pc # "idle" /\ req'[q].sid = req[q].sid
                                 \/ req'[q] = req[q]
      BY <3>3, GotoReq
    <3> QED
      BY <1>4, <3>1, <3>2, <3>3 DEF Step, Deliver, LookupToken, Refuse, Touch, TimeOut,
                                    Fail, Pcs
  <2>2. \A s \in Sids : row[s].st # "absent" => row'[s].st # "absent"
    <3>1. CASE Renew(r) \/ Touch(r)
      BY <3>1, RenewFields, TouchFields
    <3> QED
      BY <1>2, <1>4, <3>1 DEF Step, ReadActive, Evict, Deliver, LookupToken, Refuse, TimeOut,
                              Fail
  <2>3. \A s \in Sids : jar'[s] \in {jar[s], None} \/ row'[s].st # "absent"
    <3>1. CASE Deliver(r)
      <4>1. row[req[r].sid].st # "absent" /\ UNCHANGED row
        BY <3>1 DEF Deliver, Exist
      <4> QED
        BY <3>1, <4>1 DEF Deliver
    <3>2. CASE Refuse(r)
      BY <3>2 DEF Refuse
    <3> QED
      BY <1>4, <3>1, <3>2 DEF Step, ReadActive, Evict, LookupToken, Renew, Touch, TimeOut,
                              Fail, browser
  <2>4. \A q \in Reqs : \/ req'[q].pc = "idle"
                        \/ req[q].pc # "idle" /\ req'[q].sid = req[q].sid
    BY <2>1
  <2> QED
    BY <1>1, <2>2, <2>3, <2>4
<1>5. CASE Environment \/ UNCHANGED vars
  <2>1. UNCHANGED req
    BY <1>5 DEF Environment, RevokeSessionById, RevokeOtherSessions, RevokeElsewhere,
                Lapse, RejectRow, Tick, vars
  <2>2. \A s \in Sids : jar'[s] \in {jar[s], None}
    BY <1>5 DEF Environment, RevokeSessionById, RevokeOtherSessions, RevokeElsewhere,
                Lapse, RejectRow, Tick, vars, browser
  <2>3. \A s \in Sids : row[s].st # "absent" => row'[s].st # "absent"
    <3>1. ASSUME NEW z \in Sids, RevokeSessionById(z) \/ Lapse(z)
          PROVE  \A s \in Sids : row[s].st # "absent" => row'[s].st # "absent"
      BY <3>1 DEF RevokeSessionById, Lapse, SessionRow
    <3> QED
      BY <1>2, <1>5, <3>1 DEF Environment, RevokeOtherSessions, RevokeElsewhere,
                              RejectRow, Tick, vars
  <2>4. \A q \in Reqs : \/ req'[q].pc = "idle"
                        \/ req[q].pc # "idle" /\ req'[q].sid = req[q].sid
    BY <2>1
  <2> QED
    BY <1>1, <2>2, <2>3, <2>4
<1> QED
  BY <1>3, <1>4, <1>5 DEF Next

LEMMA StepNext == Typed /\ StepInv /\ [Next]_vars => StepInv'
<1> SUFFICES ASSUME Typed, StepInv, [Next]_vars PROVE StepInv'
  OBVIOUS
<1> USE DEF Typed, TypeOK
<1>0. 0 \in 0..MaxClock
  BY ConstAssumption
<1> SUFFICES ASSUME NEW s \in Sids, s \notin torn' PROVE InStep(s)'
  BY ExistNext DEF StepInv
<1>1. torn \subseteq torn'
  BY DEF Next, Arrive, CreateRow, PresentCookie, ReadRow, Step, ReadActive, Evict, Deliver,
         LookupToken, Renew, Refuse, Touch, TimeOut, Fail, Environment, RevokeSessionById,
         RevokeOtherSessions, RevokeElsewhere, Lapse, RejectRow, Tick, vars, browser
<1>2. InStep(s)
  BY <1>1 DEF StepInv
<1>3. ASSUME NEW S, DeactivateRows(S)
      PROVE  /\ row'[s].st = "active" => row[s].st = "active"
             /\ row'[s].hash = row[s].hash
             /\ Usable(s)' => Usable(s)
  BY <1>3 DEF DeactivateRows, SessionRow, Usable
<1>4. ASSUME NEW r \in Reqs, Arrive(r) PROVE InStep(s)'
  <2>0. r \notin InFlight(s)
    BY <1>4 DEF Arrive, CreateRow, PresentCookie, ReadRow, InFlight
  <2>1. CASE CreateRow(r)
    <3>1. PICK z \in Sids, t \in Tokens :
            /\ row[z].st = "absent"
            /\ row'[z].st = "active" /\ row'[z].hash = t
            /\ \A y \in Sids \ {z} : row'[y] = row[y]
            /\ req'[r].pc = "cap" /\ req'[r].sid = z /\ req'[r].tok = t
            /\ \A q \in Reqs \ {r} : req'[q] = req[q]
            /\ UNCHANGED jar
      BY <2>1 DEF CreateRow, Idle
    <3>2. CASE s = z
      <4>1. InFlight(s)' = {r}
        BY <3>1, <3>2 DEF InFlight, StepInv, Exist
      <4> QED
        BY <3>1, <3>2, <4>1 DEF InStep, HoldsToken
    <3>3. CASE s # z
      <4>1. r \notin InFlight(s)' /\ row'[s] = row[s] /\ jar'[s] = jar[s]
        BY <3>1, <3>3 DEF InFlight
      <4> QED
        BY <1>2, <2>0, <3>1, <4>1, InStepElsewhere DEF Usable
    <3> QED
      BY <3>2, <3>3
  <2>2. ASSUME NEW z \in Sids, PresentCookie(r, z) PROVE InStep(s)'
    <3>1. /\ req'[r].pc = "lookup" /\ req'[r].sid = z /\ req'[r].tok = jar[z]
          /\ \A q \in Reqs \ {r} : req'[q] = req[q]
          /\ UNCHANGED <<row, jar>>
      BY <2>2 DEF PresentCookie, Idle
    <3>2. CASE s = z
      <4>1. InFlight(s) = {}
        BY <2>2, <3>2 DEF PresentCookie
      <4>2. InFlight(s)' = {r}
        BY <3>1, <3>2, <4>1 DEF InFlight
      <4>3. Usable(s)' => Usable(s) /\ jar[s] = row[s].hash
        BY <1>2, <3>1, <4>1 DEF InStep, Usable
      <4> QED
        BY <3>1, <3>2, <4>2, <4>3 DEF InStep, HoldsToken
    <3>3. CASE s # z
      <4>1. r \notin InFlight(s)' /\ row'[s] = row[s] /\ jar'[s] = jar[s]
        BY <3>1, <3>3 DEF InFlight
      <4> QED
        BY <1>2, <2>0, <3>1, <4>1, InStepElsewhere DEF Usable
    <3> QED
      BY <3>2, <3>3
  <2>3. ASSUME NEW z \in Sids, ReadRow(r, z) PROVE InStep(s)'
    <3>1. /\ req'[r].pc \in {"touch", "timeout"}
          /\ \A q \in Reqs \ {r} : req'[q] = req[q]
          /\ UNCHANGED <<row, jar>>
      BY <2>3 DEF ReadRow, Idle, browser
    <3>2. r \notin InFlight(s)'
      BY <3>1 DEF InFlight
    <3> QED
      BY <1>2, <2>0, <3>1, <3>2, InStepElsewhere DEF Usable
  <2> QED
    BY <1>4, <2>1, <2>2, <2>3 DEF Arrive
<1>5. ASSUME NEW r \in Reqs, Step(r) PROVE InStep(s)'
  <2>0. r \in InFlight(s) => HoldsToken(r) /\ req[r].sid = s
    BY <1>2 DEF InStep, InFlight
  <2>1. CASE ReadActive(r) \/ Evict(r)
    <3>1. /\ row'[s].st = "active" => row[s].st = "active"
          /\ row'[s].hash = row[s].hash
          /\ Usable(s)' => Usable(s)
          /\ UNCHANGED jar
      BY <1>3, <2>1 DEF ReadActive, Evict, browser, Usable
    <3>2. req[r].pc \in {"cap", "evict"}
      BY <2>1 DEF ReadActive, Evict
    <3>3. CASE r \in InFlight(s)
      <4>1. r \in InFlight(s)'
        BY <2>1, <3>3, ListFields DEF InFlight
      <4>2. HoldsToken(r)'
        BY <2>0, <2>1, <3>1, <3>2, <3>3, ListFields DEF HoldsToken
      <4> QED
        BY <1>2, <2>1, <3>3, <4>1, <4>2, InStepMoves, ListFields
    <3>4. CASE r \notin InFlight(s)
      <4>1. r \notin InFlight(s)'
        BY <2>1, <3>2, <3>4, ListFields DEF InFlight
      <4> QED
        BY <1>2, <2>1, <3>1, <3>4, <4>1, InStepElsewhere, ListFields
    <3> QED
      BY <3>3, <3>4
  <2>2. CASE Deliver(r) \/ Refuse(r) \/ Touch(r) \/ TimeOut(r)
    <3>1. req'[r] = Idle /\ \A q \in Reqs \ {r} : req'[q] = req[q]
      BY <1>0, <2>2, AnswerReq DEF Deliver, Refuse, Touch, TimeOut
    <3>2. r \notin InFlight(s)'
      BY <3>1 DEF InFlight, Idle
    <3>3. /\ row'[s].st = "active" => row[s].st = "active"
          /\ row'[s].hash = row[s].hash
          /\ Usable(s)' => Usable(s)
      BY <1>3, <2>2, TouchFields DEF Deliver, Refuse, TimeOut, Usable
    <3>4. CASE r \in InFlight(s)
      <4>1. CASE Deliver(r)
        <5>1. jar'[s] = req[r].tok /\ req[r].pc = "deliver"
          BY <2>0, <3>4, <4>1 DEF Deliver
        <5>2. Usable(s)' => jar'[s] = row'[s].hash
          BY <2>0, <3>3, <3>4, <5>1 DEF HoldsToken, Usable
        <5> QED
          BY <1>2, <3>1, <3>2, <3>4, <5>2, InStepMoves
      <4>2. CASE Refuse(r)
        <5>1. ~Usable(s)'
          BY <2>0, <3>3, <3>4, <4>2 DEF HoldsToken, Refuse
        <5> QED
          BY <1>2, <3>1, <3>2, <3>4, <5>1, InStepMoves
      <4>3. CASE Touch(r) \/ TimeOut(r)
        BY <3>4, <4>3 DEF Touch, TimeOut, InFlight
      <4> QED
        BY <2>2, <4>1, <4>2, <4>3
    <3>5. CASE r \notin InFlight(s)
      <4>1. jar'[s] = jar[s]
        BY <2>2, <3>5 DEF Deliver, Refuse, Touch, TimeOut, InFlight, browser
      <4> QED
        BY <1>2, <3>1, <3>2, <3>3, <3>5, <4>1, InStepElsewhere
    <3> QED
      BY <3>4, <3>5
  <2>3. CASE LookupToken(r)
    <3>1. /\ req'[r].sid = req[r].sid /\ req'[r].tok = req[r].tok
          /\ req[r].pc = "lookup"
          /\ \A q \in Reqs \ {r} : req'[q] = req[q]
          /\ UNCHANGED <<row, jar>>
      BY <2>3, GotoReq DEF LookupToken, Pcs, browser
    <3>2. \/ req'[r].pc = "renew"
          \/ req'[r].pc = "refused" /\ ~ \E z \in Sids : row[z].hash = req[r].tok /\ Usable(z)
      BY <2>3, GotoReq DEF LookupToken, Pcs
    <3>3. CASE r \in InFlight(s)
      <4>1. r \in InFlight(s)'
        BY <3>1, <3>2, <3>3 DEF InFlight
      <4>2. HoldsToken(r)'
        BY <2>0, <3>1, <3>2, <3>3 DEF HoldsToken, Usable
      <4> QED
        BY <1>2, <3>1, <3>3, <4>1, <4>2, InStepMoves
    <3>4. CASE r \notin InFlight(s)
      <4>1. r \notin InFlight(s)'
        BY <3>1, <3>4 DEF InFlight
      <4> QED
        BY <1>2, <3>1, <3>4, <4>1, InStepElsewhere DEF Usable
    <3> QED
      BY <3>3, <3>4
  <2>4. CASE Renew(r)
    <3>1. req[r].pc = "renew" /\ UNCHANGED jar
      BY <2>4 DEF Renew
    <3>2. CASE r \in InFlight(s)
      <4>1. r \in InFlight(s)' /\ HoldsToken(r)'
        BY <2>0, <2>4, <3>2, RenewFields DEF InFlight, HoldsToken
      <4> QED
        BY <1>2, <2>4, <3>2, <4>1, InStepMoves, RenewFields
    <3>3. CASE r \notin InFlight(s)
      <4>1. req[r].sid # s
        BY <3>1, <3>3 DEF InFlight
      <4>2. r \notin InFlight(s)' /\ row'[s] = row[s]
        BY <2>4, <4>1, RenewFields DEF InFlight
      <4> QED
        BY <1>2, <2>4, <3>1, <3>3, <4>2, InStepElsewhere, RenewFields DEF Usable
    <3> QED
      BY <3>2, <3>3
  <2> QED
    BY <1>5, <2>1, <2>2, <2>3, <2>4 DEF Step
<1>6. ASSUME NEW r \in Reqs, Fail(r) PROVE InStep(s)'
  <2>1. r \notin InFlight(s) /\ UNCHANGED <<row, jar>>
    BY <1>6 DEF Fail
  <2>2. /\ \A q \in Reqs \ {r} : req'[q] = req[q]
        /\ r \notin InFlight(s)'
    <3>1. CASE Answer(r)
      BY <1>0, <3>1, AnswerReq DEF InFlight, Idle
    <3>2. CASE req[r].pc \in {"lookup", "renew", "deliver"} /\ Goto(r, "refused")
      BY <2>1, <3>2, GotoReq DEF InFlight, Pcs
    <3> QED
      BY <1>6, <3>1, <3>2 DEF Fail
  <2> QED
    BY <1>2, <2>1, <2>2, InStepElsewhere DEF Usable
<1>7. CASE Environment \/ UNCHANGED vars
  <2>1. UNCHANGED req
    BY <1>7 DEF Environment, RevokeSessionById, RevokeOtherSessions, RevokeElsewhere,
                Lapse, RejectRow, Tick, vars
  <2>2. /\ row'[s].st = "active" => row[s].st = "active" /\ row'[s].hash = row[s].hash
        /\ Usable(s)' => Usable(s) /\ jar'[s] = jar[s]
    <3>1. ASSUME NEW z \in Sids, RevokeSessionById(z)
          PROVE  /\ row'[s].st = "active" => row[s].st = "active" /\ row'[s].hash = row[s].hash
                 /\ Usable(s)' => Usable(s) /\ jar'[s] = jar[s]
      BY <3>1 DEF RevokeSessionById, SessionRow, Usable
    <3>2. ASSUME NEW z \in Sids, Lapse(z)
          PROVE  /\ row'[s].st = row[s].st /\ row'[s].hash = row[s].hash
                 /\ Usable(s)' => Usable(s)
                 /\ jar'[s] = jar[s]
      BY <3>2 DEF Lapse, SessionRow, Usable, browser
    <3>3. ASSUME NEW z \in Sids, RevokeOtherSessions(z) \/ RevokeElsewhere(z)
          PROVE  /\ row'[s].st = "active" => row[s].st = "active" /\ row'[s].hash = row[s].hash
                 /\ Usable(s)' => Usable(s) /\ jar'[s] = jar[s]
      BY <1>3, <3>3 DEF RevokeOtherSessions, RevokeElsewhere, browser
    <3>4. ASSUME UNCHANGED <<row, jar>>
          PROVE  /\ row'[s].st = row[s].st /\ row'[s].hash = row[s].hash
                 /\ Usable(s)' => Usable(s)
                 /\ jar'[s] = jar[s]
      BY <3>4 DEF Usable
    <3> QED
      BY <1>7, <3>1, <3>2, <3>3, <3>4 DEF Environment, RejectRow, Tick, vars, browser
  <2>3. InFlight(s)' = InFlight(s) /\ \A q \in InFlight(s) : req'[q] = req[q]
    BY <2>1 DEF InFlight
  <2> QED
    BY <1>2, <2>2, <2>3, InStepKept
<1> QED
  BY <1>4, <1>5, <1>6, <1>7 DEF Next

\* Between requests the browser of a usable session has the refresh token whose hash is
\* in the row, unless two renewals of it overlapped or one failed.
THEOREM BrowserKeepsUp == Spec => []BrowserInStep
<1>1. Init => StepInv
  BY DEF Init, StepInv, Exist, InStep, InFlight, Idle, NoRow, Usable
<1>2. StepInv => BrowserInStep
  BY DEF StepInv, InStep, BrowserInStep
<1> QED
  BY <1>1, <1>2, TypedInit, TypedNext, StepNext, PTL DEF Spec

===============================================================================
