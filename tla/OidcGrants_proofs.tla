--------------------------- MODULE OidcGrants_proofs ---------------------------
(***************************************************************************)
(* Proofs about OidcGrants, for any number of clients, sessions, codes,    *)
(* refresh grants and concurrent requests.                                 *)
(***************************************************************************)
EXTENDS OidcGrants, TLAPS

-------------------------------------------------------------------------------
(* The inductive invariant: what the rows refer to, and what a request that *)
(* has come as far as its pc says knows about the rows it works on.         *)

CodeShape ==
    \A c \in Codes : code[c].st # "absent" =>
       code[c].client \in Clients /\ code[c].sid \in Sessions

GrantShape ==
    \A g \in Grants :
       /\ ~Present(g) => grant[g].root = None
       /\ Present(g) =>
            /\ grant[g].root \in Codes
            /\ code[grant[g].root].st \notin {"absent", "unused"}
            /\ grant[g].client = code[grant[g].root].client
            /\ grant[g].sid = code[grant[g].root].sid

CodePcs == {"consume", "replay", "issue_tokens"}

GrantPcs == {"check_session", "rotate", "issue_next", "reuse", "kill_session"}

ReqShape ==
    \A r \in Reqs :
       /\ req[r].pc # "idle" => req[r].sid \in Sessions
       /\ req[r].pc \in {"issue_code", "consume", "issue_tokens"} => req[r].client \in Clients
       /\ req[r].pc \in CodePcs =>
            /\ req[r].cred \in Codes
            /\ code[req[r].cred].st # "absent"
            /\ req[r].sid = code[req[r].cred].sid
       /\ req[r].pc \in {"consume", "issue_tokens"} =>
            req[r].client = code[req[r].cred].client
       /\ req[r].pc = "issue_tokens" => code[req[r].cred].st # "unused"
       /\ req[r].pc \in GrantPcs => req[r].cred \in Grants /\ Present(req[r].cred)
       /\ req[r].pc = "issue_next" => grant[req[r].cred].st = "revoked"

Shape == TypeOK /\ CodeShape /\ GrantShape /\ ReqShape

-------------------------------------------------------------------------------
(* What the shared operators do to the rows *)

LEMMA RevokeRows ==
    ASSUME NEW s, grant \in [Grants -> GrantRow], RevokeGrantsForSession(s)
    PROVE  /\ grant' \in [Grants -> GrantRow]
           /\ \A g \in Grants :
                /\ grant'[g].client = grant[g].client /\ grant'[g].sid = grant[g].sid
                /\ grant'[g].from = grant[g].from /\ grant'[g].root = grant[g].root
                /\ Present(g)' <=> Present(g)
                /\ grant[g].st = "revoked" => grant'[g].st = "revoked"
                /\ Live(g)' => Live(g)
BY DEF RevokeGrantsForSession, GrantRow, Present, Live

LEMMA DeactivateRows ==
    ASSUME NEW s, session \in [Sessions -> SessionRow], DeactivateRow(s)
    PROVE  session' \in [Sessions -> SessionRow]
BY DEF DeactivateRow, SessionRow

LEMMA AnswerReq ==
    ASSUME NEW r \in Reqs, req \in [Reqs -> ReqState], Answer(r)
    PROVE  /\ req' \in [Reqs -> ReqState]
           /\ req'[r].pc = "idle"
           /\ \A q \in Reqs \ {r} : req'[q] = req[q]
BY DEF Answer, Idle, ReqState, Pcs

LEMMA GotoReq ==
    ASSUME NEW r \in Reqs, req \in [Reqs -> ReqState], NEW pc \in Pcs, Goto(r, pc)
    PROVE  /\ req' \in [Reqs -> ReqState]
           /\ req'[r].pc = pc
           /\ req'[r].client = req[r].client /\ req'[r].sid = req[r].sid
           /\ req'[r].cred = req[r].cred /\ req'[r].late = req[r].late
           /\ \A q \in Reqs \ {r} : req'[q] = req[q]
BY DEF Goto, ReqState

LEMMA BeginReq ==
    ASSUME NEW r \in Reqs, req \in [Reqs -> ReqState], NEW pc \in Pcs,
           NEW cl \in Clients \cup {None}, NEW s \in Sessions \cup {None},
           NEW cred \in Codes \cup Grants \cup {None}, NEW o \in BOOLEAN,
           NEW l \in BOOLEAN, Begin(r, pc, cl, s, cred, o, l)
    PROVE  /\ req' \in [Reqs -> ReqState]
           /\ req[r].pc = "idle" /\ req'[r].pc = pc
           /\ req'[r].client = cl /\ req'[r].sid = s
           /\ req'[r].cred = cred /\ req'[r].late = l
           /\ \A q \in Reqs \ {r} : req'[q] = req[q]
BY DEF Begin, ReqState

-------------------------------------------------------------------------------
(* Shape is inductive *)

LEMMA ShapeInit == Init => Shape
<1> SUFFICES ASSUME Init PROVE Shape
  OBVIOUS
<1>1. session \in [Sessions -> SessionRow]
  BY DEF Init, SessionRow
<1>2. code \in [Codes -> CodeRow]
  BY DEF Init, CodeRow, NoCodeRow
<1>3. grant \in [Grants -> GrantRow]
  BY DEF Init, GrantRow, NoGrantRow
<1>4. req \in [Reqs -> ReqState]
  BY DEF Init, ReqState, Idle, Pcs
<1>5. TypeOK
  BY <1>1, <1>2, <1>3, <1>4, ConstAssumption DEF Init, TypeOK
<1>6. CodeShape /\ GrantShape /\ ReqShape
  BY DEF Init, CodeShape, GrantShape, ReqShape, NoCodeRow, NoGrantRow, Idle, Present,
     CodePcs, GrantPcs
<1> QED
  BY <1>5, <1>6 DEF Shape

\* A request that begins brings its own part of ReqShape; the rows do not change.
LEMMA ShapeArrive ==
    ASSUME Shape, NEW r \in Reqs, Arrive(r) PROVE Shape'
<1> USE DEF Shape, TypeOK
<1>1. ASSUME NEW cl \in Clients, NEW s \in Sessions, NEW o \in BOOLEAN,
             Authorize(r, cl, s, o)
      PROVE  Shape'
  <2>1. Begin(r, "issue_code", cl, s, None, o, FALSE) /\ "issue_code" \in Pcs
    BY <1>1 DEF Authorize, Pcs
  <2>2. /\ req' \in [Reqs -> ReqState]
        /\ req'[r].pc = "issue_code" /\ req'[r].client = cl /\ req'[r].sid = s
        /\ \A q \in Reqs \ {r} : req'[q] = req[q]
    BY <2>1 DEF Begin, ReqState
  <2>3. ReqShape'
    BY <1>1, <2>2 DEF Authorize, rows, ReqShape, CodePcs, GrantPcs, Present
  <2> QED
    BY <1>1, <2>2, <2>3 DEF Authorize, rows, CodeShape, GrantShape, Present
<1>2. ASSUME NEW c \in Codes, NEW cl \in Clients, PresentCode(r, c, cl)
      PROVE  Shape'
  <2>1. code[c].sid \in Sessions
    BY <1>2 DEF PresentCode, CodeShape
  <2>2. Ended(code[c].sid) \in BOOLEAN /\ code[c].offline \in BOOLEAN
    BY DEF Ended, CodeRow
  <2>3. PICK pc \in {"replay", "consume"}, o \in BOOLEAN, l \in BOOLEAN :
           /\ Begin(r, pc, cl, code[c].sid, c, o, l)
           /\ code[c].st # "absent"
           /\ pc = "consume" => code[c].client = cl
    BY <1>2, <2>2 DEF PresentCode
  <2>4. pc \in Pcs
    BY DEF Pcs
  <2>5. /\ req' \in [Reqs -> ReqState]
        /\ req'[r].pc = pc /\ req'[r].client = cl
        /\ req'[r].sid = code[c].sid /\ req'[r].cred = c
        /\ \A q \in Reqs \ {r} : req'[q] = req[q]
    BY <2>1, <2>3, <2>4, BeginReq
  <2>6. ReqShape'
    BY <1>2, <2>1, <2>3, <2>5 DEF PresentCode, rows, ReqShape, CodePcs, GrantPcs, Present
  <2> QED
    BY <1>2, <2>5, <2>6 DEF PresentCode, rows, CodeShape, GrantShape, Present
<1>3. ASSUME NEW g \in Grants, NEW cl \in Clients, PresentGrant(r, g, cl)
      PROVE  Shape'
  <2>1. Present(g) /\ grant[g].sid \in Sessions
    BY <1>3 DEF PresentGrant, GrantShape, CodeShape, Present
  <2>2. Ended(grant[g].sid) \in BOOLEAN
    BY DEF Ended
  <2>3. PICK pc \in {"reuse", "check_session"}, l \in BOOLEAN :
           Begin(r, pc, cl, grant[g].sid, g, FALSE, l)
    BY <1>3, <2>2 DEF PresentGrant
  <2>4. pc \in Pcs
    BY DEF Pcs
  <2>5. /\ req' \in [Reqs -> ReqState]
        /\ req'[r].pc = pc /\ req'[r].sid = grant[g].sid /\ req'[r].cred = g
        /\ \A q \in Reqs \ {r} : req'[q] = req[q]
    BY <2>1, <2>3, <2>4 DEF Begin, ReqState
  <2>6. ReqShape'
    BY <1>3, <2>1, <2>3, <2>5 DEF PresentGrant, rows, ReqShape, CodePcs, GrantPcs, Present
  <2> QED
    BY <1>3, <2>5, <2>6 DEF PresentGrant, rows, CodeShape, GrantShape, Present
<1>4. ASSUME NEW s \in Sessions, EndSession(r, s)
      PROVE  Shape'
  <2>1. Begin(r, "end_grants", None, s, None, FALSE, FALSE) /\ "end_grants" \in Pcs
    BY <1>4 DEF EndSession, Pcs
  <2>2. /\ req' \in [Reqs -> ReqState]
        /\ req'[r].pc = "end_grants" /\ req'[r].sid = s
        /\ \A q \in Reqs \ {r} : req'[q] = req[q]
    BY <2>1 DEF Begin, ReqState
  <2>3. session' \in [Sessions -> SessionRow]
    BY <1>4, DeactivateRows DEF EndSession
  <2>4. ReqShape'
    BY <1>4, <2>2 DEF EndSession, ReqShape, CodePcs, GrantPcs, Present
  <2> QED
    BY <1>4, <2>2, <2>3, <2>4 DEF EndSession, CodeShape, GrantShape, Present
<1> QED
  BY <1>1, <1>2, <1>3, <1>4 DEF Arrive

\* Revoking a session's grants and answering is what ends several handlers.
LEMMA ShapeRevoke ==
    ASSUME Shape, NEW r \in Reqs, NEW s, RevokeGrantsForSession(s),
           Answer(r), UNCHANGED code
    PROVE  /\ grant' \in [Grants -> GrantRow] /\ req' \in [Reqs -> ReqState]
           /\ (CodeShape /\ GrantShape /\ ReqShape)'
<1> USE DEF Shape, TypeOK
<1>1. /\ grant' \in [Grants -> GrantRow]
      /\ \A g \in Grants :
           /\ grant'[g].client = grant[g].client /\ grant'[g].sid = grant[g].sid
           /\ grant'[g].root = grant[g].root
           /\ Present(g)' <=> Present(g)
           /\ grant[g].st = "revoked" => grant'[g].st = "revoked"
  BY RevokeRows
<1>2. /\ req' \in [Reqs -> ReqState] /\ req'[r].pc = "idle"
      /\ \A q \in Reqs \ {r} : req'[q] = req[q]
  BY AnswerReq
<1>3. CodeShape' /\ GrantShape'
  BY <1>1 DEF CodeShape, GrantShape
<1>4. ReqShape'
  BY <1>1, <1>2 DEF ReqShape, CodePcs, GrantPcs
<1> QED
  BY <1>1, <1>2, <1>3, <1>4

\* So is creating a refresh grant for a chain that exists.
LEMMA ShapeNewGrant ==
    ASSUME Shape, NEW r \in Reqs, NEW g \in Grants, NEW c \in Codes,
           NEW f \in Grants \cup {None},
           code[c].st \notin {"absent", "unused"},
           NewGrant(g, code[c].client, code[c].sid, f, c), Answer(r),
           UNCHANGED <<session, code, faults, contained, replayed>>
    PROVE  Shape'
<1> USE DEF Shape, TypeOK
<1>1. code[c].client \in Clients /\ code[c].sid \in Sessions
  BY DEF CodeShape
<1>2. /\ grant' \in [Grants -> GrantRow]
      /\ ~Present(g) /\ Live(g)'
      /\ grant'[g].client = code[c].client /\ grant'[g].sid = code[c].sid
      /\ grant'[g].root = c
      /\ \A h \in Grants \ {g} : grant'[h] = grant[h]
  BY <1>1 DEF NewGrant, GrantRow, Present, Live
<1>3. /\ req' \in [Reqs -> ReqState] /\ req'[r].pc = "idle"
      /\ \A q \in Reqs \ {r} : req'[q] = req[q]
  BY AnswerReq
<1>4. CodeShape' /\ GrantShape'
  BY <1>2 DEF CodeShape, GrantShape, Present, Live
<1>5. ReqShape'
  <2> SUFFICES ASSUME NEW q \in Reqs \ {r} PROVE ReqShape!(q)'
    BY <1>3 DEF ReqShape, CodePcs, GrantPcs
  <2>1. ReqShape!(q) /\ req'[q] = req[q]
    BY <1>3 DEF ReqShape
  <2> QED
    BY <1>2, <2>1 DEF ReqShape, CodePcs, GrantPcs, Present, Live
<1> QED
  BY <1>2, <1>3, <1>4, <1>5

LEMMA ShapeStep ==
    ASSUME Shape, NEW r \in Reqs, Step(r) PROVE Shape'
<1> USE DEF Shape, TypeOK
<1>1. CASE IssueCode(r)
  <2>1. PICK c \in Codes :
          /\ code[c].st = "absent"
          /\ code' = [code EXCEPT ![c] =
                        [st |-> "unused", client |-> req[r].client, sid |-> req[r].sid,
                         offline |-> req[r].offline, lapsed |-> FALSE]]
    BY <1>1 DEF IssueCode
  <2>2. req[r].client \in Clients /\ req[r].sid \in Sessions /\ req[r].offline \in BOOLEAN
    BY <1>1 DEF IssueCode, ReqShape, ReqState
  <2>3. code' \in [Codes -> CodeRow] /\ \A d \in Codes \ {c} : code'[d] = code[d]
    BY <2>1, <2>2 DEF CodeRow
  <2>4. /\ req' \in [Reqs -> ReqState] /\ req'[r].pc = "idle"
        /\ \A q \in Reqs \ {r} : req'[q] = req[q]
    BY <1>1, AnswerReq DEF IssueCode
  <2>5. CodeShape'
    BY <2>1, <2>2, <2>3 DEF CodeShape
  <2>6. GrantShape'
    BY <1>1, <2>1, <2>3 DEF IssueCode, GrantShape, Present
  <2>7. ReqShape'
    BY <1>1, <2>1, <2>3, <2>4 DEF IssueCode, ReqShape, CodePcs, GrantPcs, Present
  <2> QED
    BY <1>1, <2>3, <2>4, <2>5, <2>6, <2>7 DEF IssueCode
<1>2. CASE Consume(r)
  <2> DEFINE c == req[r].cred
  <2>1. c \in Codes /\ code[c].st # "absent"
    BY <1>2 DEF Consume, ReqShape, CodePcs
  <2>2. /\ code' \in [Codes -> CodeRow]
        /\ \A d \in Codes : /\ code'[d].client = code[d].client
                            /\ code'[d].sid = code[d].sid
                            /\ code[d].st = "absent" <=> code'[d].st = "absent"
                            /\ code'[d].st = "unused" => code[d].st = "unused"
    BY <1>2, <2>1 DEF Consume, CodeRow
  <2>4. (Goto(r, "issue_tokens") /\ code'[c].st = "consumed") \/ Goto(r, "replay")
    BY <1>2, <2>1 DEF Consume, CodeRow
  <2>5. /\ req' \in [Reqs -> ReqState]
        /\ \/ req'[r].pc = "issue_tokens" /\ code'[c].st = "consumed"
           \/ req'[r].pc = "replay"
        /\ req'[r].client = req[r].client /\ req'[r].sid = req[r].sid
        /\ req'[r].cred = req[r].cred
        /\ \A q \in Reqs \ {r} : req'[q] = req[q]
    BY <2>4, GotoReq DEF Pcs
  <2>6. CodeShape' /\ GrantShape'
    BY <1>2, <2>2 DEF Consume, CodeShape, GrantShape, Present
  <2>7. ReqShape'
    BY <1>2, <2>1, <2>2, <2>5 DEF Consume, ReqShape, CodePcs, GrantPcs, Present
  <2> QED
    BY <1>2, <2>2, <2>5, <2>6, <2>7 DEF Consume
<1>3. CASE RevokeReplayed(r)
  <2>1. req[r].cred \in Codes
    BY <1>3 DEF RevokeReplayed, ReqShape, CodePcs
  <2> QED
    BY <1>3, <2>1, ShapeRevoke DEF RevokeReplayed
<1>4. CASE IssueTokens(r)
  <2> DEFINE c == req[r].cred
  <2>1. /\ c \in Codes /\ code[c].st \notin {"absent", "unused"}
        /\ req[r].client = code[c].client /\ req[r].sid = code[c].sid
    BY <1>4 DEF IssueTokens, ReqShape, CodePcs
  <2>2. CASE ~req[r].offline
    <3>1. /\ req' \in [Reqs -> ReqState] /\ req'[r].pc = "idle"
          /\ \A q \in Reqs \ {r} : req'[q] = req[q]
      BY <1>4, AnswerReq DEF IssueTokens
    <3> QED
      BY <1>4, <2>2, <3>1 DEF IssueTokens, CodeShape, GrantShape, ReqShape, CodePcs,
         GrantPcs, Present
  <2>3. CASE req[r].offline
    <3>1. PICK g \in Grants : NewGrant(g, code[c].client, code[c].sid, None, c)
      BY <1>4, <2>1, <2>3 DEF IssueTokens
    <3> QED
      BY <1>4, <2>1, <3>1, ShapeNewGrant DEF IssueTokens
  <2> QED
    BY <2>2, <2>3
<1>5. CASE CheckSession(r)
  <2>1. Goto(r, "rotate") \/ Answer(r)
    BY <1>5 DEF CheckSession
  <2>2. /\ req' \in [Reqs -> ReqState]
        /\ req'[r].pc \in {"idle", "rotate"}
        /\ req'[r].pc = "rotate" => req'[r].sid = req[r].sid /\ req'[r].cred = req[r].cred
        /\ \A q \in Reqs \ {r} : req'[q] = req[q]
    BY <2>1, AnswerReq, GotoReq DEF Pcs
  <2> QED
    BY <1>5, <2>2 DEF CheckSession, rows, CodeShape, GrantShape, ReqShape, CodePcs,
       GrantPcs, Present
<1>6. CASE Rotate(r)
  <2> DEFINE g == req[r].cred
  <2>1. g \in Grants /\ Present(g)
    BY <1>6 DEF Rotate, ReqShape, GrantPcs
  <2>2. /\ grant' \in [Grants -> GrantRow]
        /\ \A h \in Grants :
             /\ grant'[h].client = grant[h].client /\ grant'[h].sid = grant[h].sid
             /\ grant'[h].root = grant[h].root
             /\ Present(h)' <=> Present(h)
             /\ grant[h].st = "revoked" => grant'[h].st = "revoked"
    BY <1>6, <2>1 DEF Rotate, GrantRow, Present
  <2>3. (Goto(r, "issue_next") /\ grant'[g].st = "revoked") \/ Answer(r)
    BY <1>6, <2>1 DEF Rotate, GrantRow
  <2>4. /\ req' \in [Reqs -> ReqState]
        /\ \/ /\ req'[r].pc = "issue_next" /\ grant'[g].st = "revoked"
              /\ req'[r].sid = req[r].sid /\ req'[r].cred = g
           \/ req'[r].pc = "idle"
        /\ \A q \in Reqs \ {r} : req'[q] = req[q]
    BY <2>3, AnswerReq, GotoReq DEF Pcs
  <2>5. CodeShape' /\ GrantShape'
    BY <1>6, <2>2 DEF Rotate, CodeShape, GrantShape
  <2>6. ReqShape'
    BY <1>6, <2>1, <2>2, <2>4 DEF Rotate, ReqShape, CodePcs, GrantPcs
  <2> QED
    BY <1>6, <2>2, <2>4, <2>5, <2>6 DEF Rotate
<1>7. CASE IssueNext(r)
  <2> DEFINE old == req[r].cred
             c == grant[old].root
  <2>1. old \in Grants /\ Present(old)
    BY <1>7 DEF IssueNext, ReqShape, GrantPcs
  <2>2. /\ c \in Codes /\ code[c].st \notin {"absent", "unused"}
        /\ grant[old].client = code[c].client /\ grant[old].sid = code[c].sid
    BY <2>1 DEF GrantShape
  <2>3. PICK g \in Grants : NewGrant(g, code[c].client, code[c].sid, old, c)
    BY <1>7, <2>2 DEF IssueNext
  <2> QED
    BY <1>7, <2>1, <2>2, <2>3, ShapeNewGrant DEF IssueNext
<1>8. CASE RevokeReused(r)
  <2>1. /\ grant' \in [Grants -> GrantRow]
        /\ \A g \in Grants :
             /\ grant'[g].client = grant[g].client /\ grant'[g].sid = grant[g].sid
             /\ grant'[g].root = grant[g].root
             /\ Present(g)' <=> Present(g)
             /\ grant[g].st = "revoked" => grant'[g].st = "revoked"
    BY <1>8, RevokeRows DEF RevokeReused
  <2>2. /\ req' \in [Reqs -> ReqState] /\ req'[r].pc = "kill_session"
        /\ req'[r].sid = req[r].sid /\ req'[r].cred = req[r].cred
        /\ \A q \in Reqs \ {r} : req'[q] = req[q]
    BY <1>8, GotoReq DEF RevokeReused, Pcs
  <2>3. CodeShape' /\ GrantShape'
    BY <1>8, <2>1 DEF RevokeReused, CodeShape, GrantShape
  <2>4. ReqShape'
    BY <1>8, <2>1, <2>2 DEF RevokeReused, ReqShape, CodePcs, GrantPcs
  <2> QED
    BY <1>8, <2>1, <2>2, <2>3, <2>4 DEF RevokeReused
<1>9. CASE KillSession(r)
  <2>1. session' \in [Sessions -> SessionRow]
    BY <1>9, DeactivateRows DEF KillSession
  <2>2. /\ req' \in [Reqs -> ReqState] /\ req'[r].pc = "idle"
        /\ \A q \in Reqs \ {r} : req'[q] = req[q]
    BY <1>9, AnswerReq DEF KillSession
  <2>3. req[r].sid \in Sessions
    BY <1>9 DEF KillSession, ReqShape
  <2> QED
    BY <1>9, <2>1, <2>2, <2>3 DEF KillSession, CodeShape, GrantShape, ReqShape, CodePcs,
       GrantPcs, Present
<1>10. CASE EndGrants(r)
  BY <1>10, ShapeRevoke DEF EndGrants
<1> QED
  BY <1>1, <1>2, <1>3, <1>4, <1>5, <1>6, <1>7, <1>8, <1>9, <1>10 DEF Step

LEMMA ShapeAbort ==
    ASSUME Shape, NEW r \in Reqs, Abort(r) PROVE Shape'
<1> USE DEF Shape, TypeOK
<1>1. /\ req' \in [Reqs -> ReqState] /\ req'[r].pc = "idle"
      /\ \A q \in Reqs \ {r} : req'[q] = req[q]
  BY AnswerReq DEF Abort
<1>2. faults' \in 0..MaxFaults
  BY ConstAssumption DEF Abort
<1> QED
  BY <1>1, <1>2 DEF Abort, rows, CodeShape, GrantShape, ReqShape, CodePcs, GrantPcs, Present

\* Time, sign-outs elsewhere, /oidc/revoke and the purge touch no reference.
LEMMA ShapeEnvironment ==
    ASSUME Shape, Environment PROVE Shape'
<1> USE DEF Shape, TypeOK
<1>1. ASSUME session' \in [Sessions -> SessionRow],
             UNCHANGED <<code, grant, req, faults, contained, replayed>>
      PROVE  Shape'
  BY <1>1 DEF CodeShape, GrantShape, ReqShape, Present
<1>2. ASSUME code' \in [Codes -> CodeRow],
             \A c \in Codes : /\ code'[c].client = code[c].client
                              /\ code'[c].sid = code[c].sid
                              /\ code[c].st = "absent" <=> code'[c].st = "absent"
                              /\ code'[c].st = "unused" => code[c].st = "unused",
             UNCHANGED <<session, grant, req, faults, contained, replayed>>
      PROVE  Shape'
  BY <1>2 DEF CodeShape, GrantShape, ReqShape, Present, CodePcs, GrantPcs
<1>3. ASSUME grant' \in [Grants -> GrantRow],
             \A g \in Grants : /\ grant'[g].client = grant[g].client
                               /\ grant'[g].sid = grant[g].sid
                               /\ grant'[g].root = grant[g].root
                               /\ Present(g)' <=> Present(g)
                               /\ grant[g].st = "revoked" => grant'[g].st = "revoked",
             UNCHANGED <<session, code, req, faults, contained, replayed>>
      PROVE  Shape'
  BY <1>3 DEF CodeShape, GrantShape, ReqShape, CodePcs, GrantPcs
<1>4. ASSUME NEW g \in Grants, RevokeToken(g) \/ LapseGrant(g) PROVE Shape'
  <2>1. /\ grant' \in [Grants -> GrantRow]
        /\ \A h \in Grants : /\ grant'[h].client = grant[h].client
                             /\ grant'[h].sid = grant[h].sid
                             /\ grant'[h].root = grant[h].root
                             /\ Present(h)' <=> Present(h)
                             /\ grant[h].st = "revoked" => grant'[h].st = "revoked"
    <3>1. CASE RevokeToken(g)
      BY <3>1 DEF RevokeToken, GrantRow, Present
    <3>2. CASE LapseGrant(g)
      BY <3>2 DEF LapseGrant, GrantRow, Present
    <3> QED
      BY <1>4, <3>1, <3>2
  <2> QED
    BY <1>3, <1>4, <2>1 DEF RevokeToken, LapseGrant
<1>5. ASSUME NEW s \in Sessions, DeactivateSession(s) \/ LapseSession(s) \/ ExtendSession(s)
      PROVE  Shape'
  <2>1. session' \in [Sessions -> SessionRow]
    BY <1>5 DEF DeactivateSession, DeactivateRow, LapseSession, ExtendSession, SessionRow
  <2> QED
    BY <1>1, <1>5, <2>1 DEF DeactivateSession, LapseSession, ExtendSession
<1>6. ASSUME NEW c \in Codes, LapseCode(c) PROVE Shape'
  BY <1>2, <1>6 DEF LapseCode, CodeRow
<1>7. CASE PurgeExpiredCodes
  BY <1>2, <1>7 DEF PurgeExpiredCodes, CodeRow
<1> QED
  BY <1>4, <1>5, <1>6, <1>7 DEF Environment

LEMMA ShapeNext == Shape /\ [Next]_vars => Shape'
<1> SUFFICES ASSUME Shape, [Next]_vars PROVE Shape'
  OBVIOUS
<1>1. CASE UNCHANGED vars
  BY <1>1 DEF vars, rows, Shape, TypeOK, CodeShape, GrantShape, ReqShape, Present
<1> QED
  BY <1>1, ShapeArrive, ShapeStep, ShapeAbort, ShapeEnvironment DEF Next

\* Rows and requests have their types, in every reachable state.
THEOREM TypeCorrect == Spec => []TypeOK
<1>1. Shape => TypeOK
  BY DEF Shape
<1> QED
  BY <1>1, ShapeInit, ShapeNext, PTL DEF Spec

\* Every refresh grant belongs to the client and the session its code was issued
\* to: no exchange or rotation moves a chain to another client or sign-in.
THEOREM ChainsStayBound == Spec => []ChainBinding
<1>1. Shape => ChainBinding
  BY DEF Shape, GrantShape, ChainBinding
<1> QED
  BY <1>1, ShapeInit, ShapeNext, PTL DEF Spec

-------------------------------------------------------------------------------
(* The baton of a chain is never copied *)

\* A step that makes no code fresh, no grant live and no request a holder keeps
\* SingleBearer.
LEMMA BearerFrame ==
    ASSUME SingleBearer,
           \A c \in Codes : code'[c].st \in {"absent", "unused"} =>
                              code[c].st \in {"absent", "unused"},
           \A g \in Grants : Live(g)' => Live(g) /\ grant'[g].root = grant[g].root,
           \A r \in Reqs, c \in Codes : Holding(r, c)' => Holding(r, c)
    PROVE  SingleBearer'
BY DEF SingleBearer

LEMMA BearerArrive ==
    ASSUME Shape, SingleBearer, NEW r \in Reqs, Arrive(r) PROVE SingleBearer'
<1> USE DEF Shape, TypeOK
<1>1. UNCHANGED <<code, grant>>
  BY DEF Arrive, Authorize, PresentCode, PresentGrant, EndSession, rows
<1>2. /\ req'[r].pc \notin {"issue_tokens", "issue_next"}
      /\ \A q \in Reqs \ {r} : req'[q] = req[q]
  BY DEF Arrive, Authorize, PresentCode, PresentGrant, EndSession, Begin, ReqState
<1>3. \A q \in Reqs, c \in Codes : Holding(q, c)' => Holding(q, c)
  BY <1>1, <1>2 DEF Holding
<1> QED
  BY <1>1, <1>3, BearerFrame DEF Live

\* The redeemed code had the baton, so nobody else does.
LEMMA BearerConsume ==
    ASSUME Shape, SingleBearer, NEW r \in Reqs, Consume(r) PROVE SingleBearer'
<1> USE DEF Shape, TypeOK
<1> DEFINE c == req[r].cred
<1>1. c \in Codes /\ UNCHANGED grant
  BY DEF Consume, ReqShape, CodePcs
<1>2. CASE code[c].st = "unused"
  <2>1. /\ code'[c].st = "consumed"
        /\ \A d \in Codes \ {c} : code'[d] = code[d]
    BY <1>1, <1>2 DEF Consume, CodeRow
  <2>2. Goto(r, "issue_tokens")
    BY <1>2 DEF Consume
  <2>3. /\ req'[r].pc = "issue_tokens" /\ req'[r].cred = c
        /\ \A q \in Reqs \ {r} : req'[q] = req[q]
    BY <2>2, GotoReq DEF Pcs
  <2>4. \A q \in Reqs, d \in Codes : Holding(q, d)' <=> Holding(q, d) \/ (q = r /\ d = c)
    BY <1>1, <2>3 DEF Holding, Consume
  <2>5. /\ \A q \in Reqs : ~Holding(q, c)
        /\ \A g \in Grants : Live(g) => grant[g].root # c
    BY <1>1, <1>2 DEF SingleBearer
  <2>6. \A g \in Grants : (Live(g)' <=> Live(g)) /\ grant'[g].root = grant[g].root
    BY <1>1 DEF Live
  <2> QED
    BY <1>1, <2>1, <2>4, <2>5, <2>6 DEF SingleBearer
<1>3. CASE code[c].st # "unused"
  <2>1. Goto(r, "replay") /\ UNCHANGED code
    BY <1>3 DEF Consume
  <2>2. /\ req'[r].pc = "replay"
        /\ \A q \in Reqs \ {r} : req'[q] = req[q]
    BY <2>1, GotoReq DEF Pcs
  <2>3. \A q \in Reqs, d \in Codes : Holding(q, d)' => Holding(q, d)
    BY <1>1, <2>2 DEF Holding
  <2> QED
    BY <1>1, <2>1, <2>3, BearerFrame DEF Live
<1> QED
  BY <1>2, <1>3

\* So did the live grant that is rotated.
LEMMA BearerRotate ==
    ASSUME Shape, SingleBearer, NEW r \in Reqs, Rotate(r) PROVE SingleBearer'
<1> USE DEF Shape, TypeOK
<1> DEFINE g == req[r].cred
           c == grant[g].root
<1>1. g \in Grants /\ Present(g) /\ c \in Codes /\ UNCHANGED code
  BY DEF Rotate, ReqShape, GrantPcs, GrantShape
<1>2. CASE Live(g)
  <2>1. /\ grant'[g].st # "live" /\ grant'[g].root = c
        /\ \A h \in Grants \ {g} : grant'[h] = grant[h]
    BY <1>1, <1>2 DEF Rotate, GrantRow, Live
  <2>2. Goto(r, "issue_next")
    BY <1>2 DEF Rotate, Live
  <2>3. /\ req'[r].pc = "issue_next" /\ req'[r].cred = g
        /\ \A q \in Reqs \ {r} : req'[q] = req[q]
    BY <2>2, GotoReq DEF Pcs
  <2>4. \A h \in Grants : grant'[h].root = grant[h].root
    BY <2>1
  <2>5. \A q \in Reqs, d \in Codes : Holding(q, d)' <=> Holding(q, d) \/ (q = r /\ d = c)
    <3> TAKE q \in Reqs, d \in Codes
    <3>1. CASE q = r
      BY <1>1, <2>3, <2>4, <3>1 DEF Holding, Rotate
    <3>2. CASE q # r
      <4>1. req'[q] = req[q]
        BY <2>3, <3>2
      <4>2. req[q].pc = "issue_next" => req[q].cred \in Grants
        BY DEF ReqShape, GrantPcs
      <4> QED
        BY <2>4, <3>2, <4>1, <4>2 DEF Holding
    <3> QED
      BY <3>1, <3>2
  <2>6. /\ \A q \in Reqs : ~Holding(q, c)
        /\ \A h \in Grants : Live(h) /\ grant[h].root = c => h = g
    BY <1>1, <1>2 DEF SingleBearer
  <2>7. code[c].st \notin {"absent", "unused"}
    BY <1>1 DEF GrantShape
  <2>8. \A h \in Grants : Live(h)' <=> Live(h) /\ h # g
    BY <2>1 DEF Live
  <2> QED
    BY <1>1, <2>4, <2>5, <2>6, <2>7, <2>8 DEF SingleBearer
<1>3. CASE ~Live(g)
  <2>1. Answer(r) /\ UNCHANGED grant
    BY <1>3 DEF Rotate, Live
  <2>2. /\ req'[r].pc = "idle"
        /\ \A q \in Reqs \ {r} : req'[q] = req[q]
    BY <2>1, AnswerReq
  <2>3. \A q \in Reqs, d \in Codes : Holding(q, d)' => Holding(q, d)
    BY <2>1, <2>2 DEF Holding
  <2> QED
    BY <1>1, <2>1, <2>3, BearerFrame DEF Live
<1> QED
  BY <1>2, <1>3

\* The request that creates a grant hands it the baton it holds itself.
LEMMA BearerNewGrant ==
    ASSUME Shape, SingleBearer, NEW r \in Reqs, NEW c \in Codes, Holding(r, c),
           NEW g \in Grants, ~Present(g), grant'[g].root = c,
           \A h \in Grants \ {g} : grant'[h] = grant[h],
           Answer(r), UNCHANGED code
    PROVE  SingleBearer'
<1> USE DEF Shape, TypeOK
<1>1. /\ req'[r].pc = "idle"
      /\ \A q \in Reqs \ {r} : req'[q] = req[q]
  BY AnswerReq
<1>2. \A q \in Reqs, d \in Codes : Holding(q, d)' => Holding(q, d) /\ q # r
  <2> TAKE q \in Reqs, d \in Codes
  <2>1. req[q].pc = "issue_next" => req[q].cred \in Grants \ {g}
    BY DEF ReqShape, GrantPcs
  <2> QED
    BY <1>1, <2>1 DEF Holding
<1>3. \A q \in Reqs : ~Holding(q, c)'
  BY <1>2 DEF SingleBearer
<1>4. \A h \in Grants : ~(Live(h) /\ grant[h].root = c)
  BY DEF SingleBearer
<1>5. \A h \in Grants \ {g} : (Live(h)' <=> Live(h)) /\ grant'[h].root = grant[h].root
  BY DEF Live
<1>6. code[c].st \notin {"absent", "unused"}
  BY DEF SingleBearer
<1> QED
  BY <1>2, <1>3, <1>4, <1>5, <1>6 DEF SingleBearer

\* Every other step of a handler copies no baton.
LEMMA BearerStep ==
    ASSUME Shape, SingleBearer, NEW r \in Reqs, Step(r) PROVE SingleBearer'
<1> USE DEF Shape, TypeOK
\* A step after which r holds nothing and grants are live only if they were.
<1>1. ASSUME \A q \in Reqs \ {r} : req'[q] = req[q],
             req'[r].pc \notin {"issue_tokens", "issue_next"},
             \A c \in Codes : code'[c].st \in {"absent", "unused"} =>
                                code[c].st \in {"absent", "unused"},
             \A g \in Grants : /\ grant'[g].root = grant[g].root
                               /\ Live(g)' => Live(g)
      PROVE  SingleBearer'
  <2>1. \A q \in Reqs, c \in Codes : Holding(q, c)' => Holding(q, c)
    <3> TAKE q \in Reqs, c \in Codes
    <3>1. req[q].pc = "issue_next" => req[q].cred \in Grants
      BY DEF ReqShape, GrantPcs
    <3> QED
      BY <1>1, <3>1 DEF Holding
  <2> QED
    BY <1>1, <2>1, BearerFrame
<1>2. ASSUME Answer(r)
      PROVE  /\ req'[r].pc \notin {"issue_tokens", "issue_next"}
             /\ \A q \in Reqs \ {r} : req'[q] = req[q]
  BY <1>2, AnswerReq
<1>3. CASE IssueCode(r)
  <2>1. \A c \in Codes : code'[c].st \in {"absent", "unused"} =>
                           code[c].st \in {"absent", "unused"}
    BY <1>3 DEF IssueCode
  <2> QED
    BY <1>1, <1>2, <1>3, <2>1 DEF IssueCode, Live
<1>4. CASE RevokeReplayed(r)
  BY <1>1, <1>2, <1>4, RevokeRows DEF RevokeReplayed
<1>5. CASE IssueTokens(r)
  <2>1. CASE ~req[r].offline
    BY <1>1, <1>2, <1>5, <2>1 DEF IssueTokens, Live
  <2>2. CASE req[r].offline
    <3>1. req[r].cred \in Codes /\ Holding(r, req[r].cred)
      BY <1>5 DEF IssueTokens, ReqShape, CodePcs, Holding
    <3>2. PICK g \in Grants : NewGrant(g, req[r].client, req[r].sid, None, req[r].cred)
      BY <1>5, <2>2 DEF IssueTokens
    <3>3. /\ ~Present(g) /\ grant'[g].root = req[r].cred
          /\ \A h \in Grants \ {g} : grant'[h] = grant[h]
      BY <3>2 DEF NewGrant, Present
    <3> QED
      BY <1>5, <3>1, <3>3, BearerNewGrant DEF IssueTokens
  <2> QED
    BY <2>1, <2>2
<1>6. CASE CheckSession(r)
  <2>1. Goto(r, "rotate") \/ Answer(r)
    BY <1>6 DEF CheckSession
  <2>2. /\ req'[r].pc \in {"idle", "rotate"}
        /\ \A q \in Reqs \ {r} : req'[q] = req[q]
    BY <2>1, AnswerReq, GotoReq DEF Pcs
  <2> QED
    BY <1>1, <1>6, <2>2 DEF CheckSession, rows, Live
<1>7. CASE IssueNext(r)
  <2> DEFINE old == req[r].cred
             c == grant[old].root
  <2>1. old \in Grants /\ Present(old)
    BY <1>7 DEF IssueNext, ReqShape, GrantPcs
  <2>2. c \in Codes /\ Holding(r, c)
    BY <1>7, <2>1 DEF IssueNext, GrantShape, Holding
  <2>3. PICK g \in Grants : NewGrant(g, grant[old].client, grant[old].sid, old, c)
    BY <1>7 DEF IssueNext
  <2>4. /\ ~Present(g) /\ grant'[g].root = c
        /\ \A h \in Grants \ {g} : grant'[h] = grant[h]
    BY <2>3 DEF NewGrant, Present
  <2> QED
    BY <1>7, <2>2, <2>4, BearerNewGrant DEF IssueNext
<1>8. CASE RevokeReused(r)
  <2>1. /\ req'[r].pc = "kill_session"
        /\ \A q \in Reqs \ {r} : req'[q] = req[q]
    BY <1>8, GotoReq DEF RevokeReused, Pcs
  <2> QED
    BY <1>1, <1>8, <2>1, RevokeRows DEF RevokeReused
<1>9. CASE KillSession(r)
  BY <1>1, <1>2, <1>9 DEF KillSession, Live
<1>10. CASE EndGrants(r)
  BY <1>1, <1>2, <1>10, RevokeRows DEF EndGrants
<1> QED
  BY <1>3, <1>4, <1>5, <1>6, <1>7, <1>8, <1>9, <1>10, BearerConsume, BearerRotate DEF Step

LEMMA BearerAbort ==
    ASSUME Shape, SingleBearer, NEW r \in Reqs, Abort(r) PROVE SingleBearer'
<1> USE DEF Shape, TypeOK
<1>1. /\ req'[r].pc = "idle"
      /\ \A q \in Reqs \ {r} : req'[q] = req[q]
  BY AnswerReq DEF Abort
<1>2. UNCHANGED <<code, grant>>
  BY DEF Abort, rows
<1>3. \A q \in Reqs, c \in Codes : Holding(q, c)' => Holding(q, c)
  BY <1>1, <1>2 DEF Holding
<1> QED
  BY <1>2, <1>3, BearerFrame DEF Live

LEMMA BearerEnvironment ==
    ASSUME Shape, SingleBearer, Environment PROVE SingleBearer'
<1> USE DEF Shape, TypeOK
<1>1. UNCHANGED req
  BY DEF Environment, RevokeToken, LapseGrant, DeactivateSession, LapseSession,
     ExtendSession, LapseCode, PurgeExpiredCodes
<1>2. \A c \in Codes : code'[c].st \in {"absent", "unused"} =>
                         code[c].st \in {"absent", "unused"}
  BY DEF Environment, RevokeToken, LapseGrant, DeactivateSession, LapseSession,
     ExtendSession, LapseCode, PurgeExpiredCodes, CodeRow
<1>3. \A g \in Grants : grant'[g].root = grant[g].root /\ (Live(g)' => Live(g))
  BY DEF Environment, RevokeToken, LapseGrant, DeactivateSession, LapseSession,
     ExtendSession, LapseCode, PurgeExpiredCodes, GrantRow, Live
<1>4. \A q \in Reqs, c \in Codes : Holding(q, c)' => Holding(q, c)
  <2> TAKE q \in Reqs, c \in Codes
  <2>1. req[q].pc = "issue_next" => req[q].cred \in Grants
    BY DEF ReqShape, GrantPcs
  <2> QED
    BY <1>1, <1>3, <2>1 DEF Holding
<1> QED
  BY <1>2, <1>3, <1>4, BearerFrame

LEMMA BearerNext == Shape /\ SingleBearer /\ [Next]_vars => SingleBearer'
<1> SUFFICES ASSUME Shape, SingleBearer, [Next]_vars PROVE SingleBearer'
  OBVIOUS
<1>1. CASE UNCHANGED vars
  BY <1>1 DEF vars, rows, SingleBearer, Holding, Live
<1> QED
  BY <1>1, BearerArrive, BearerStep, BearerAbort, BearerEnvironment DEF Next

\* The right to the next token of a sign-in is never in two places: of any
\* number of concurrent exchanges of one code or refresh token, one succeeds.
THEOREM BatonNeverCopied == Spec => []SingleBearer
<1>1. Init => SingleBearer
  BY DEF Init, SingleBearer, Holding, Live, NoCodeRow, NoGrantRow, Idle
<1>2. Shape /\ SingleBearer /\ [Next]_vars => (Shape /\ SingleBearer)'
  BY ShapeNext, BearerNext
<1>3. Shape /\ SingleBearer => SingleBearer
  OBVIOUS
<1> QED
  BY <1>1, <1>2, <1>3, ShapeInit, PTL DEF Spec

-------------------------------------------------------------------------------
(* A session that was ended refreshes no token *)

\* An ended session stays inactive, a refresh that began after it cannot have
\* passed the session check.
SessionInv ==
    /\ \A s \in contained : ~session[s].active
    /\ \A r \in Reqs :
         /\ req[r].pc = "check_session" /\ req[r].late => ~session[req[r].sid].active
         /\ req[r].pc \in {"rotate", "issue_next"} => ~req[r].late

\* The session rows: nothing makes one active again.
LEMMA NeverReactivated ==
    ASSUME Shape, [Next]_vars, NEW s \in Sessions, session'[s].active
    PROVE  session[s].active
<1> USE DEF Shape, TypeOK
<1>1. CASE UNCHANGED session
  BY <1>1
<1>2. ASSUME NEW t, DeactivateRow(t) PROVE session[s].active
  BY <1>2 DEF DeactivateRow, SessionRow
<1>3. ASSUME NEW t \in Sessions, LapseSession(t) \/ ExtendSession(t) PROVE session[s].active
  BY <1>3 DEF LapseSession, ExtendSession, SessionRow
<1>4. ASSUME NEW r \in Reqs, Arrive(r) PROVE session[s].active
  BY <1>1, <1>2, <1>4 DEF Arrive, Authorize, PresentCode, PresentGrant, EndSession, rows
<1>5. ASSUME NEW r \in Reqs, Step(r) PROVE session[s].active
  BY <1>1, <1>2, <1>5 DEF Step, IssueCode, Consume, RevokeReplayed, IssueTokens,
     CheckSession, Rotate, IssueNext, RevokeReused, KillSession, EndGrants, rows
<1>6. ASSUME NEW r \in Reqs, Abort(r) PROVE session[s].active
  BY <1>1, <1>6 DEF Abort, rows
<1>7. CASE Environment
  BY <1>1, <1>2, <1>3, <1>7 DEF Environment, RevokeToken, LapseGrant, DeactivateSession,
     LapseCode, PurgeExpiredCodes
<1>8. CASE UNCHANGED vars
  BY <1>1, <1>8 DEF vars, rows
<1> QED
  BY <1>4, <1>5, <1>6, <1>7, <1>8 DEF Next

\* A session enters the history variable only when its row is deactivated.
LEMMA ContainedInactive ==
    ASSUME Shape, SessionInv, [Next]_vars, NEW s \in contained'
    PROVE  ~session'[s].active
<1> USE DEF Shape, TypeOK
<1>1. CASE s \in contained
  BY <1>1, NeverReactivated DEF SessionInv
<1>2. CASE s \notin contained
  <2>1. PICK r \in Reqs : KillSession(r) /\ s = req[r].sid
    BY <1>2 DEF Next, Arrive, Authorize, PresentCode, PresentGrant, EndSession, Step,
       IssueCode, Consume, RevokeReplayed, IssueTokens, CheckSession, Rotate, IssueNext,
       RevokeReused, KillSession, EndGrants, Abort, Environment, RevokeToken, LapseGrant,
       DeactivateSession, LapseSession, ExtendSession, LapseCode, PurgeExpiredCodes,
       rows, vars
  <2>2. s \in Sessions
    BY <2>1 DEF KillSession, ReqShape
  <2> QED
    BY <2>1, <2>2 DEF KillSession, DeactivateRow, SessionRow
<1> QED
  BY <1>1, <1>2

\* What a request knows about lateness, from one state to the next.
ReqSession(r) ==
    /\ req[r].pc = "check_session" /\ req[r].late => ~session[req[r].sid].active
    /\ req[r].pc \in {"rotate", "issue_next"} => ~req[r].late

LEMMA ReqSessionKept ==
    ASSUME Shape, SessionInv, [Next]_vars, NEW q \in Reqs, req'[q] = req[q]
    PROVE  ReqSession(q)'
<1>1. req[q].pc = "check_session" => req[q].sid \in Sessions
  BY DEF Shape, ReqShape
<1> QED
  BY <1>1, NeverReactivated DEF SessionInv, ReqSession

LEMMA ReqSessionArrive ==
    ASSUME Shape, SessionInv, NEW r \in Reqs, Arrive(r) PROVE ReqSession(r)'
<1> USE DEF Shape, TypeOK
<1>1. ASSUME NEW g \in Grants, NEW cl \in Clients, PresentGrant(r, g, cl)
      PROVE  ReqSession(r)'
  <2>1. CASE Begin(r, "reuse", cl, grant[g].sid, g, FALSE, FALSE)
    BY <2>1 DEF Begin, ReqSession
  <2>2. CASE Begin(r, "check_session", cl, grant[g].sid, g, FALSE, Ended(grant[g].sid))
    <3>1. /\ req'[r].pc = "check_session" /\ req'[r].sid = grant[g].sid
          /\ req'[r].late = Ended(grant[g].sid)
      BY <2>2 DEF Begin
    <3>2. Ended(grant[g].sid) => ~session[grant[g].sid].active
      BY DEF Ended, SessionInv
    <3>3. UNCHANGED session
      BY <1>1 DEF PresentGrant, rows
    <3> QED
      BY <3>1, <3>2, <3>3 DEF ReqSession
  <2> QED
    BY <1>1, <2>1, <2>2 DEF PresentGrant
<1>2. ASSUME req'[r].pc \notin {"check_session", "rotate", "issue_next"}
      PROVE  ReqSession(r)'
  BY <1>2 DEF ReqSession
<1> QED
  BY <1>1, <1>2 DEF Arrive, Authorize, PresentCode, EndSession, Begin

LEMMA ReqSessionStep ==
    ASSUME Shape, SessionInv, NEW r \in Reqs, Step(r) PROVE ReqSession(r)'
<1> USE DEF Shape, TypeOK
<1>1. ASSUME req'[r].pc \notin {"check_session", "rotate", "issue_next"}
      PROVE  ReqSession(r)'
  BY <1>1 DEF ReqSession
<1>2. CASE Answer(r)
  BY <1>1, <1>2, AnswerReq
<1>3. ASSUME NEW pc \in Pcs \ {"check_session", "rotate", "issue_next"}, Goto(r, pc)
      PROVE  ReqSession(r)'
  BY <1>1, <1>3, GotoReq
<1>4. CASE Consume(r) \/ RevokeReused(r)
  BY <1>3, <1>4 DEF Consume, RevokeReused, Pcs
<1>5. CASE CheckSession(r) /\ SessionLive(req[r].sid)
  <2>1. ~req[r].late
    BY <1>5 DEF CheckSession, SessionLive, SessionInv, ReqState
  <2>2. Goto(r, "rotate") /\ "rotate" \in Pcs
    BY <1>5 DEF CheckSession, Pcs
  <2>3. req'[r].pc = "rotate" /\ req'[r].late = req[r].late
    BY <2>2, GotoReq
  <2> QED
    BY <2>1, <2>3 DEF ReqSession
<1>6. CASE Rotate(r) /\ ~Answer(r)
  <2>1. ~req[r].late
    BY <1>6 DEF Rotate, SessionInv
  <2>2. Goto(r, "issue_next") /\ "issue_next" \in Pcs
    BY <1>6 DEF Rotate, Pcs
  <2>3. req'[r].pc = "issue_next" /\ req'[r].late = req[r].late
    BY <2>2, GotoReq
  <2> QED
    BY <2>1, <2>3 DEF ReqSession
<1> QED
  BY <1>2, <1>4, <1>5, <1>6 DEF Step, IssueCode, RevokeReplayed, IssueTokens, CheckSession,
     Rotate, IssueNext, KillSession, EndGrants

LEMMA SessionInvNext == Shape /\ SessionInv /\ [Next]_vars => SessionInv'
<1> SUFFICES ASSUME Shape, SessionInv, [Next]_vars PROVE SessionInv'
  OBVIOUS
<1>1. ASSUME NEW r \in Reqs PROVE ReqSession(r)'
  <2>1. CASE req'[r] = req[r]
    BY <2>1, ReqSessionKept
  <2>2. CASE req'[r] # req[r]
    <3>1. PICK q \in Reqs : Arrive(q) \/ Step(q) \/ Abort(q)
      BY <2>2 DEF Next, Environment, RevokeToken, LapseGrant, DeactivateSession,
         LapseSession, ExtendSession, LapseCode, PurgeExpiredCodes, vars
    <3>2. q = r
      BY <2>2, <3>1 DEF Arrive, Authorize, PresentCode, PresentGrant, EndSession, Begin,
         Step, IssueCode, Consume, RevokeReplayed, IssueTokens, CheckSession, Rotate,
         IssueNext, RevokeReused, KillSession, EndGrants, Abort, Goto, Answer,
         Shape, TypeOK
    <3>3. CASE Abort(r)
      BY <3>3, AnswerReq DEF Abort, ReqSession, Shape, TypeOK
    <3> QED
      BY <3>1, <3>2, <3>3, ReqSessionArrive, ReqSessionStep
  <2> QED
    BY <2>1, <2>2
<1> QED
  BY <1>1, ContainedInactive DEF SessionInv, ReqSession

\* Logout, the session cap and the reuse teardown are final for refresh tokens:
\* a refresh that begins afterwards is never answered with tokens.
THEOREM EndedSessionsRefreshNothing == Spec => []NoRefreshAfterSessionEnd
<1>1. Init => SessionInv
  BY DEF Init, SessionInv, Idle
<1>2. Shape /\ SessionInv /\ [Next]_vars => (Shape /\ SessionInv)'
  BY ShapeNext, SessionInvNext
<1>3. SessionInv => NoRefreshAfterSessionEnd
  BY DEF SessionInv, NoRefreshAfterSessionEnd
<1> QED
  BY <1>1, <1>2, <1>3, ShapeInit, PTL DEF Spec

-------------------------------------------------------------------------------
(* A chain of rotations is a path *)

\* A credential that has been replaced is spent, and no request still has the
\* right to replace it.
Replaced ==
    \A g \in Grants : Present(g) =>
       /\ grant[g].from # None =>
            /\ grant[g].from \in Grants
            /\ grant[grant[g].from].st = "revoked"
            /\ \A r \in Reqs : ~(req[r].pc = "issue_next" /\ req[r].cred = grant[g].from)
       /\ grant[g].from = None =>
            \A r \in Reqs : ~(req[r].pc = "issue_tokens" /\ req[r].cred = grant[g].root)

LinearInv == LinearRotation /\ Replaced

\* A step that creates no grant and sends no request to issue one keeps LinearInv.
LEMMA LinearFrame ==
    ASSUME Shape, LinearInv,
           \A g \in Grants : /\ grant'[g].from = grant[g].from
                             /\ grant'[g].root = grant[g].root
                             /\ Present(g)' <=> Present(g)
                             /\ grant[g].st = "revoked" => grant'[g].st = "revoked",
           \A r \in Reqs : \/ req'[r] = req[r]
                           \/ req'[r].pc \notin {"issue_tokens", "issue_next"}
    PROVE  LinearInv'
<1>1. LinearRotation'
  BY DEF LinearInv, LinearRotation
<1>2. Replaced'
  BY DEF LinearInv, Replaced
<1> QED
  BY <1>1, <1>2 DEF LinearInv

\* The code that is consumed was unused, so no grant comes from it yet.
LEMMA LinearConsume ==
    ASSUME Shape, LinearInv, NEW r \in Reqs, Consume(r) PROVE LinearInv'
<1> USE DEF Shape, TypeOK
<1> DEFINE c == req[r].cred
<1>1. c \in Codes /\ UNCHANGED grant
  BY DEF Consume, ReqShape, CodePcs
<1>2. CASE code[c].st = "unused"
  <2>1. Goto(r, "issue_tokens")
    BY <1>2 DEF Consume
  <2>2. /\ req'[r].pc = "issue_tokens" /\ req'[r].cred = c
        /\ \A q \in Reqs \ {r} : req'[q] = req[q]
    BY <2>1, GotoReq DEF Pcs
  <2>3. \A g \in Grants : Present(g) => grant[g].root # c
    BY <1>1, <1>2 DEF GrantShape
  <2>4. LinearRotation'
    BY <1>1 DEF LinearInv, LinearRotation, Present
  <2>5. Replaced'
    BY <1>1, <2>2, <2>3 DEF LinearInv, Replaced, Present
  <2> QED
    BY <2>4, <2>5 DEF LinearInv
<1>3. CASE code[c].st # "unused"
  <2>1. Goto(r, "replay")
    BY <1>3 DEF Consume
  <2>2. req'[r].pc = "replay" /\ \A q \in Reqs \ {r} : req'[q] = req[q]
    BY <2>1, GotoReq DEF Pcs
  <2> QED
    BY <1>1, <2>2, LinearFrame DEF Present
<1> QED
  BY <1>2, <1>3

\* The grant that is rotated was live, so no grant replaces it yet.
LEMMA LinearRotate ==
    ASSUME Shape, LinearInv, NEW r \in Reqs, Rotate(r) PROVE LinearInv'
<1> USE DEF Shape, TypeOK
<1> DEFINE g == req[r].cred
<1>1. g \in Grants
  BY DEF Rotate, ReqShape, GrantPcs
<1>2. \A h \in Grants : /\ grant'[h].from = grant[h].from
                        /\ grant'[h].root = grant[h].root
                        /\ Present(h)' <=> Present(h)
                        /\ grant[h].st = "revoked" => grant'[h].st = "revoked"
  <2>1. CASE Live(g)
    BY <1>1, <2>1 DEF Rotate, GrantRow, Present, Live
  <2>2. CASE ~Live(g)
    BY <2>2 DEF Rotate, Present, Live
  <2> QED
    BY <2>1, <2>2
<1>3. CASE Live(g)
  <2>1. Goto(r, "issue_next")
    BY <1>3 DEF Rotate, Live
  <2>2. /\ req'[r].pc = "issue_next" /\ req'[r].cred = g
        /\ \A q \in Reqs \ {r} : req'[q] = req[q]
    BY <2>1, GotoReq DEF Pcs
  <2>3. \A h \in Grants : Present(h) /\ grant[h].from # None => grant[h].from # g
    BY <1>3 DEF LinearInv, Replaced, Live
  <2>4. LinearRotation'
    BY <1>2 DEF LinearInv, LinearRotation
  <2>5. Replaced'
    BY <1>2, <2>2, <2>3 DEF LinearInv, Replaced
  <2> QED
    BY <2>4, <2>5 DEF LinearInv
<1>4. CASE ~Live(g)
  <2>1. Answer(r)
    BY <1>4 DEF Rotate, Live
  <2>2. req'[r].pc = "idle" /\ \A q \in Reqs \ {r} : req'[q] = req[q]
    BY <2>1, AnswerReq
  <2> QED
    BY <1>2, <2>2, LinearFrame
<1> QED
  BY <1>3, <1>4

\* A grant is created in a place of the chain that was free, and by the only
\* request that could have created one there.
LEMMA LinearNewGrant ==
    ASSUME Shape, LinearInv, NEW r \in Reqs, NEW g \in Grants, NEW c, NEW f,
           ~Present(g), Present(g)', grant'[g].from = f, grant'[g].root = c,
           \A h \in Grants \ {g} : grant'[h] = grant[h],
           \A h \in Grants : ~(Present(h) /\ grant[h].from = f /\ grant[h].root = c),
           f # None => f \in Grants /\ grant[f].st = "revoked",
           \A q \in Reqs \ {r} :
              /\ f # None => ~(req[q].pc = "issue_next" /\ req[q].cred = f)
              /\ f = None => ~(req[q].pc = "issue_tokens" /\ req[q].cred = c),
           Answer(r)
    PROVE  LinearInv'
<1> USE DEF Shape, TypeOK
<1>1. req'[r].pc = "idle" /\ \A q \in Reqs \ {r} : req'[q] = req[q]
  BY AnswerReq
<1>2. \A h \in Grants \ {g} : Present(h)' <=> Present(h)
  BY DEF Present
<1>3. LinearRotation'
  BY <1>2 DEF LinearInv, LinearRotation
<1>4. \A h \in Grants : grant[h].st = "revoked" => h # g /\ grant'[h].st = "revoked"
  BY DEF Present
<1>5. Replaced'
  <2> SUFFICES ASSUME NEW h \in Grants, Present(h)' PROVE Replaced!(h)!2'
    BY DEF Replaced
  <2>1. CASE h = g
    BY <1>1, <1>4, <2>1 DEF LinearInv, Replaced
  <2>2. CASE h # g
    BY <1>1, <1>2, <1>4, <2>2 DEF LinearInv, Replaced
  <2> QED
    BY <2>1, <2>2
<1> QED
  BY <1>3, <1>5 DEF LinearInv

LEMMA LinearStep ==
    ASSUME Shape, SingleBearer, LinearInv, NEW r \in Reqs, Step(r) PROVE LinearInv'
<1> USE DEF Shape, TypeOK
<1>1. ASSUME Answer(r)
      PROVE  /\ req'[r].pc = "idle"
             /\ \A q \in Reqs \ {r} : req'[q] = req[q]
  BY <1>1, AnswerReq
<1>2. CASE IssueCode(r)
  BY <1>1, <1>2, LinearFrame DEF IssueCode, Present
<1>3. CASE RevokeReplayed(r)
  BY <1>1, <1>3, RevokeRows, LinearFrame DEF RevokeReplayed
<1>4. CASE IssueTokens(r)
  <2> DEFINE c == req[r].cred
  <2>1. CASE ~req[r].offline
    BY <1>1, <1>4, <2>1, LinearFrame DEF IssueTokens, Present
  <2>2. CASE req[r].offline
    <3>1. c \in Codes /\ Holding(r, c) /\ req[r].pc = "issue_tokens"
      BY <1>4 DEF IssueTokens, ReqShape, CodePcs, Holding
    <3>2. PICK g \in Grants : NewGrant(g, req[r].client, req[r].sid, None, c)
      BY <1>4, <2>2 DEF IssueTokens
    <3>3. /\ ~Present(g) /\ Present(g)'
          /\ grant'[g].from = None /\ grant'[g].root = c
          /\ \A h \in Grants \ {g} : grant'[h] = grant[h]
      BY <3>2 DEF NewGrant, Present
    <3>4. \A h \in Grants : ~(Present(h) /\ grant[h].from = None /\ grant[h].root = c)
      BY <3>1 DEF LinearInv, Replaced
    <3>5. \A q \in Reqs \ {r} : ~(req[q].pc = "issue_tokens" /\ req[q].cred = c)
      BY <3>1 DEF SingleBearer, Holding
    <3>6. Answer(r)
      BY <1>4 DEF IssueTokens
    <3> QED
      BY <3>3, <3>4, <3>5, <3>6, LinearNewGrant
  <2> QED
    BY <2>1, <2>2
<1>5. CASE CheckSession(r)
  <2>1. Goto(r, "rotate") \/ Answer(r)
    BY <1>5 DEF CheckSession
  <2>2. /\ req'[r].pc \in {"idle", "rotate"}
        /\ \A q \in Reqs \ {r} : req'[q] = req[q]
    BY <2>1, AnswerReq, GotoReq DEF Pcs
  <2> QED
    BY <1>5, <2>2, LinearFrame DEF CheckSession, rows, Present
<1>6. CASE IssueNext(r)
  <2> DEFINE old == req[r].cred
             c == grant[old].root
  <2>1. /\ old \in Grants /\ grant[old].st = "revoked" /\ Present(old)
        /\ req[r].pc = "issue_next"
    BY <1>6 DEF IssueNext, ReqShape, GrantPcs
  <2>2. c \in Codes /\ Holding(r, c) /\ old # None
    BY <2>1, ConstAssumption DEF GrantShape, Holding
  <2>3. PICK g \in Grants : NewGrant(g, grant[old].client, grant[old].sid, old, c)
    BY <1>6 DEF IssueNext
  <2>4. /\ ~Present(g) /\ Present(g)'
        /\ grant'[g].from = old /\ grant'[g].root = c
        /\ \A h \in Grants \ {g} : grant'[h] = grant[h]
    BY <2>3 DEF NewGrant, Present
  <2>5. \A h \in Grants : ~(Present(h) /\ grant[h].from = old /\ grant[h].root = c)
    BY <2>1, <2>2 DEF LinearInv, Replaced
  <2>6. \A q \in Reqs \ {r} : ~(req[q].pc = "issue_next" /\ req[q].cred = old)
    BY <2>2 DEF SingleBearer, Holding
  <2>7. Answer(r)
    BY <1>6 DEF IssueNext
  <2> QED
    BY <2>1, <2>2, <2>4, <2>5, <2>6, <2>7, LinearNewGrant
<1>7. CASE RevokeReused(r)
  <2>1. /\ req'[r].pc = "kill_session"
        /\ \A q \in Reqs \ {r} : req'[q] = req[q]
    BY <1>7, GotoReq DEF RevokeReused, Pcs
  <2> QED
    BY <1>7, <2>1, RevokeRows, LinearFrame DEF RevokeReused
<1>8. CASE KillSession(r)
  BY <1>1, <1>8, LinearFrame DEF KillSession, Present
<1>9. CASE EndGrants(r)
  BY <1>1, <1>9, RevokeRows, LinearFrame DEF EndGrants
<1> QED
  BY <1>2, <1>3, <1>4, <1>5, <1>6, <1>7, <1>8, <1>9, LinearConsume, LinearRotate DEF Step

LEMMA LinearNext == Shape /\ SingleBearer /\ LinearInv /\ [Next]_vars => LinearInv'
<1> SUFFICES ASSUME Shape, SingleBearer, LinearInv, [Next]_vars PROVE LinearInv'
  OBVIOUS
<1> USE DEF Shape, TypeOK
<1>1. ASSUME NEW r \in Reqs, Arrive(r) PROVE LinearInv'
  <2>1. UNCHANGED grant
    BY <1>1 DEF Arrive, Authorize, PresentCode, PresentGrant, EndSession, rows
  <2>2. /\ req'[r].pc \notin {"issue_tokens", "issue_next"}
        /\ \A q \in Reqs \ {r} : req'[q] = req[q]
    BY <1>1 DEF Arrive, Authorize, PresentCode, PresentGrant, EndSession, Begin, ReqState
  <2> QED
    BY <2>1, <2>2, LinearFrame DEF Present
<1>2. ASSUME NEW r \in Reqs, Abort(r) PROVE LinearInv'
  <2>1. req'[r].pc = "idle" /\ \A q \in Reqs \ {r} : req'[q] = req[q]
    BY <1>2, AnswerReq DEF Abort
  <2> QED
    BY <1>2, <2>1, LinearFrame DEF Abort, rows, Present
<1>3. CASE Environment
  <2>1. UNCHANGED req
    BY <1>3 DEF Environment, RevokeToken, LapseGrant, DeactivateSession, LapseSession,
       ExtendSession, LapseCode, PurgeExpiredCodes
  <2>2. \A g \in Grants : /\ grant'[g].from = grant[g].from
                          /\ grant'[g].root = grant[g].root
                          /\ Present(g)' <=> Present(g)
                          /\ grant[g].st = "revoked" => grant'[g].st = "revoked"
    <3> TAKE g \in Grants
    <3>1. ASSUME NEW h \in Grants, RevokeToken(h)
          PROVE  /\ grant'[g].from = grant[g].from /\ grant'[g].root = grant[g].root
                 /\ Present(g)' <=> Present(g)
                 /\ grant[g].st = "revoked" => grant'[g].st = "revoked"
      BY <3>1 DEF RevokeToken, GrantRow, Present
    <3>2. ASSUME NEW h \in Grants, LapseGrant(h)
          PROVE  /\ grant'[g].from = grant[g].from /\ grant'[g].root = grant[g].root
                 /\ Present(g)' <=> Present(g)
                 /\ grant[g].st = "revoked" => grant'[g].st = "revoked"
      BY <3>2 DEF LapseGrant, GrantRow, Present
    <3>3. CASE UNCHANGED grant
      BY <3>3 DEF Present
    <3> QED
      BY <1>3, <3>1, <3>2, <3>3 DEF Environment, DeactivateSession, LapseSession,
         ExtendSession, LapseCode, PurgeExpiredCodes
  <2> QED
    BY <2>1, <2>2, LinearFrame
<1>4. CASE UNCHANGED vars
  BY <1>4, LinearFrame DEF vars, rows, Present
<1> QED
  BY <1>1, <1>2, <1>3, <1>4, LinearStep DEF Next

\* A code is exchanged for at most one refresh token and a refresh token for at
\* most one other, in the whole life of the rows.
THEOREM RotationIsLinear == Spec => []LinearRotation
<1>1. Init => SingleBearer /\ LinearInv
  BY DEF Init, SingleBearer, LinearInv, LinearRotation, Replaced, Holding, Live, Present,
     NoCodeRow, NoGrantRow, Idle
<1>2. Shape /\ SingleBearer /\ LinearInv /\ [Next]_vars => (Shape /\ SingleBearer /\ LinearInv)'
  BY ShapeNext, BearerNext, LinearNext
<1>3. LinearInv => LinearRotation
  BY DEF LinearInv
<1> QED
  BY <1>1, <1>2, <1>3, ShapeInit, PTL DEF Spec

-------------------------------------------------------------------------------
(* The grants implement the abstract chain *)

\* Who has the baton decides the stage, and nobody else has it.
LEMMA StageCases ==
    ASSUME Shape, SingleBearer, NEW c \in Codes
    PROVE  /\ ChainStage(c) = "none" <=> code[c].st = "absent"
           /\ ChainStage(c) = "code" <=> code[c].st = "unused"
           /\ ChainStage(c) = "server" <=> \E r \in Reqs : Holding(r, c)
           /\ ChainStage(c) = "grant" <=> \E g \in Grants : Live(g) /\ grant[g].root = c
BY DEF ChainStage, SingleBearer

\* A step that gives nobody a baton: the chains whose baton is gone have lost it.
LEMMA ChainLose ==
    ASSUME Shape, SingleBearer, Shape', SingleBearer',
           \A c \in Codes : /\ code'[c].st = "absent" <=> code[c].st = "absent"
                            /\ code'[c].st = "unused" => code[c].st = "unused",
           \A g \in Grants : /\ grant'[g].root = grant[g].root
                             /\ Live(g)' => Live(g),
           \A r \in Reqs, c \in Codes : Holding(r, c)' => Holding(r, c)
    PROVE  [Chain!Next]_Chain!vars
<1> DEFINE C == {c \in Codes : ChainStage(c)' = "lost"}
<1>1. \A c \in Codes : /\ c \in C => ChainStage(c) # "none"
                       /\ c \notin C => ChainStage(c)' = ChainStage(c)
  <2> TAKE c \in Codes
  <2>1. /\ ChainStage(c)' = "none" <=> code'[c].st = "absent"
        /\ ChainStage(c)' = "code" <=> code'[c].st = "unused"
        /\ ChainStage(c)' = "server" <=> \E r \in Reqs : Holding(r, c)'
        /\ ChainStage(c)' = "grant" <=> \E g \in Grants : Live(g)' /\ grant'[g].root = c
    BY DEF ChainStage, SingleBearer
  <2>2. ChainStage(c)' \in {"none", "code", "server", "grant", "lost"}
    BY DEF ChainStage
  <2> QED
    BY <2>1, <2>2, StageCases
<1>2. \A g \in Grants : Live(g)' <=> Live(g) /\ grant[g].root \notin C
  <2> TAKE g \in Grants
  <2>1. ASSUME Live(g)' PROVE grant[g].root \notin C
    <3>1. grant[g].root \in Codes /\ Live(g) /\ grant'[g].root = grant[g].root
      BY <2>1 DEF Shape, GrantShape, Present, Live
    <3> QED
      BY <2>1, <3>1 DEF ChainStage, SingleBearer
  <2>2. ASSUME Live(g), grant[g].root \notin C PROVE Live(g)'
    <3>1. grant[g].root \in Codes
      BY <2>2 DEF Shape, GrantShape, Present, Live
    <3>2. ChainStage(grant[g].root)' = "grant"
      BY <1>1, <2>2, <3>1, StageCases
    <3>3. PICK h \in Grants : Live(h)' /\ grant'[h].root = grant[g].root
      BY <3>1, <3>2 DEF ChainStage
    <3>4. h = g
      BY <2>2, <3>1, <3>3 DEF SingleBearer
    <3> QED
      BY <3>3, <3>4
  <2> QED
    BY <2>1, <2>2
<1>3. Chain!Lose(C)
  <2>1. [c \in Codes |-> ChainStage(c)]' =
           [c \in Codes |-> IF c \in C THEN "lost" ELSE [d \in Codes |-> ChainStage(d)][c]]
    BY <1>1
  <2>2. {g \in Grants : Live(g)}' =
           {g \in {h \in Grants : Live(h)} : [h \in Grants |-> grant[h].root][g] \notin C}
    BY <1>2
  <2>3. [g \in Grants |-> grant[g].root]' = [g \in Grants |-> grant[g].root]
    OBVIOUS
  <2>4. \A c \in C : [d \in Codes |-> ChainStage(d)][c] # "none"
    BY <1>1
  <2> QED
    BY <2>1, <2>2, <2>3, <2>4 DEF Chain!Lose
<1>4. C \in SUBSET Codes
  OBVIOUS
<1> QED
  BY <1>3, <1>4 DEF Chain!Next

\* A step after which r holds nothing, like most steps of a handler.
LEMMA ChainQuiet ==
    ASSUME Shape, SingleBearer, Shape', SingleBearer', NEW r \in Reqs,
           \A q \in Reqs \ {r} : req'[q] = req[q],
           req'[r].pc \notin {"issue_tokens", "issue_next"},
           \A c \in Codes : /\ code'[c].st = "absent" <=> code[c].st = "absent"
                            /\ code'[c].st = "unused" => code[c].st = "unused",
           \A g \in Grants : /\ grant'[g].root = grant[g].root
                             /\ Live(g)' => Live(g)
    PROVE  [Chain!Next]_Chain!vars
<1>1. \A q \in Reqs, c \in Codes : Holding(q, c)' => Holding(q, c)
  <2> TAKE q \in Reqs, c \in Codes
  <2>1. req[q].pc = "issue_next" => req[q].cred \in Grants
    BY DEF Shape, ReqShape, GrantPcs
  <2> QED
    BY <2>1 DEF Holding
<1> QED
  BY <1>1, ChainLose

\* What a chain needs to know of the others: nothing changes for them.
LEMMA StageKept ==
    ASSUME Shape, SingleBearer, Shape', SingleBearer', NEW c \in Codes,
           code'[c].st = code[c].st,
           \A r \in Reqs : Holding(r, c)' <=> Holding(r, c),
           \A g \in Grants : Live(g)' /\ grant'[g].root = c <=> Live(g) /\ grant[g].root = c
    PROVE  ChainStage(c)' = ChainStage(c)
BY DEF ChainStage

LEMMA ChainIssue ==
    ASSUME Shape, SingleBearer, Shape', SingleBearer', NEW r \in Reqs, IssueCode(r)
    PROVE  Chain!Next
<1> USE DEF Shape, TypeOK
<1>1. PICK c \in Codes :
        /\ code[c].st = "absent"
        /\ code' = [code EXCEPT ![c] =
                      [st |-> "unused", client |-> req[r].client, sid |-> req[r].sid,
                       offline |-> req[r].offline, lapsed |-> FALSE]]
  BY DEF IssueCode
<1>2. /\ req'[r].pc = "idle" /\ \A q \in Reqs \ {r} : req'[q] = req[q]
      /\ UNCHANGED grant
  BY AnswerReq DEF IssueCode
<1>3. \A q \in Reqs, d \in Codes : Holding(q, d)' <=> Holding(q, d)
  BY <1>2 DEF Holding, IssueCode
<1>4. ChainStage(c) = "none" /\ ChainStage(c)' = "code"
  BY <1>1 DEF ChainStage
<1>5. \A d \in Codes \ {c} : ChainStage(d)' = ChainStage(d)
  BY <1>1, <1>2, <1>3, StageKept DEF Live
<1>6. [d \in Codes |-> ChainStage(d)]' =
         [[d \in Codes |-> ChainStage(d)] EXCEPT ![c] = "code"]
  BY <1>4, <1>5
<1>7. Chain!Issue(c)
  BY <1>2, <1>4, <1>6 DEF Chain!Issue, Live
<1> QED
  BY <1>7 DEF Chain!Next

LEMMA ChainConsume ==
    ASSUME Shape, SingleBearer, Shape', SingleBearer', NEW r \in Reqs, Consume(r)
    PROVE  [Chain!Next]_Chain!vars
<1> USE DEF Shape, TypeOK
<1>1. PICK c \in Codes : c = req[r].cred /\ UNCHANGED grant
  BY DEF Consume, ReqShape, CodePcs
<1>2. CASE code[c].st = "unused"
  <2>1. code'[c].st = "consumed" /\ \A d \in Codes \ {c} : code'[d] = code[d]
    BY <1>1, <1>2 DEF Consume, CodeRow
  <2>2. Goto(r, "issue_tokens")
    BY <1>1, <1>2 DEF Consume
  <2>3. /\ req'[r].pc = "issue_tokens" /\ req'[r].cred = c
        /\ \A q \in Reqs \ {r} : req'[q] = req[q]
    BY <1>1, <2>2, GotoReq DEF Pcs
  <2>4. \A q \in Reqs, d \in Codes \ {c} : Holding(q, d)' <=> Holding(q, d)
    BY <1>1, <2>3 DEF Holding, Consume
  <2>5. ChainStage(c) = "code" /\ ChainStage(c)' = "server"
    BY <1>2, <2>1, <2>3 DEF ChainStage, Holding
  <2>6. \A d \in Codes \ {c} : ChainStage(d)' = ChainStage(d)
    BY <1>1, <2>1, <2>4, StageKept DEF Live
  <2>7. [d \in Codes |-> ChainStage(d)]' =
           [[d \in Codes |-> ChainStage(d)] EXCEPT ![c] = "server"]
    BY <2>5, <2>6
  <2>8. Chain!TakeFromCode(c)
    BY <1>1, <2>5, <2>7 DEF Chain!TakeFromCode, Live
  <2> QED
    BY <1>1, <2>8 DEF Chain!Next
<1>3. CASE code[c].st # "unused"
  <2>1. Goto(r, "replay") /\ UNCHANGED code
    BY <1>1, <1>3 DEF Consume
  <2>2. req'[r].pc = "replay" /\ \A q \in Reqs \ {r} : req'[q] = req[q]
    BY <2>1, GotoReq DEF Pcs
  <2> QED
    BY <1>1, <2>1, <2>2, ChainQuiet DEF Live
<1> QED
  BY <1>2, <1>3

LEMMA ChainRotate ==
    ASSUME Shape, SingleBearer, Shape', SingleBearer', NEW r \in Reqs, Rotate(r)
    PROVE  [Chain!Next]_Chain!vars
<1> USE DEF Shape, TypeOK
<1>1. PICK g \in Grants, c \in Codes :
        g = req[r].cred /\ Present(g) /\ c = grant[g].root /\ UNCHANGED code
  BY DEF Rotate, ReqShape, GrantPcs, GrantShape
<1>2. CASE Live(g)
  <2>1. /\ grant'[g].st # "live" /\ grant'[g].root = c
        /\ \A h \in Grants \ {g} : grant'[h] = grant[h]
    BY <1>1, <1>2 DEF Rotate, GrantRow, Live
  <2>2. Goto(r, "issue_next")
    BY <1>1, <1>2 DEF Rotate, Live
  <2>3. /\ req'[r].pc = "issue_next" /\ req'[r].cred = g
        /\ \A q \in Reqs \ {r} : req'[q] = req[q]
    BY <1>1, <2>2, GotoReq DEF Pcs
  <2>4. \A h \in Grants : grant'[h].root = grant[h].root /\ (Live(h)' <=> Live(h) /\ h # g)
    BY <1>1, <2>1 DEF Live
  <2>5. \A q \in Reqs, d \in Codes \ {c} : Holding(q, d)' <=> Holding(q, d)
    <3> TAKE q \in Reqs, d \in Codes \ {c}
    <3>1. req[q].pc = "issue_next" => req[q].cred \in Grants
      BY DEF ReqShape, GrantPcs
    <3> QED
      BY <1>1, <2>3, <2>4, <3>1 DEF Holding, Rotate
  <2>6. Holding(r, c)'
    BY <1>1, <2>3, <2>4 DEF Holding
  <2>7. ChainStage(c) = "grant" /\ ChainStage(c)' = "server"
    <3>1. code[c].st \notin {"absent", "unused"}
      BY <1>1 DEF GrantShape
    <3>2. \A q \in Reqs : ~Holding(q, c)
      BY <1>1, <1>2 DEF SingleBearer
    <3> QED
      BY <1>1, <1>2, <2>6, <3>1, <3>2 DEF ChainStage
  <2>8. \A d \in Codes \ {c} : ChainStage(d)' = ChainStage(d)
    BY <1>1, <2>4, <2>5, StageKept
  <2>9. [d \in Codes |-> ChainStage(d)]' =
           [[d \in Codes |-> ChainStage(d)] EXCEPT ![c] = "server"]
    BY <1>1, <2>7, <2>8
  <2>10. {h \in Grants : Live(h)}' = {h \in Grants : Live(h)} \ {g}
    BY <2>4
  <2>11. [h \in Grants |-> grant[h].root]' = [h \in Grants |-> grant[h].root]
    BY <2>4
  <2>12. Chain!TakeFromGrant(c, g)
    BY <1>1, <1>2, <2>7, <2>9, <2>10, <2>11 DEF Chain!TakeFromGrant
  <2> QED
    BY <1>1, <2>12 DEF Chain!Next
<1>3. CASE ~Live(g)
  <2>1. Answer(r) /\ UNCHANGED grant
    BY <1>1, <1>3 DEF Rotate, Live
  <2>2. req'[r].pc = "idle" /\ \A q \in Reqs \ {r} : req'[q] = req[q]
    BY <2>1, AnswerReq
  <2> QED
    BY <1>1, <2>1, <2>2, ChainQuiet DEF Live
<1> QED
  BY <1>2, <1>3

\* The request that creates a grant hands it the baton of its own chain.
LEMMA ChainGive ==
    ASSUME Shape, SingleBearer, Shape', SingleBearer',
           NEW r \in Reqs, NEW c \in Codes, Holding(r, c),
           NEW g \in Grants, NEW client, NEW s, NEW from, NewGrant(g, client, s, from, c),
           Answer(r), UNCHANGED code
    PROVE  Chain!Next
<1> USE DEF Shape, TypeOK
<1>1. /\ ~Present(g) /\ grant[g].root = None
      /\ Live(g)' /\ grant'[g].root = c
      /\ \A h \in Grants \ {g} : grant'[h] = grant[h]
  BY DEF NewGrant, Present, Live, GrantShape
<1>2. req'[r].pc = "idle" /\ \A q \in Reqs \ {r} : req'[q] = req[q]
  BY AnswerReq
<1>3. \A q \in Reqs \ {r}, d \in Codes : Holding(q, d)' <=> Holding(q, d)
  <2> TAKE q \in Reqs \ {r}, d \in Codes
  <2>1. req[q].pc = "issue_next" => req[q].cred \in Grants \ {g}
    BY <1>1 DEF ReqShape, GrantPcs
  <2> QED
    BY <1>1, <1>2, <2>1 DEF Holding
<1>4. \A d \in Codes \ {c} : ~Holding(r, d) /\ ~Holding(r, d)'
  BY <1>2 DEF Holding
<1>5. \A d \in Codes \ {c} : ChainStage(d)' = ChainStage(d)
  <2> TAKE d \in Codes \ {c}
  <2>1. \A q \in Reqs : Holding(q, d)' <=> Holding(q, d)
    BY <1>3, <1>4
  <2>2. \A h \in Grants : Live(h)' /\ grant'[h].root = d <=> Live(h) /\ grant[h].root = d
    BY <1>1 DEF Live, Present
  <2> QED
    BY <2>1, <2>2, StageKept
<1>6. ChainStage(c) = "server" /\ ChainStage(c)' = "grant"
  <2>1. code[c].st \notin {"absent", "unused"} /\ \A q \in Reqs : ~Holding(q, c)'
    BY <1>1 DEF SingleBearer
  <2> QED
    BY <1>1, <2>1 DEF ChainStage
<1>7. [d \in Codes |-> ChainStage(d)]' =
         [[d \in Codes |-> ChainStage(d)] EXCEPT ![c] = "grant"]
  BY <1>5, <1>6
<1>8. {h \in Grants : Live(h)}' = {h \in Grants : Live(h)} \cup {g}
  BY <1>1 DEF Live
<1>9. [h \in Grants |-> grant[h].root]' = [[h \in Grants |-> grant[h].root] EXCEPT ![g] = c]
  BY <1>1
<1>10. Chain!Give(c, g)
  BY <1>1, <1>6, <1>7, <1>8, <1>9 DEF Chain!Give
<1> QED
  BY <1>10 DEF Chain!Next

LEMMA ChainStep ==
    ASSUME Shape, SingleBearer, Shape', SingleBearer', NEW r \in Reqs, Step(r)
    PROVE  [Chain!Next]_Chain!vars
<1> USE DEF Shape, TypeOK
<1>1. ASSUME Answer(r)
      PROVE  req'[r].pc = "idle" /\ \A q \in Reqs \ {r} : req'[q] = req[q]
  BY <1>1, AnswerReq
<1>2. CASE RevokeReplayed(r)
  BY <1>1, <1>2, RevokeRows, ChainQuiet DEF RevokeReplayed
<1>3. CASE IssueTokens(r)
  <2>1. CASE ~req[r].offline
    BY <1>1, <1>3, <2>1, ChainQuiet DEF IssueTokens, Live
  <2>2. CASE req[r].offline
    <3>1. req[r].cred \in Codes /\ Holding(r, req[r].cred)
      BY <1>3 DEF IssueTokens, ReqShape, CodePcs, Holding
    <3>2. PICK g \in Grants : NewGrant(g, req[r].client, req[r].sid, None, req[r].cred)
      BY <1>3, <2>2 DEF IssueTokens
    <3> QED
      BY <1>3, <3>1, <3>2, ChainGive DEF IssueTokens
  <2> QED
    BY <2>1, <2>2
<1>4. CASE CheckSession(r)
  <2>1. Goto(r, "rotate") \/ Answer(r)
    BY <1>4 DEF CheckSession
  <2>2. req'[r].pc \in {"idle", "rotate"} /\ \A q \in Reqs \ {r} : req'[q] = req[q]
    BY <2>1, AnswerReq, GotoReq DEF Pcs
  <2> QED
    BY <1>4, <2>2, ChainQuiet DEF CheckSession, rows, Live
<1>5. CASE IssueNext(r)
  <2> DEFINE old == req[r].cred
             c == grant[old].root
  <2>1. old \in Grants /\ Present(old)
    BY <1>5 DEF IssueNext, ReqShape, GrantPcs
  <2>2. c \in Codes /\ Holding(r, c)
    BY <1>5, <2>1 DEF IssueNext, GrantShape, Holding
  <2>3. PICK g \in Grants : NewGrant(g, grant[old].client, grant[old].sid, old, c)
    BY <1>5 DEF IssueNext
  <2> QED
    BY <1>5, <2>2, <2>3, ChainGive DEF IssueNext
<1>6. CASE RevokeReused(r)
  <2>1. req'[r].pc = "kill_session" /\ \A q \in Reqs \ {r} : req'[q] = req[q]
    BY <1>6, GotoReq DEF RevokeReused, Pcs
  <2> QED
    BY <1>6, <2>1, RevokeRows, ChainQuiet DEF RevokeReused
<1>7. CASE KillSession(r)
  BY <1>1, <1>7, ChainQuiet DEF KillSession, Live
<1>8. CASE EndGrants(r)
  BY <1>1, <1>8, RevokeRows, ChainQuiet DEF EndGrants
<1> QED
  BY <1>2, <1>3, <1>4, <1>5, <1>6, <1>7, <1>8, ChainIssue, ChainConsume, ChainRotate DEF Step

LEMMA ChainEnvironment ==
    ASSUME Shape, SingleBearer, Shape', SingleBearer', Environment
    PROVE  [Chain!Next]_Chain!vars
<1> USE DEF Shape, TypeOK
<1>1. UNCHANGED req
  BY DEF Environment, RevokeToken, LapseGrant, DeactivateSession, LapseSession,
     ExtendSession, LapseCode, PurgeExpiredCodes
<1>2. \A c \in Codes : /\ code'[c].st = "absent" <=> code[c].st = "absent"
                       /\ code'[c].st = "unused" => code[c].st = "unused"
  <2>1. ASSUME NEW d \in Codes, LapseCode(d)
        PROVE  \A c \in Codes : code'[c].st = code[c].st
    BY <2>1 DEF LapseCode, CodeRow
  <2>2. ASSUME PurgeExpiredCodes
        PROVE  \A c \in Codes : \/ code'[c].st = code[c].st
                                \/ code'[c].st = "deleted" /\ code[c].st # "absent"
    BY <2>2 DEF PurgeExpiredCodes, CodeRow
  <2> QED
    BY <2>1, <2>2 DEF Environment, RevokeToken, LapseGrant, DeactivateSession, LapseSession,
       ExtendSession
<1>3. \A g \in Grants : grant'[g].root = grant[g].root /\ (Live(g)' => Live(g))
  <2>1. ASSUME NEW h \in Grants, RevokeToken(h) \/ LapseGrant(h)
        PROVE  \A g \in Grants : grant'[g].root = grant[g].root /\ (Live(g)' => Live(g))
    BY <2>1 DEF RevokeToken, LapseGrant, GrantRow, Live
  <2> QED
    BY <2>1 DEF Environment, DeactivateSession, LapseSession, ExtendSession, LapseCode,
       PurgeExpiredCodes, Live
<1>4. \A r \in Reqs, c \in Codes : Holding(r, c)' => Holding(r, c)
  <2> TAKE r \in Reqs, c \in Codes
  <2>1. req[r].pc = "issue_next" => req[r].cred \in Grants
    BY DEF ReqShape, GrantPcs
  <2> QED
    BY <1>1, <1>3, <2>1 DEF Holding
<1> QED
  BY <1>2, <1>3, <1>4, ChainLose

LEMMA ChainNext ==
    Shape /\ SingleBearer /\ Shape' /\ SingleBearer' /\ [Next]_vars => [Chain!Next]_Chain!vars
<1> SUFFICES ASSUME Shape, SingleBearer, Shape', SingleBearer', [Next]_vars
             PROVE  [Chain!Next]_Chain!vars
  OBVIOUS
<1> USE DEF Shape, TypeOK
<1>1. ASSUME NEW r \in Reqs, Arrive(r) PROVE [Chain!Next]_Chain!vars
  <2>1. UNCHANGED <<code, grant>>
    BY <1>1 DEF Arrive, Authorize, PresentCode, PresentGrant, EndSession, rows
  <2>2. /\ req'[r].pc \notin {"issue_tokens", "issue_next"}
        /\ \A q \in Reqs \ {r} : req'[q] = req[q]
    BY <1>1 DEF Arrive, Authorize, PresentCode, PresentGrant, EndSession, Begin, ReqState
  <2> QED
    BY <2>1, <2>2, ChainQuiet DEF Live
<1>2. ASSUME NEW r \in Reqs, Abort(r) PROVE [Chain!Next]_Chain!vars
  <2>1. req'[r].pc = "idle" /\ \A q \in Reqs \ {r} : req'[q] = req[q]
    BY <1>2, AnswerReq DEF Abort
  <2> QED
    BY <1>2, <2>1, ChainQuiet DEF Abort, rows, Live
<1>3. CASE UNCHANGED vars
  BY <1>3, ChainLose DEF vars, rows, Live, Holding
<1> QED
  BY <1>1, <1>2, <1>3, ChainStep, ChainEnvironment DEF Next

\* The server's rows and requests implement one baton per chain: whatever it does is
\* a step of AuthorityChain, or changes nothing there.
THEOREM GrantsImplementChain == Spec => ImplementsChain
<1>1. Init => Chain!Init
  BY DEF Init, Chain!Init, ChainStage, Live, NoCodeRow, NoGrantRow
<1>2. Init => Shape /\ SingleBearer
  BY ShapeInit DEF Init, SingleBearer, Holding, Live, NoCodeRow, NoGrantRow, Idle
<1>3. Shape /\ SingleBearer /\ [Next]_vars => (Shape /\ SingleBearer)'
  BY ShapeNext, BearerNext
<1>4. Shape /\ SingleBearer /\ Shape' /\ SingleBearer' /\ [Next]_vars => [Chain!Next]_Chain!vars
  BY ChainNext
<1> QED
  BY <1>1, <1>2, <1>3, <1>4, PTL DEF Spec, ImplementsChain, Chain!Spec

===============================================================================
