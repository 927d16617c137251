---------------------------- MODULE Accounts_proofs ----------------------------
(***************************************************************************)
(* Proofs about the components that guard an account or make one, as       *)
(* MCAccounts puts them side by side: for any number of concurrent calls,  *)
(* of passwords, links, devices, tenants and members, and any limits.      *)
(*                                                                         *)
(* A step of the whole is a step, or a stutter, of each component          *)
(* (AccountsParts), so each section is about one component and closes with *)
(* its property for AccountsSpec.                                          *)
(***************************************************************************)
EXTENDS MCAccounts, FiniteSetTheorems, WellFoundedInduction, TLAPS

LEMMA AccountsParts ==
    ASSUME [AccountsNext]_accountsVars
    PROVE  /\ UNCHANGED part
           /\ [Lockout!Next]_lockout /\ [Factor!Next]_factor /\ [Push!Next]_push
           /\ [SignUp!Next]_signup
           /\ part = "mailed" => [Mailed!Next]_mailed
           /\ part = "own" => [Own!Next]_own
           /\ part = "bulk" => [Bulk!Next]_bulk
<1>1. CASE UNCHANGED accountsVars
  BY <1>1 DEF accountsVars
<1>2. CASE AccountsNext
  BY <1>2 DEF AccountsNext
<1> QED
  BY <1>1, <1>2

-------------------------------------------------------------------------------
(* Push approval: one verdict *)

\* A handler that will write read PENDING; one that issues a session read APPROVED.
\* Whatever is decided was taken from a device, and unless two handlers crossed,
\* nothing else was.
PushInv ==
    /\ Push!TypeOK
    /\ \A c \in Calls :
         /\ pushCall[c].pc \in {"respond", "expire"} => pushCall[c].saw = "PENDING"
         /\ pushCall[c].pc = "issue" => "APPROVED" \in verdicts
    /\ status \in Push!Decided => status \in verdicts
    /\ signedIn => "APPROVED" \in verdicts
    /\ ~crossed => verdicts \subseteq {status}

LEMMA PushInit == Push!Init => PushInv
<1> SUFFICES ASSUME Push!Init PROVE PushInv
  OBVIOUS
<1>1. Push!Idle \in [pc : {"idle", "respond", "expire", "issue"}, saw : Push!Statuses,
                     write : Push!Decided \cup {"EXPIRED", None}]
  BY DEF Push!Idle, Push!Statuses
<1> QED
  BY <1>1, AccountsAssumption
     DEF Push!Init, PushInv, Push!TypeOK, Push!Idle, Push!Statuses, Push!Decided

LEMMA PushNext == PushInv /\ [Push!Next]_push => PushInv'
<1> SUFFICES ASSUME PushInv, [Push!Next]_push PROVE PushInv'
  OBVIOUS
<1> USE DEF PushInv, Push!TypeOK
<1>0. /\ "PENDING" \notin Push!Decided /\ "EXPIRED" \notin Push!Decided
      /\ None \notin Push!Decided
  BY AccountsAssumption DEF Push!Decided
<1>1. CASE UNCHANGED push
  BY <1>1 DEF push
\* What a call that begins or ends leaves.
<1>2. ASSUME NEW c \in Calls, Push!Answer(c)
      PROVE  /\ pushCall' \in [Calls -> [pc : {"idle", "respond", "expire", "issue"},
                                         saw : Push!Statuses,
                                         write : Push!Decided \cup {"EXPIRED", None}]]
             /\ pushCall'[c].pc = "idle" /\ \A d \in Calls \ {c} : pushCall'[d] = pushCall[d]
  BY <1>2 DEF Push!Answer, Push!Idle, Push!Statuses
<1>3. ASSUME NEW c \in Calls, NEW pc \in {"respond", "expire", "issue"},
             NEW w \in Push!Decided \cup {"EXPIRED", None}, Push!Goto(c, pc, w)
      PROVE  /\ pushCall' \in [Calls -> [pc : {"idle", "respond", "expire", "issue"},
                                         saw : Push!Statuses,
                                         write : Push!Decided \cup {"EXPIRED", None}]]
             /\ pushCall'[c].pc = pc /\ pushCall'[c].saw = status
             /\ \A d \in Calls \ {c} : pushCall'[d] = pushCall[d]
  BY <1>3 DEF Push!Goto
<1>4. ASSUME NEW d \in Things, Push!Subscribe(d) \/ Push!Remove(d) PROVE PushInv'
  BY <1>4 DEF Push!Subscribe, Push!Remove
<1>5. CASE Push!SendMfaPushChallenge
  <2>1. ~crossed => verdicts = {}
    BY <1>0, <1>5 DEF Push!SendMfaPushChallenge
  <2> QED
    BY <1>0, <1>5, <2>1 DEF Push!SendMfaPushChallenge, Push!Statuses
<1>6. CASE Push!Expire
  BY <1>6 DEF Push!Expire
<1>7. ASSUME NEW c \in Calls, NEW verdict \in Push!Decided, Push!ReadForRespond(c, verdict)
      PROVE  PushInv'
  <2>1. Push!Goto(c, "respond", verdict) /\ status = "PENDING"
        /\ UNCHANGED <<devices, status, expired, verdicts, signedIn, crossed>>
    BY <1>7 DEF Push!ReadForRespond
  <2> QED
    BY <1>3, <2>1
<1>8. ASSUME NEW c \in Calls, Push!WriteStatus(c) PROVE PushInv'
  <2> DEFINE w == pushCall[c].write
  <2>1. /\ status' = w /\ verdicts' = verdicts \cup ({w} \cap Push!Decided)
        /\ crossed' = (crossed \/ status # "PENDING")
        /\ UNCHANGED <<devices, expired, signedIn>>
        /\ Push!Answer(c)
    BY <1>8 DEF Push!WriteStatus
  <2>2. w \in Push!Decided \cup {"EXPIRED", None}
    OBVIOUS
  <2>3. ~crossed' => verdicts = {}
    BY <1>0, <2>1
  <2> HIDE DEF w
  <2>4. Push!TypeOK'
    BY <1>2, <2>1, <2>2 DEF Push!Statuses
  <2>5. ~crossed' => verdicts' \subseteq {status'}
    BY <2>1, <2>3
  <2> QED
    BY <1>2, <2>1, <2>2, <2>4, <2>5
<1>9. ASSUME NEW c \in Calls, Push!Poll(c) PROVE PushInv'
  <2>1. /\ UNCHANGED <<devices, status, expired, verdicts, signedIn, crossed>>
        /\ \/ Push!Goto(c, "expire", "EXPIRED") /\ status = "PENDING"
           \/ Push!Goto(c, "issue", None) /\ status = "APPROVED"
    BY <1>9 DEF Push!Poll
  <2> QED
    BY <1>3, <2>1 DEF Push!Decided
<1>10. ASSUME NEW c \in Calls, Push!IssueSession(c) PROVE PushInv'
  <2>1. /\ UNCHANGED <<devices, status, expired, verdicts, crossed>>
        /\ signedIn' = TRUE /\ "APPROVED" \in verdicts /\ Push!Answer(c)
    BY <1>10 DEF Push!IssueSession
  <2> QED
    BY <1>2, <2>1
<1>11. ASSUME NEW c \in Calls, Push!Abort(c) PROVE PushInv'
  BY <1>2, <1>11 DEF Push!Abort
<1> QED
  BY <1>1, <1>4, <1>5, <1>6, <1>7, <1>8, <1>9, <1>10, <1>11 DEF Push!Next

\* A device that was told its verdict was taken is right, nobody is signed in by a
\* challenge nobody approved, and there is one verdict unless two handlers crossed.
THEOREM PushHasOneVerdict == AccountsSpec => []OneVerdict
<1>1. AccountsInit => PushInv
  BY PushInit DEF AccountsInit
<1>2. PushInv => OneVerdict
  <2> SUFFICES ASSUME PushInv PROVE OneVerdict
    OBVIOUS
  <2>1. ~crossed => Cardinality(verdicts) <= 1
    <3> SUFFICES ASSUME ~crossed PROVE Cardinality(verdicts) <= 1
      OBVIOUS
    <3>1. IsFiniteSet({status}) /\ Cardinality({status}) = 1
      BY FS_Singleton
    <3>2. verdicts \subseteq {status}
      BY DEF PushInv
    <3> QED
      BY <3>1, <3>2, FS_Subset
  <2>2. ~crossed => (verdicts # {} => status \in verdicts)
    BY DEF PushInv
  <2>3. Push!TypeOK /\ (signedIn => "APPROVED" \in verdicts)
    BY DEF PushInv
  <2> QED
    BY <2>1, <2>2, <2>3 DEF OneVerdict, Push!OneVerdict, Push!Cardinality, Cardinality
<1>3. PushInv /\ [AccountsNext]_accountsVars => PushInv'
  BY PushNext, AccountsParts
<1> QED
  BY <1>1, <1>2, <1>3, PTL DEF AccountsSpec

-------------------------------------------------------------------------------
(* Second factor: the columns stay in step *)

BatchesOf(codes) == {k[1] : k \in codes}
OneBatch(codes) == \A k, l \in codes : k[1] = l[1]

\* A call holds a row with a secret, and a code that was listed in it; a list is of one
\* batch, and every batch that was ever listed or spent has been made.
FactorInv ==
    /\ Factor!TypeOK
    /\ \A c \in Calls :
         /\ mfaCall[c].pc # "idle" => mfaCall[c].row.secret # None
         /\ mfaCall[c].pc = "consume" => mfaCall[c].code \in mfaCall[c].row.codes
         /\ BatchesOf(mfaCall[c].row.codes) \subseteq made
         /\ OneBatch(mfaCall[c].row.codes)
    /\ BatchesOf(mfa.codes) \subseteq made /\ BatchesOf(spent) \subseteq made
    /\ OneBatch(mfa.codes)
    /\ Factor!FactorInStep

FactorCalls ==
    [Calls -> [pc : {"idle", "enable", "disable", "consume"}, row : Factor!Row,
               code : Factor!RecoveryCodes \cup {None}]]

LEMMA FactorInit == Factor!Init => FactorInv
<1> SUFFICES ASSUME Factor!Init PROVE FactorInv
  OBVIOUS
<1>1. Factor!Off \in Factor!Row
  BY DEF Factor!Off, Factor!Row
<1>2. Factor!TypeOK
  BY <1>1 DEF Factor!Init, Factor!TypeOK, Factor!Idle
<1> QED
  BY <1>2 DEF Factor!Init, FactorInv, Factor!FactorInStep, Factor!Idle, Factor!Off, BatchesOf,
              OneBatch

\* A handler that begins with the row as it is.
LEMMA FactorEnter ==
    ASSUME FactorInv, NEW c \in Calls, NEW pc \in {"enable", "disable", "consume"},
           NEW k \in Factor!RecoveryCodes \cup {None}, pc = "consume" => k \in mfa.codes,
           mfa.secret # None, Factor!Enter(c, pc, k), UNCHANGED <<mfa, made, spent, stale>>
    PROVE  FactorInv'
<1> USE DEF FactorInv, Factor!TypeOK
<1>1. /\ mfaCall' \in FactorCalls
      /\ mfaCall'[c] = [pc |-> pc, row |-> mfa, code |-> k]
      /\ \A d \in Calls \ {c} : mfaCall'[d] = mfaCall[d]
  BY DEF Factor!Enter, FactorCalls
<1>2. Factor!FactorInStep'
  BY DEF Factor!FactorInStep
<1> QED
  BY <1>1, <1>2 DEF FactorCalls

\* A handler that ends, having written a row the columns of which are in step.
LEMMA FactorAnswer ==
    ASSUME FactorInv, NEW c \in Calls, Factor!Answer(c),
           mfa' \in Factor!Row, made \subseteq made', made' \subseteq Things \cup Batches,
           spent' \subseteq Factor!RecoveryCodes, stale' \in BOOLEAN,
           BatchesOf(mfa'.codes) \subseteq made', BatchesOf(spent') \subseteq made',
           OneBatch(mfa'.codes), Factor!FactorInStep'
    PROVE  FactorInv'
<1> USE DEF FactorInv, Factor!TypeOK
<1>1. Factor!Off \in Factor!Row /\ BatchesOf({}) = {} /\ OneBatch({})
  BY DEF Factor!Off, Factor!Row, BatchesOf, OneBatch
<1>2. /\ mfaCall' \in FactorCalls /\ mfaCall'[c] = Factor!Idle
      /\ \A d \in Calls \ {c} : mfaCall'[d] = mfaCall[d]
  BY <1>1 DEF Factor!Answer, FactorCalls, Factor!Idle
<1>3. Factor!TypeOK'
  BY <1>2 DEF FactorCalls
<1>4. ASSUME NEW d \in Calls
      PROVE  /\ mfaCall'[d].pc # "idle" => mfaCall'[d].row.secret # None
             /\ mfaCall'[d].pc = "consume" => mfaCall'[d].code \in mfaCall'[d].row.codes
             /\ BatchesOf(mfaCall'[d].row.codes) \subseteq made'
             /\ OneBatch(mfaCall'[d].row.codes)
  <2>1. CASE d = c
    <3>1. mfaCall'[d] = Factor!Idle
      BY <1>2, <2>1
    <3> HIDE DEF FactorInv, Factor!TypeOK
    <3>2. Factor!Idle.row = Factor!Off /\ Factor!Idle.pc = "idle"
      BY DEF Factor!Idle
    <3>3. Factor!Off.codes = {}
      BY DEF Factor!Off
    <3>4. mfaCall'[d].row.codes = {} /\ mfaCall'[d].pc = "idle"
      BY <3>1, <3>2, <3>3
    <3> QED
      BY <1>1, <3>4
  <2>2. CASE d # c
    <3>1. mfaCall'[d] = mfaCall[d]
      BY <1>2, <2>2
    <3>2. BatchesOf(mfaCall[d].row.codes) \subseteq made'
      OBVIOUS
    <3> QED
      BY <3>1, <3>2
  <2> QED
    BY <2>1, <2>2
<1> QED
  BY <1>3, <1>4

LEMMA FactorNext == FactorInv /\ [Factor!Next]_factor => FactorInv'
<1> SUFFICES ASSUME FactorInv, [Factor!Next]_factor PROVE FactorInv'
  OBVIOUS
<1> USE DEF FactorInv, Factor!TypeOK
<1>1. CASE UNCHANGED factor
  BY <1>1 DEF factor, Factor!FactorInStep
<1>2. CASE Factor!GenerateMfaSecret
  <2>1. PICK s \in Things \ made : /\ mfa' = [mfa EXCEPT !.secret = s, !.pending = TRUE]
                                   /\ made' = made \cup {s}
                                   /\ UNCHANGED <<mfaCall, spent, stale>>
    BY <1>2 DEF Factor!GenerateMfaSecret
  <2>2. /\ mfa' \in Factor!Row /\ mfa'.secret = s /\ mfa'.codes = mfa.codes
        /\ mfa'.enabled = mfa.enabled
    BY <2>1 DEF Factor!Row
  <2>3. s # None
    BY AccountsAssumption
  <2> QED
    BY <2>1, <2>2, <2>3 DEF Factor!FactorInStep
<1>3. ASSUME NEW c \in Calls, NEW next \in {"enable", "disable"}, Factor!ProveSecret(c, next)
      PROVE  FactorInv'
  BY <1>3, FactorEnter DEF Factor!ProveSecret
<1>4. ASSUME NEW c \in Calls, Factor!MatchRecoveryCode(c) PROVE FactorInv'
  <2>1. PICK k \in mfa.codes : Factor!Enter(c, "consume", k)
    BY <1>4 DEF Factor!MatchRecoveryCode
  <2>2. k \in Factor!RecoveryCodes
    BY DEF Factor!Row
  <2> QED
    BY <1>4, <2>1, <2>2, FactorEnter DEF Factor!MatchRecoveryCode
<1>5. ASSUME NEW c \in Calls, Factor!EnableMfa(c) PROVE FactorInv'
  <2>1. PICK b \in Batches \ made :
          /\ mfa' = [mfa EXCEPT !.enabled = TRUE, !.pending = FALSE,
                                !.codes = {b} \X (1..PerBatch)]
          /\ made' = made \cup {b}
    BY <1>5 DEF Factor!EnableMfa
  <2>2. /\ Factor!Answer(c) /\ spent' = spent /\ stale' \in BOOLEAN
        /\ ~stale' => ~stale /\ mfa.secret # None
    BY <1>5 DEF Factor!EnableMfa, Factor!NoteStale
  <2>3. /\ mfa' \in Factor!Row /\ mfa'.secret = mfa.secret /\ mfa'.enabled
        /\ mfa'.codes = {b} \X (1..PerBatch)
    BY <2>1 DEF Factor!Row, Factor!RecoveryCodes
  <2>4. BatchesOf(mfa'.codes) \subseteq {b} /\ OneBatch(mfa'.codes)
    BY <2>3 DEF BatchesOf, OneBatch
  <2>5. mfa'.codes \cap spent = {}
    BY <2>1, <2>4 DEF BatchesOf
  <2>6. Factor!FactorInStep'
    BY <2>2, <2>3, <2>4, <2>5 DEF Factor!FactorInStep, OneBatch
  <2> QED
    BY <2>1, <2>2, <2>3, <2>4, <2>6, FactorAnswer
<1>6. ASSUME NEW c \in Calls, Factor!DisableMfa(c) PROVE FactorInv'
  <2>1. /\ mfa' = Factor!Off /\ Factor!Answer(c) /\ UNCHANGED <<made, spent>>
        /\ stale' \in BOOLEAN
    BY <1>6 DEF Factor!DisableMfa, Factor!NoteStale
  <2>2. /\ mfa' \in Factor!Row /\ mfa'.codes = {} /\ ~mfa'.enabled
        /\ BatchesOf(mfa'.codes) = {} /\ OneBatch(mfa'.codes)
    BY <2>1 DEF Factor!Off, Factor!Row, BatchesOf, OneBatch
  <2>3. Factor!FactorInStep'
    BY <2>2 DEF Factor!FactorInStep
  <2> QED
    BY <2>1, <2>2, <2>3, FactorAnswer
<1>7. ASSUME NEW c \in Calls, Factor!ConsumeRecoveryCode(c) PROVE FactorInv'
  <2>1. PICK k \in Factor!RecoveryCodes :
          k = mfaCall[c].code /\ k \in mfaCall[c].row.codes
    BY <1>7 DEF Factor!ConsumeRecoveryCode, Factor!Row
  <2>2. PICK codes \in SUBSET Factor!RecoveryCodes : codes = mfaCall[c].row.codes \ {k}
    BY DEF Factor!Row
  <2>3. /\ mfa' = [mfa EXCEPT !.codes = codes] /\ spent' = spent \cup {k}
        /\ stale' = (stale \/ mfaCall[c].row # mfa) /\ made' = made /\ Factor!Answer(c)
    BY <1>7, <2>1, <2>2 DEF Factor!ConsumeRecoveryCode, Factor!NoteStale
  <2>4. /\ mfa' \in Factor!Row /\ mfa'.codes = codes
        /\ mfa'.secret = mfa.secret /\ mfa'.enabled = mfa.enabled
    BY <2>3 DEF Factor!Row
  <2>5. BatchesOf(codes) \subseteq made /\ OneBatch(codes)
    BY <2>2 DEF BatchesOf, OneBatch
  <2>6. BatchesOf(spent') \subseteq made
    BY <2>1, <2>3 DEF BatchesOf
  <2>7. ASSUME ~stale'
        PROVE  ~stale /\ codes = mfa.codes \ {k} /\ codes \cap spent' = {}
    BY <2>2, <2>3, <2>7 DEF Factor!FactorInStep
  <2>8. Factor!FactorInStep'
    BY <2>4, <2>5, <2>7 DEF Factor!FactorInStep, OneBatch
  <2> QED
    BY <2>3, <2>4, <2>5, <2>6, <2>8, FactorAnswer
<1>8. ASSUME NEW c \in Calls, Factor!Abort(c) PROVE FactorInv'
  BY <1>8, FactorAnswer DEF Factor!Abort, Factor!FactorInStep
<1> QED
  BY <1>1, <1>2, <1>3, <1>4, <1>5, <1>6, <1>7, <1>8 DEF Factor!Next

\* Unless two of its handlers overlapped, a second factor that is required can be given,
\* and no recovery code that was exchanged for a session is listed.
THEOREM SecondFactorInStep == AccountsSpec => []FactorInStep
<1>1. AccountsInit => FactorInv
  BY FactorInit DEF AccountsInit
<1>2. FactorInv => FactorInStep
  BY DEF FactorInv, FactorInStep
<1>3. FactorInv /\ [AccountsNext]_accountsVars => FactorInv'
  BY FactorNext, AccountsParts
<1> QED
  BY <1>1, <1>2, <1>3, PTL DEF AccountsSpec

-------------------------------------------------------------------------------
(* Mailed links: a dead link opens nothing *)

\* A link that is dead is used.  A request for a new link has on its list, from the
\* moment it burns, all that was outstanding when it began.
LinkInv ==
    /\ Mailed!TypeOK
    /\ \A l \in dead : link[l].used
    /\ \A c \in Calls :
         /\ linkCall[c].pc \in {"burn", "mint", "use"} => linkCall[c].kind \in Mailed!Kinds
         /\ linkCall[c].pc = "use" => /\ linkCall[c].link \in Links
                                      /\ link[linkCall[c].link].kind = linkCall[c].kind
         /\ linkCall[c].pc = "use" /\ linkCall[c].kind = "reset" => linkCall[c].pw \in Things
         /\ linkCall[c].pc = "rehash" => linkCall[c].pw \in Things
         /\ linkCall[c].pc = "burn" =>
              \A l \in linkCall[c].old : link[l].kind = linkCall[c].kind
         /\ linkCall[c].pc = "mint" =>
              \A l \in linkCall[c].old : link[l].used \/ l \in linkCall[c].burn
         /\ ~linkCall[c].late

LinkRow == [kind : Mailed!Kinds \cup {None}, used : BOOLEAN, expired : BOOLEAN]

LinkCall ==
    [pc : {"idle", "burn", "mint", "use", "rehash"}, kind : Mailed!Kinds \cup {None},
     link : Links \cup {None}, pw : Things \cup {None}, burn : SUBSET Links,
     old : SUBSET Links, late : BOOLEAN]

LinkCalls == [Calls -> LinkCall]

\* What is asked of one call; links only grow used, and keep their kind once they have one.
CallInStep(c) ==
    /\ linkCall[c].pc \in {"burn", "mint", "use"} => linkCall[c].kind \in Mailed!Kinds
    /\ linkCall[c].pc = "use" => /\ linkCall[c].link \in Links
                                 /\ link[linkCall[c].link].kind = linkCall[c].kind
    /\ linkCall[c].pc = "use" /\ linkCall[c].kind = "reset" => linkCall[c].pw \in Things
    /\ linkCall[c].pc = "rehash" => linkCall[c].pw \in Things
    /\ linkCall[c].pc = "burn" => \A l \in linkCall[c].old : link[l].kind = linkCall[c].kind
    /\ linkCall[c].pc = "mint" =>
         \A l \in linkCall[c].old : link[l].used \/ l \in linkCall[c].burn
    /\ ~linkCall[c].late

LinksGrow ==
    \A l \in Links : /\ link[l].used => link'[l].used
                     /\ link[l].kind # None => link'[l].kind = link[l].kind

LEMMA LinkInit == Mailed!Init => LinkInv
<1> SUFFICES ASSUME Mailed!Init PROVE LinkInv
  OBVIOUS
<1>1. linkCall \in LinkCalls
  BY DEF Mailed!Init, LinkCalls, LinkCall, Mailed!Idle
<1>2. link \in [Links -> LinkRow]
  <2>1. PICK first \in Links :
          link = [l \in Links |-> IF l = first THEN [Mailed!Unminted EXCEPT !.kind = "verify"]
                                  ELSE Mailed!Unminted]
    BY DEF Mailed!Init
  <2>2. Mailed!Unminted \in LinkRow /\ [Mailed!Unminted EXCEPT !.kind = "verify"] \in LinkRow
    BY DEF Mailed!Unminted, LinkRow, Mailed!Kinds
  <2> QED
    BY <2>1, <2>2
<1>3. hash \in [pw : Things, bcrypt : BOOLEAN] /\ verified \in BOOLEAN /\ dead = {}
  <2>1. PICK p \in Things, b \in BOOLEAN : hash = [pw |-> p, bcrypt |-> b]
    BY DEF Mailed!Init
  <2> QED
    BY <2>1 DEF Mailed!Init
<1>4. Mailed!TypeOK
  BY <1>1, <1>2, <1>3 DEF Mailed!TypeOK, LinkCalls, LinkCall, LinkRow
<1> QED
  BY <1>3, <1>4 DEF Mailed!Init, LinkInv, Mailed!Idle

\* One call moves, and the links with it.
LEMMA LinkMoves ==
    ASSUME LinkInv, NEW c \in Calls, LinksGrow,
           hash' \in [pw : Things, bcrypt : BOOLEAN], verified' \in BOOLEAN,
           link' \in [Links -> LinkRow],
           linkCall' \in LinkCalls, CallInStep(c)',
           \A d \in Calls \ {c} : linkCall'[d] = linkCall[d],
           dead' \subseteq Links, \A l \in dead' : link'[l].used
    PROVE  LinkInv'
<1> USE DEF LinkInv, Mailed!TypeOK
<1>0. None \notin Mailed!Kinds
  BY AccountsAssumption
<1>1. ASSUME NEW d \in Calls PROVE CallInStep(d)'
  <2>1. CASE d # c
    <3>1. CallInStep(d) /\ linkCall'[d] = linkCall[d]
      BY <2>1 DEF CallInStep
    <3>2. linkCall[d].old \subseteq Links
      OBVIOUS
    <3>3. linkCall[d].pc = "use" => link'[linkCall[d].link].kind = linkCall[d].kind
      BY <1>0, <3>1 DEF CallInStep, LinksGrow
    <3>4. linkCall[d].pc = "burn" =>
            \A l \in linkCall[d].old : link'[l].kind = linkCall[d].kind
      BY <1>0, <3>1, <3>2 DEF CallInStep, LinksGrow
    <3>5. linkCall[d].pc = "mint" =>
            \A l \in linkCall[d].old : link'[l].used \/ l \in linkCall[d].burn
      BY <3>1, <3>2 DEF CallInStep, LinksGrow
    <3> QED
      BY <3>1, <3>3, <3>4, <3>5 DEF CallInStep
  <2> QED
    BY <2>1
<1>2. Mailed!TypeOK'
  BY DEF LinkCalls, LinkCall, LinkRow
<1> QED
  BY <1>1, <1>2 DEF CallInStep

LEMMA LinkAnswer ==
    ASSUME LinkInv, NEW c \in Calls, Mailed!Answer(c)
    PROVE  /\ linkCall' \in LinkCalls /\ CallInStep(c)'
           /\ \A d \in Calls \ {c} : linkCall'[d] = linkCall[d]
<1>1. Mailed!Idle \in LinkCall
  BY DEF Mailed!Idle, LinkCall
<1>2. linkCall' \in LinkCalls /\ linkCall'[c] = Mailed!Idle
      /\ \A d \in Calls \ {c} : linkCall'[d] = linkCall[d]
  BY <1>1 DEF LinkInv, Mailed!TypeOK, Mailed!Answer, LinkCalls, LinkCall
<1> QED
  BY <1>2 DEF CallInStep, Mailed!Idle

\* Burning a set of links.
LEMMA BurnLinks ==
    ASSUME LinkInv, NEW ls, NEW burnt, burnt = Mailed!Burn(ls)
    PROVE  /\ burnt \in [Links -> LinkRow]
           /\ \A l \in Links : /\ burnt[l].used <=> link[l].used \/ l \in ls
                               /\ burnt[l].kind = link[l].kind
<1>1. link \in [Links -> LinkRow]
  BY DEF LinkInv, Mailed!TypeOK, LinkRow
<1>2. ASSUME NEW l \in Links
      PROVE  LET r == [link[l] EXCEPT !.used = TRUE] IN
             r \in LinkRow /\ r.used /\ r.kind = link[l].kind
  BY <1>1 DEF LinkRow
<1>3. burnt \in [Links -> LinkRow]
  BY <1>1, <1>2 DEF Mailed!Burn
<1>4. ASSUME NEW l \in Links
      PROVE  /\ burnt[l].used <=> link[l].used \/ l \in ls
             /\ burnt[l].kind = link[l].kind
  <2>1. CASE l \in ls
    BY <1>2, <2>1 DEF Mailed!Burn
  <2>2. CASE l \notin ls
    BY <2>2 DEF Mailed!Burn
  <2> QED
    BY <2>1, <2>2
<1> QED
  BY <1>3, <1>4

LEMMA LinkNext == LinkInv /\ [Mailed!Next]_mailed => LinkInv'
<1> SUFFICES ASSUME LinkInv, [Mailed!Next]_mailed PROVE LinkInv'
  OBVIOUS
<1> USE DEF LinkInv, Mailed!TypeOK
<1>0. None \notin Mailed!Kinds
  BY AccountsAssumption
<1>t. link \in [Links -> LinkRow] /\ linkCall \in LinkCalls
  BY DEF LinkRow, LinkCalls, LinkCall
<1>1. CASE UNCHANGED mailed
  BY <1>1 DEF mailed
<1>2. LinksGrow \/ link' # link
  BY DEF LinksGrow
\* A call that begins or goes on, the links being left alone.
<1>3. ASSUME NEW c \in Calls,
             NEW new \in LinkCall,
             linkCall' = [linkCall EXCEPT ![c] = new],
             UNCHANGED <<hash, verified, link, dead>>, CallInStep(c)'
      PROVE  LinkInv'
  <2>1. linkCall' \in LinkCalls /\ \A d \in Calls \ {c} : linkCall'[d] = linkCall[d]
    BY <1>3, <1>t DEF LinkCalls
  <2> QED
    BY <1>2, <1>3, <1>t, <2>1, LinkMoves
<1>4. ASSUME NEW c \in Calls, NEW kind \in Mailed!Kinds, Mailed!AskLink(c, kind)
      PROVE  LinkInv'
  <2> DEFINE new == [Mailed!Idle EXCEPT !.pc = "burn", !.kind = kind, !.old = Mailed!Live(kind)]
  <2>1. linkCall' = [linkCall EXCEPT ![c] = new] /\ UNCHANGED <<hash, verified, link, dead>>
    BY <1>4 DEF Mailed!AskLink
  <2>2. /\ new \in LinkCall
        /\ new.pc = "burn" /\ new.kind = kind /\ new.old = Mailed!Live(kind) /\ ~new.late
    BY DEF Mailed!Idle, Mailed!Live, LinkCall
  <2> HIDE DEF new
  <2>3. CallInStep(c)'
    BY <2>1, <2>2 DEF CallInStep, Mailed!Live
  <2> QED
    BY <1>3, <2>1, <2>2, <2>3
<1>5. ASSUME NEW c \in Calls, Mailed!BurnOutstanding(c) PROVE LinkInv'
  <2> DEFINE kind == linkCall[c].kind
  <2>0. PICK live \in SUBSET Links : live = Mailed!Live(kind)
    BY DEF Mailed!Live
  <2> DEFINE new == [linkCall[c] EXCEPT !.pc = "mint", !.burn = live]
  <2>1. /\ linkCall' = [linkCall EXCEPT ![c] = new] /\ UNCHANGED <<hash, verified, link, dead>>
        /\ linkCall[c].pc = "burn"
    BY <1>5, <2>0 DEF Mailed!BurnOutstanding
  <2>2. /\ new \in LinkCall
        /\ new.pc = "mint" /\ new.kind = kind /\ new.burn = live
        /\ new.old = linkCall[c].old /\ ~new.late
    <3>1. linkCall[c] \in LinkCall /\ ~linkCall[c].late
      BY <1>t DEF LinkCalls
    <3> QED
      BY <3>1 DEF LinkCall
  <2> HIDE DEF new
  <2>3. \A l \in linkCall[c].old : link[l].used \/ l \in live
    BY <2>0, <2>1 DEF Mailed!Live
  <2>4. CallInStep(c)'
    BY <2>1, <2>2, <2>3 DEF CallInStep
  <2> QED
    BY <1>3, <2>1, <2>2, <2>4
<1>6. ASSUME NEW c \in Calls, Mailed!MintLink(c) PROVE LinkInv'
  <2>1. PICK l \in Links :
          /\ link[l].kind = None
          /\ link' = [Mailed!Burn(linkCall[c].burn) EXCEPT ![l].kind = linkCall[c].kind]
    BY <1>6 DEF Mailed!MintLink
  <2>2. /\ linkCall[c].pc = "mint" /\ linkCall[c].kind \in Mailed!Kinds
        /\ dead' = dead \cup linkCall[c].old /\ Mailed!Answer(c) /\ UNCHANGED <<hash, verified>>
    BY <1>6 DEF Mailed!MintLink
  <2>3. /\ link' \in [Links -> LinkRow]
        /\ \A k \in Links : /\ link'[k].used <=> link[k].used \/ k \in linkCall[c].burn
                            /\ k # l => link'[k].kind = link[k].kind
    <3>1. PICK burnt : burnt = Mailed!Burn(linkCall[c].burn)
      OBVIOUS
    <3>2. /\ burnt \in [Links -> LinkRow]
          /\ \A k \in Links : /\ burnt[k].used <=> link[k].used \/ k \in linkCall[c].burn
                              /\ burnt[k].kind = link[k].kind
      BY <1>t, <3>1, BurnLinks
    <3>3. link' = [burnt EXCEPT ![l].kind = linkCall[c].kind]
      BY <2>1, <3>1
    <3>4. [burnt[l] EXCEPT !.kind = linkCall[c].kind] \in LinkRow
      BY <2>2, <3>2 DEF LinkRow
    <3>5. link' \in [Links -> LinkRow]
      BY <3>2, <3>3, <3>4
    <3>6. link'[l].used = burnt[l].used
      BY <3>2, <3>3 DEF LinkRow
    <3> QED
      BY <3>2, <3>3, <3>5, <3>6
  <2>4. LinksGrow
    BY <2>1, <2>3 DEF LinksGrow
  <2>5. dead' \subseteq Links /\ \A k \in dead' : link'[k].used
    BY <2>2, <2>3
  <2> QED
    BY <2>2, <2>3, <2>4, <2>5, LinkAnswer, LinkMoves
<1>7. ASSUME NEW c \in Calls, NEW l \in Links, NEW p \in Things, Mailed!OpenLink(c, l, p)
      PROVE  LinkInv'
  <2>1. l \notin dead /\ link[l].kind \in Mailed!Kinds
    BY <1>7, <1>t DEF Mailed!OpenLink, Mailed!Usable, LinkRow
  <2>0. (l \in dead) = FALSE
    BY <2>1
  <2> DEFINE new == [Mailed!Idle EXCEPT !.pc = "use", !.kind = link[l].kind, !.link = l,
                       !.pw = IF link[l].kind = "reset" THEN p ELSE None, !.late = FALSE]
  <2>2. linkCall' = [linkCall EXCEPT ![c] = new] /\ UNCHANGED <<hash, verified, link, dead>>
    BY <1>7, <2>0 DEF Mailed!OpenLink
  <2>3. /\ new \in LinkCall
        /\ new.pc = "use" /\ new.kind = link[l].kind /\ new.link = l /\ ~new.late
        /\ new.kind = "reset" => new.pw = p
    BY <2>1 DEF Mailed!Idle, LinkCall
  <2> HIDE DEF new
  <2>4. CallInStep(c)'
    BY <2>1, <2>2, <2>3 DEF CallInStep
  <2> QED
    BY <1>3, <2>2, <2>3, <2>4
<1>8. ASSUME NEW c \in Calls, Mailed!SetPassword(c) \/ Mailed!MarkVerified(c) PROVE LinkInv'
  <2>1. PICK kind \in Mailed!Kinds :
          /\ linkCall[c].pc = "use" /\ linkCall[c].kind = kind
          /\ link' = Mailed!Burn(Mailed!Live(kind))
          /\ dead' = dead \cup {linkCall[c].link} /\ Mailed!Answer(c)
          /\ hash' \in [pw : Things, bcrypt : BOOLEAN] /\ verified' \in BOOLEAN
    <3>1. CASE Mailed!SetPassword(c)
      <4>1. linkCall[c].pw \in Things
        BY <3>1 DEF Mailed!SetPassword
      <4>2. [pw |-> linkCall[c].pw, bcrypt |-> FALSE] \in [pw : Things, bcrypt : BOOLEAN]
        BY <4>1
      <4> QED
        BY <3>1, <4>2 DEF Mailed!SetPassword, Mailed!Kinds
    <3>2. CASE Mailed!MarkVerified(c)
      BY <3>2 DEF Mailed!MarkVerified, Mailed!Kinds
    <3> QED
      BY <1>8, <3>1, <3>2
  <2>2. /\ link' \in [Links -> LinkRow]
        /\ \A l \in Links : /\ link'[l].used <=> link[l].used \/ l \in Mailed!Live(kind)
                            /\ link'[l].kind = link[l].kind
    BY <2>1, BurnLinks DEF LinkInv, Mailed!TypeOK
  <2>3. link'[linkCall[c].link].used /\ linkCall[c].link \in Links
    BY <2>1, <2>2 DEF Mailed!Live
  <2>4. dead' \subseteq Links /\ \A k \in dead' : link'[k].used
    BY <2>1, <2>2, <2>3
  <2>5. LinksGrow
    BY <2>2 DEF LinksGrow
  <2> QED
    BY <2>1, <2>2, <2>4, <2>5, LinkAnswer, LinkMoves
<1>9. ASSUME NEW c \in Calls, Mailed!ReadOldHash(c) PROVE LinkInv'
  <2> DEFINE new == [Mailed!Idle EXCEPT !.pc = "rehash", !.pw = hash.pw]
  <2>1. linkCall' = [linkCall EXCEPT ![c] = new] /\ UNCHANGED <<hash, verified, link, dead>>
    BY <1>9 DEF Mailed!ReadOldHash
  <2>2. /\ new \in LinkCall
        /\ new.pc = "rehash" /\ new.pw \in Things /\ ~new.late
    BY DEF Mailed!Idle, LinkCall
  <2> HIDE DEF new
  <2>3. CallInStep(c)'
    BY <2>1, <2>2 DEF CallInStep
  <2> QED
    BY <1>3, <2>1, <2>2, <2>3
<1>10. ASSUME NEW c \in Calls, Mailed!Rehash(c) \/ Mailed!Abort(c) PROVE LinkInv'
  <2>1. /\ hash' \in [pw : Things, bcrypt : BOOLEAN] /\ UNCHANGED <<verified, link, dead>>
        /\ Mailed!Answer(c)
    <3>1. CASE Mailed!Rehash(c)
      <4>1. linkCall[c].pw \in Things
        BY <3>1 DEF Mailed!Rehash
      <4>2. [pw |-> linkCall[c].pw, bcrypt |-> FALSE] \in [pw : Things, bcrypt : BOOLEAN]
        BY <4>1
      <4> QED
        BY <3>1, <4>2 DEF Mailed!Rehash
    <3>2. CASE Mailed!Abort(c)
      BY <3>2 DEF Mailed!Abort
    <3> QED
      BY <1>10, <3>1, <3>2
  <2> QED
    BY <1>2, <1>t, <2>1, LinkAnswer, LinkMoves
<1>11. ASSUME NEW l \in Links, Mailed!Expire(l) PROVE LinkInv'
  <2>1. link' = [link EXCEPT ![l].expired = TRUE] /\ UNCHANGED <<hash, verified, linkCall, dead>>
    BY <1>11 DEF Mailed!Expire
  <2>2. LET r == [link[l] EXCEPT !.expired = TRUE] IN
        r \in LinkRow /\ r.used = link[l].used /\ r.kind = link[l].kind
    <3>1. link[l] \in LinkRow
      BY <1>t
    <3> QED
      BY <3>1 DEF LinkRow
  <2>3. /\ link' \in [Links -> LinkRow]
        /\ \A k \in Links : link'[k].used = link[k].used /\ link'[k].kind = link[k].kind
    BY <1>t, <2>1, <2>2
  <2>4. \A c \in Calls : linkCall[c].old \subseteq Links
    OBVIOUS
  <2>5. Mailed!TypeOK'
    BY <2>1, <2>3 DEF LinkRow
  <2> QED
    BY <2>1, <2>3, <2>4, <2>5
<1> QED
  BY <1>1, <1>4, <1>5, <1>6, <1>7, <1>8, <1>9, <1>10, <1>11 DEF Mailed!Next

\* No call that begins after a link was used, or replaced, gets past the lookup with it.
THEOREM DeadLinksOpenNothing == AccountsSpec => []DeadLinkRefused
<1> DEFINE Inv == part = "mailed" => LinkInv
<1>1. AccountsInit => Inv
  BY LinkInit DEF AccountsInit
<1>2. Inv => DeadLinkRefused
  BY DEF LinkInv, DeadLinkRefused, Mailed!DeadLinkRefused
<1>3. Inv /\ [AccountsNext]_accountsVars => Inv'
  BY LinkNext, AccountsParts
<1> HIDE DEF Inv
<1> QED
  BY <1>1, <1>2, <1>3, PTL DEF AccountsSpec

-------------------------------------------------------------------------------
(* Registration: no half tenant *)

\* The attempt that answers for a tenant: it has created it, and not committed.
Owning(c) ==
    /\ registerCall[c].created /\ ~registerCall[c].committed
    /\ registerCall[c].pc \in {"business", "commit", "fail"}

AttemptShape(c) ==
    /\ registerCall[c].pc # "idle" => registerCall[c].id \in Things
    /\ registerCall[c].pc = "tenant" => registerCall[c].slug \in SignUp!Slugs
    /\ registerCall[c].pc \in {"slug", "tenant"}
         => ~registerCall[c].created /\ ~registerCall[c].committed
    /\ registerCall[c].pc \in {"business", "commit"} => Owning(c)
    /\ registerCall[c].pc = "notify" => registerCall[c].committed

\* What the attempt that answers for a tenant finds.
Answers(c) ==
    LET t == registerCall[c].id IN
    /\ SignUp!Exists(t)
    /\ registerCall[c].pc = "commit" => t \in business
    /\ t \in account => t \in abandoned

\* A tenant has one attempt that answers for it at most, which finds it as it left it.
SignUpInv ==
    /\ SignUp!TypeOK
    /\ \A c \in Calls : AttemptShape(c) /\ (Owning(c) => Answers(c))
    /\ \A c, d \in Calls : Owning(c) /\ Owning(d) /\ registerCall[c].id = registerCall[d].id
                             => c = d
    /\ \A t \in account : SignUp!Exists(t)
    /\ SignUp!NoHalfTenant

Attempt ==
    [pc : {"idle", "slug", "tenant", "business", "commit", "notify", "fail", "report"},
     id : Things \cup {None}, slug : SignUp!Slugs \cup {None}, created : BOOLEAN,
     committed : BOOLEAN]

LEMMA SignUpInit == SignUp!Init => SignUpInv
<1> SUFFICES ASSUME SignUp!Init PROVE SignUpInv
  OBVIOUS
<1>1. SignUp!TypeOK
  BY DEF SignUp!Init, SignUp!TypeOK, SignUp!Idle
<1>2. \A t \in Things : ~SignUp!Exists(t)
  BY DEF SignUp!Init, SignUp!Exists
<1>3. \A c \in Calls : AttemptShape(c) /\ ~Owning(c)
  BY DEF SignUp!Init, SignUp!Idle, AttemptShape, Owning
<1> QED
  BY <1>1, <1>2, <1>3 DEF SignUp!Init, SignUpInv, SignUp!NoHalfTenant

\* One attempt moves, about one tenant: it is the only one that answers for the tenant, or
\* it leaves the rows alone.
LEMMA SignUpMoves ==
    ASSUME SignUpInv, NEW c \in Calls, NEW t \in Things,
           tenant' \in [Things -> SignUp!Slugs \cup {None}],
           business' \subseteq Things, account' \subseteq Things,
           abandoned \subseteq abandoned', abandoned' \subseteq Things,
           progress' \in [Things -> {None, "pending", "success", "failed"}],
           registerCall' \in [Calls -> Attempt],
           \A d \in Calls \ {c} : registerCall'[d] = registerCall[d],
           AttemptShape(c)', (Owning(c) => Answers(c))',
           Owning(c) => registerCall[c].id = t, (Owning(c) => registerCall[c].id = t)',
           \A u \in Things \ {t} : /\ tenant'[u] = tenant[u]
                                   /\ u \in business' <=> u \in business
                                   /\ u \in account' <=> u \in account,
           \/ UNCHANGED <<tenant, business, account>> /\ (Owning(c)' => Owning(c))
           \/ \A d \in Calls \ {c} : Owning(d) => registerCall[d].id # t,
           t \in account' => SignUp!Exists(t)',
           SignUp!Exists(t)' => \/ t \in abandoned' \/ t \in account' \cap business'
                                \/ Owning(c)'
                                \/ UNCHANGED <<tenant, business, account>> /\ ~Owning(c)
    PROVE  SignUpInv'
<1> USE DEF SignUpInv
<1>1. SignUp!TypeOK'
  BY DEF SignUp!TypeOK, Attempt
<1>2. ASSUME NEW d \in Calls, d # c
      PROVE  /\ AttemptShape(d)' /\ (Owning(d)' <=> Owning(d))
             /\ registerCall'[d].id = registerCall[d].id
             /\ Owning(d) => registerCall[d].id \in Things
             /\ Owning(d)' => Answers(d)'
  <2>1. registerCall'[d] = registerCall[d] /\ AttemptShape(d)
    BY <1>2
  <2>2. /\ AttemptShape(d)' /\ (Owning(d)' <=> Owning(d))
        /\ Owning(d) => registerCall[d].id \in Things
    BY <2>1 DEF AttemptShape, Owning
  <2>3. Owning(d) => Answers(d)'
    <3>1. CASE registerCall[d].id = t
      BY <1>2, <2>1, <3>1 DEF Answers, SignUp!Exists
    <3>2. CASE registerCall[d].id # t
      BY <1>2, <2>1, <2>2, <3>2 DEF Answers, SignUp!Exists
    <3> QED
      BY <3>1, <3>2
  <2> QED
    BY <2>1, <2>2, <2>3
<1>3. \A d \in Calls : AttemptShape(d)' /\ (Owning(d)' => Answers(d)')
  BY <1>2
<1>4. ASSUME NEW d \in Calls, NEW e \in Calls, Owning(d)', Owning(e)',
             registerCall'[d].id = registerCall'[e].id
      PROVE  d = e
  <2>1. CASE d # c /\ e # c
    BY <1>2, <1>4, <2>1
  <2>2. CASE (d = c) # (e = c)
    BY <1>2, <1>4, <2>2
  <2> QED
    BY <2>1, <2>2
<1>5. \A u \in account' : SignUp!Exists(u)'
  BY DEF SignUp!Exists
<1>6. ASSUME NEW u \in Things \ abandoned', SignUp!Exists(u)'
      PROVE  \/ u \in account' \cap business'
             \/ \E d \in Calls : Owning(d)' /\ registerCall'[d].id = u
  <2>1. SignUp!Exists(u) => \/ u \in account \cap business
                            \/ \E d \in Calls : Owning(d) /\ registerCall[d].id = u
    BY DEF SignUp!NoHalfTenant, Owning
  <2>2. CASE u # t
    BY <1>2, <1>6, <2>1, <2>2 DEF SignUp!Exists
  <2>3. CASE u = t
    BY <1>2, <1>6, <2>1, <2>3 DEF SignUp!Exists
  <2> QED
    BY <2>2, <2>3
<1>7. SignUp!NoHalfTenant'
  BY <1>6 DEF SignUp!NoHalfTenant, Owning
<1> QED
  BY <1>1, <1>3, <1>4, <1>5, <1>7

\* A set of numbers has a least one.
LEMMA LeastOf ==
    ASSUME NEW S \in SUBSET Nat, S # {}
    PROVE  (CHOOSE n \in S : \A m \in S : n <= m) \in S
<1>1. PICK n \in S : \A m \in S : ~(<<m, n>> \in OpToRel(<, Nat))
  BY NatLessThanWellFounded, WFMin
<1>2. \A m \in S : ~(m < n)
  BY <1>1 DEF OpToRel
<1>3. \A m \in S : n <= m
  BY <1>2
<1> QED
  BY <1>3

\* An attempt moves on, or ends, without writing rows.
LEMMA SignUpTurns ==
    ASSUME SignUpInv, NEW c \in Calls, NEW t \in Things, NEW new \in Attempt,
           registerCall' = [registerCall EXCEPT ![c] = new],
           UNCHANGED <<tenant, business, account>>,
           abandoned \subseteq abandoned', abandoned' \subseteq Things,
           progress' \in [Things -> {None, "pending", "success", "failed"}],
           AttemptShape(c)', Owning(c) => registerCall[c].id = t,
           Owning(c)' => Owning(c) /\ new.id = t /\ new.pc # "commit",
           Owning(c) => Owning(c)' \/ t \in abandoned'
    PROVE  SignUpInv'
<1>1. /\ registerCall' \in [Calls -> Attempt] /\ registerCall'[c] = new
      /\ \A d \in Calls \ {c} : registerCall'[d] = registerCall[d]
  BY DEF SignUpInv, SignUp!TypeOK, Attempt
<1>2. (Owning(c) => registerCall[c].id = t)'
  BY <1>1
<1>3. (Owning(c) => Answers(c))'
  BY <1>1 DEF SignUpInv, Answers, SignUp!Exists
<1>4. /\ tenant' \in [Things -> SignUp!Slugs \cup {None}]
      /\ business' \subseteq Things /\ account' \subseteq Things
      /\ t \in account' => SignUp!Exists(t)'
      /\ \A u \in Things \ {t} : /\ tenant'[u] = tenant[u]
                                 /\ u \in business' <=> u \in business
                                 /\ u \in account' <=> u \in account
  BY DEF SignUpInv, SignUp!TypeOK, SignUp!Exists
<1>5. UNCHANGED <<tenant, business, account>> /\ (Owning(c)' => Owning(c))
  OBVIOUS
<1>6. \/ t \in abandoned' \/ Owning(c)'
      \/ UNCHANGED <<tenant, business, account>> /\ ~Owning(c)
  OBVIOUS
<1> QED
  BY <1>1, <1>2, <1>3, <1>4, <1>5, <1>6, SignUpMoves

\* What an attempt notes of itself changes one field.
LEMMA NoteInAttempt ==
    ASSUME NEW r \in Attempt, NEW b \in BOOLEAN
    PROVE  /\ [r EXCEPT !.created = b] = [pc |-> r.pc, id |-> r.id, slug |-> r.slug,
                                          created |-> b, committed |-> r.committed]
           /\ [r EXCEPT !.committed = b] = [pc |-> r.pc, id |-> r.id, slug |-> r.slug,
                                            created |-> r.created, committed |-> b]
BY DEF Attempt

LEMMA SignUpNext == SignUpInv /\ [SignUp!Next]_signup => SignUpInv'
<1> SUFFICES ASSUME SignUpInv, [SignUp!Next]_signup PROVE SignUpInv'
  OBVIOUS
<1>0. /\ registerCall \in [Calls -> Attempt] /\ tenant \in [Things -> SignUp!Slugs \cup {None}]
      /\ business \subseteq Things /\ account \subseteq Things /\ abandoned \subseteq Things
      /\ progress \in [Things -> {None, "pending", "success", "failed"}]
  BY DEF SignUpInv, SignUp!TypeOK, Attempt
<1>i. SignUp!Idle \in Attempt
  BY DEF SignUp!Idle, Attempt
<1>n. None \notin SignUp!Slugs
  BY AccountsAssumption
<1>1. CASE UNCHANGED signup
  BY <1>1 DEF signup, SignUpInv, SignUp!TypeOK, SignUp!NoHalfTenant, AttemptShape, Owning,
              Answers, SignUp!Exists
<1>2. ASSUME NEW c \in Calls, NEW t \in Things, SignUp!Ask(c, t) PROVE SignUpInv'
  <2> DEFINE new == [SignUp!Idle EXCEPT !.pc = "slug", !.id = t]
  <2>1. /\ registerCall[c].pc = "idle" /\ registerCall' = [registerCall EXCEPT ![c] = new]
        /\ UNCHANGED <<tenant, business, account, progress, abandoned>>
    BY <1>2 DEF SignUp!Ask
  <2>2. /\ new \in Attempt /\ new.pc = "slug" /\ new.id = t /\ ~new.created /\ ~new.committed
    BY DEF SignUp!Idle, Attempt
  <2> HIDE DEF new
  <2>3. registerCall'[c] = new
    BY <1>0, <2>1
  <2>4. AttemptShape(c)' /\ ~Owning(c)' /\ ~Owning(c)
    BY <2>1, <2>2, <2>3 DEF AttemptShape, Owning
  <2> QED
    BY <1>0, <2>1, <2>2, <2>4, SignUpTurns
\* Every other step is of an attempt that has named its tenant.
<1>3. ASSUME NEW c \in Calls, registerCall[c].pc # "idle"
      PROVE  /\ registerCall[c] \in Attempt /\ registerCall[c].id \in Things
             /\ AttemptShape(c) /\ (Owning(c) => Answers(c))
  BY <1>0, <1>3 DEF SignUpInv, AttemptShape
\* It moves on with what it holds.
<1> DEFINE With(c, pc, created, committed) ==
             [pc |-> pc, id |-> registerCall[c].id, slug |-> registerCall[c].slug,
              created |-> created, committed |-> committed]
<1>4. ASSUME NEW c \in Calls, registerCall[c].pc # "idle",
             NEW pc \in {"fail", "report", "business", "commit", "notify"},
             NEW created \in BOOLEAN, NEW committed \in BOOLEAN
      PROVE  With(c, pc, created, committed) \in Attempt
  BY <1>3, <1>4 DEF Attempt
<1>5. ASSUME NEW c \in Calls, registerCall[c].pc # "idle", NEW pc, SignUp!Goto(c, pc)
      PROVE  registerCall' = [registerCall EXCEPT
               ![c] = With(c, pc, registerCall[c].created, registerCall[c].committed)]
  <2>1. [registerCall[c] EXCEPT !.pc = pc]
          = With(c, pc, registerCall[c].created, registerCall[c].committed)
    BY <1>3, <1>5 DEF Attempt
  <2> QED
    BY <1>5, <2>1 DEF SignUp!Goto
\* What one that answers for a tenant may assume.
<1>6. ASSUME NEW c \in Calls, Owning(c)
      PROVE  \A d \in Calls \ {c} : Owning(d) => registerCall[d].id # registerCall[c].id
  BY <1>6 DEF SignUpInv
<1>7. ASSUME NEW c \in Calls, SignUp!ChooseSlug(c) PROVE SignUpInv'
  <2>1. PICK n \in SignUp!Slugs : n = SignUp!SlugFound
    <3> DEFINE free == {n \in SignUp!Slugs : ~SignUp!SlugTaken(n)}
    <3>1. free \subseteq Nat /\ MaxSlug \in SignUp!Slugs
      BY AccountsAssumption DEF SignUp!Slugs
    <3>2. free # {} => (CHOOSE m \in free : \A k \in free : m <= k) \in free
      BY <3>1, LeastOf
    <3> QED
      BY <3>1, <3>2 DEF SignUp!SlugFound
  <2> DEFINE new == [registerCall[c] EXCEPT !.pc = "tenant", !.slug = n]
  <2>2. /\ registerCall[c].pc = "slug" /\ registerCall' = [registerCall EXCEPT ![c] = new]
        /\ progress' = [progress EXCEPT ![registerCall[c].id] = "pending"]
        /\ UNCHANGED <<tenant, business, account, abandoned>>
    BY <1>0, <1>7, <2>1 DEF SignUp!ChooseSlug
  <2>4. /\ new \in Attempt /\ new.pc = "tenant" /\ new.id = registerCall[c].id /\ new.slug = n
        /\ ~new.created /\ ~new.committed
    BY <1>3, <2>2 DEF Attempt, AttemptShape
  <2> HIDE DEF new
  <2>5. registerCall'[c] = new
    BY <1>0, <2>2
  <2>6. AttemptShape(c)' /\ ~Owning(c)' /\ ~Owning(c)
    BY <1>3, <2>2, <2>4, <2>5 DEF AttemptShape, Owning
  <2>7. progress' \in [Things -> {None, "pending", "success", "failed"}]
    BY <1>0, <2>2
  <2> QED
    BY <1>0, <1>3, <2>2, <2>4, <2>6, <2>7, SignUpTurns
\* A statement is refused, or throws.
<1>8. ASSUME NEW c \in Calls, registerCall[c].pc \in {"tenant", "business", "commit", "notify"},
             SignUp!Goto(c, "fail"),
             UNCHANGED <<tenant, business, account, progress, abandoned>>
      PROVE  SignUpInv'
  <2>1. PICK new : new = With(c, "fail", registerCall[c].created, registerCall[c].committed)
    OBVIOUS
  <2>2. registerCall[c].created \in BOOLEAN /\ registerCall[c].committed \in BOOLEAN
    BY <1>3, <1>8 DEF Attempt
  <2>3. /\ new \in Attempt /\ registerCall' = [registerCall EXCEPT ![c] = new]
        /\ new.pc = "fail" /\ new.id = registerCall[c].id
        /\ new.created = registerCall[c].created /\ new.committed = registerCall[c].committed
    BY <1>4, <1>5, <1>8, <2>1, <2>2
  <2>4. registerCall'[c] = new
    BY <1>0, <2>3
  <2>5. AttemptShape(c)' /\ (Owning(c) <=> Owning(c)')
    BY <1>3, <1>8, <2>3, <2>4 DEF AttemptShape, Owning
  <2> QED
    BY <1>0, <1>3, <1>8, <2>3, <2>5, SignUpTurns
\* A step that writes rows: the attempt has named its tenant, and its record is explicit.
<1>9. ASSUME NEW c \in Calls, registerCall[c].pc # "idle",
             NEW pc \in {"fail", "report", "business", "commit", "notify"},
             NEW created \in BOOLEAN, NEW committed \in BOOLEAN,
             registerCall' = [registerCall EXCEPT ![c] = With(c, pc, created, committed)]
      PROVE  /\ registerCall' \in [Calls -> Attempt]
             /\ \A d \in Calls \ {c} : registerCall'[d] = registerCall[d]
             /\ registerCall'[c].pc = pc /\ registerCall'[c].created = created
             /\ registerCall'[c].committed = committed
             /\ registerCall'[c].id = registerCall[c].id
             /\ registerCall'[c].slug = registerCall[c].slug
  <2>1. With(c, pc, created, committed) \in Attempt
    BY <1>4, <1>9
  <2> QED
    BY <1>0, <1>9, <2>1
\* The record of an attempt, with two fields replaced.
<1>10. ASSUME NEW c \in Calls, registerCall[c].pc # "idle", NEW pc \in {"business", "notify"}
       PROVE  /\ registerCall[c].created \in BOOLEAN /\ registerCall[c].committed \in BOOLEAN
              /\ [registerCall EXCEPT ![c].pc = pc, ![c].created = TRUE]
                   = [registerCall EXCEPT ![c] = With(c, pc, TRUE, registerCall[c].committed)]
              /\ [registerCall EXCEPT ![c].pc = pc, ![c].committed = TRUE]
                   = [registerCall EXCEPT ![c] = With(c, pc, registerCall[c].created, TRUE)]
  <2>1. registerCall[c] \in Attempt
    BY <1>3, <1>10
  <2>2. /\ [registerCall[c] EXCEPT !.pc = pc, !.created = TRUE]
             = With(c, pc, TRUE, registerCall[c].committed)
        /\ [registerCall[c] EXCEPT !.pc = pc, !.committed = TRUE]
             = With(c, pc, registerCall[c].created, TRUE)
    <3>1. PICK r \in Attempt : r = [registerCall[c] EXCEPT !.pc = pc]
      BY <2>1 DEF Attempt
    <3>2. r = With(c, pc, registerCall[c].created, registerCall[c].committed)
      BY <2>1, <3>1 DEF Attempt
    <3>3. TRUE \in BOOLEAN
      OBVIOUS
    <3>4. /\ [r EXCEPT !.created = TRUE]
               = [pc |-> r.pc, id |-> r.id, slug |-> r.slug, created |-> TRUE,
                  committed |-> r.committed]
          /\ [r EXCEPT !.committed = TRUE]
               = [pc |-> r.pc, id |-> r.id, slug |-> r.slug, created |-> r.created,
                  committed |-> TRUE]
      BY <3>3, NoteInAttempt
    <3> QED
      BY <3>1, <3>2, <3>4
  <2> QED
    BY <1>0, <2>1, <2>2 DEF Attempt
<1>11. ASSUME NEW c \in Calls, SignUp!CreateTenant(c) \/ SignUp!CreateTenantUnanswered(c)
       PROVE  SignUpInv'
  <2>1. registerCall[c].pc = "tenant" /\ ~Owning(c)
        /\ UNCHANGED <<business, account, progress>>
    BY <1>11 DEF SignUp!CreateTenant, SignUp!CreateTenantUnanswered, SignUpInv, AttemptShape,
                 Owning
  <2>2. PICK t \in Things : t = registerCall[c].id
    BY <1>3, <2>1
  <2>3. CASE SignUp!Goto(c, "fail") /\ UNCHANGED <<tenant, abandoned>>
    BY <1>8, <2>1, <2>3
  <2>4. CASE /\ ~SignUp!Exists(t)
             /\ tenant' = [tenant EXCEPT ![t] = registerCall[c].slug]
             /\ \/ /\ registerCall' = [registerCall EXCEPT ![c].pc = "business",
                                                           ![c].created = TRUE]
                   /\ abandoned' = abandoned
                \/ SignUp!Goto(c, "fail") /\ abandoned' = abandoned \cup {t}
    <3>1. registerCall[c].slug \in SignUp!Slugs /\ ~registerCall[c].created
          /\ ~registerCall[c].committed
      BY <1>3, <2>1 DEF AttemptShape
    <3>2. /\ tenant' \in [Things -> SignUp!Slugs \cup {None}] /\ SignUp!Exists(t)'
          /\ \A u \in Things \ {t} : tenant'[u] = tenant[u]
      BY <1>0, <1>n, <2>4, <3>1 DEF SignUp!Exists
    <3>3. t \notin account
      BY <2>4 DEF SignUpInv
    <3>4. \A d \in Calls \ {c} : Owning(d) => registerCall[d].id # t
      BY <2>4 DEF SignUpInv, Answers
    <3>5. CASE abandoned' = abandoned /\ registerCall' =
                 [registerCall EXCEPT ![c].pc = "business", ![c].created = TRUE]
      <4>1. registerCall' = [registerCall EXCEPT
                               ![c] = With(c, "business", TRUE, registerCall[c].committed)]
        BY <1>10, <2>1, <3>5
      <4>2. /\ registerCall' \in [Calls -> Attempt]
            /\ \A d \in Calls \ {c} : registerCall'[d] = registerCall[d]
            /\ registerCall'[c].pc = "business" /\ registerCall'[c].created
            /\ ~registerCall'[c].committed /\ registerCall'[c].id = t
        BY <1>9, <1>10, <2>1, <2>2, <3>1, <4>1
      <4>3. AttemptShape(c)' /\ Owning(c)' /\ Answers(c)'
        BY <2>1, <3>2, <3>3, <4>2 DEF AttemptShape, Owning, Answers
      <4> QED
        BY <1>0, <2>1, <3>2, <3>3, <3>4, <3>5, <4>2, <4>3, SignUpMoves
    <3>6. CASE SignUp!Goto(c, "fail") /\ abandoned' = abandoned \cup {t}
      <4>1. registerCall' = [registerCall EXCEPT ![c] =
              With(c, "fail", registerCall[c].created, registerCall[c].committed)]
        BY <1>5, <2>1, <3>6
      <4>2. /\ registerCall' \in [Calls -> Attempt]
            /\ \A d \in Calls \ {c} : registerCall'[d] = registerCall[d]
            /\ registerCall'[c].pc = "fail" /\ ~registerCall'[c].created
            /\ registerCall'[c].id = t
        BY <1>9, <1>10, <2>1, <2>2, <3>1, <4>1
      <4>3. AttemptShape(c)' /\ ~Owning(c)'
        BY <4>2 DEF AttemptShape, Owning
      <4> QED
        BY <1>0, <2>1, <3>2, <3>3, <3>4, <3>6, <4>2, <4>3, SignUpMoves
    <3> QED
      BY <2>4, <3>5, <3>6
  <2> QED
    BY <1>11, <2>2, <2>3, <2>4 DEF SignUp!CreateTenant, SignUp!CreateTenantUnanswered
\* From here on it answers for the tenant.
<1>12. ASSUME NEW c \in Calls,
              SignUp!SeedBusiness(c) \/ SignUp!Commit(c) \/ SignUp!CommitUnanswered(c)
       PROVE  SignUpInv'
  <2>1. Owning(c) /\ registerCall[c].pc \in {"business", "commit"}
    BY <1>12 DEF SignUp!SeedBusiness, SignUp!Commit, SignUp!CommitUnanswered, SignUpInv,
                 AttemptShape
  <2>2. PICK t \in Things : t = registerCall[c].id
    BY <1>3, <2>1
  <2>3. /\ registerCall[c].created /\ ~registerCall[c].committed /\ SignUp!Exists(t)
        /\ registerCall[c].pc = "commit" => t \in business
        /\ t \in account => t \in abandoned
    BY <2>1, <2>2 DEF Owning, SignUpInv, Answers
  <2>4. \A d \in Calls \ {c} : Owning(d) => registerCall[d].id # t
    BY <1>6, <2>1, <2>2
  <2>5. CASE SignUp!SeedBusiness(c)
    <3>1. /\ business' = business \cup {t} /\ SignUp!Goto(c, "commit")
          /\ UNCHANGED <<tenant, account, progress, abandoned>>
      BY <2>2, <2>5 DEF SignUp!SeedBusiness
    <3>2. registerCall' = [registerCall EXCEPT ![c] =
            With(c, "commit", registerCall[c].created, registerCall[c].committed)]
      BY <1>5, <2>1, <3>1
    <3>3. /\ registerCall' \in [Calls -> Attempt]
          /\ \A d \in Calls \ {c} : registerCall'[d] = registerCall[d]
          /\ registerCall'[c].pc = "commit" /\ registerCall'[c].created
          /\ ~registerCall'[c].committed /\ registerCall'[c].id = t
      BY <1>9, <1>10, <2>1, <2>2, <2>3, <3>2
    <3>4. AttemptShape(c)' /\ Owning(c)' /\ Answers(c)' /\ SignUp!Exists(t)'
      BY <2>2, <2>3, <3>1, <3>3 DEF AttemptShape, Owning, Answers, SignUp!Exists
    <3> QED
      BY <1>0, <2>2, <2>4, <3>1, <3>3, <3>4, SignUpMoves
  <2>6. CASE SignUp!Commit(c)
    <3>1. /\ account' = account \cup {t} /\ UNCHANGED <<tenant, business, progress, abandoned>>
          /\ registerCall' = [registerCall EXCEPT ![c].pc = "notify", ![c].committed = TRUE]
          /\ t \in business
      BY <2>2, <2>3, <2>6 DEF SignUp!Commit
    <3>2. registerCall' = [registerCall EXCEPT ![c] =
            With(c, "notify", registerCall[c].created, TRUE)]
      BY <1>10, <2>1, <3>1
    <3>3. /\ registerCall' \in [Calls -> Attempt]
          /\ \A d \in Calls \ {c} : registerCall'[d] = registerCall[d]
          /\ registerCall'[c].pc = "notify" /\ registerCall'[c].committed
          /\ registerCall'[c].id = t
      BY <1>9, <1>10, <2>1, <2>2, <3>2
    <3>4. AttemptShape(c)' /\ ~Owning(c)' /\ SignUp!Exists(t)'
      BY <2>2, <2>3, <3>1, <3>3 DEF AttemptShape, Owning, SignUp!Exists
    <3> QED
      BY <1>0, <2>2, <2>4, <3>1, <3>3, <3>4, SignUpMoves
  <2>7. CASE SignUp!CommitUnanswered(c)
    <3>1. /\ account' = account \cup {t} /\ abandoned' = abandoned \cup {t}
          /\ UNCHANGED <<tenant, business, progress>> /\ SignUp!Goto(c, "fail")
      BY <2>2, <2>7 DEF SignUp!CommitUnanswered
    <3>2. registerCall' = [registerCall EXCEPT ![c] =
            With(c, "fail", registerCall[c].created, registerCall[c].committed)]
      BY <1>5, <2>1, <3>1
    <3>3. /\ registerCall' \in [Calls -> Attempt]
          /\ \A d \in Calls \ {c} : registerCall'[d] = registerCall[d]
          /\ registerCall'[c].pc = "fail" /\ registerCall'[c].id = t
      BY <1>9, <1>10, <2>1, <2>2, <3>2
    <3>4. AttemptShape(c)' /\ Answers(c)' /\ SignUp!Exists(t)'
      BY <2>2, <2>3, <3>1, <3>3 DEF AttemptShape, Owning, Answers, SignUp!Exists
    <3> QED
      BY <1>0, <2>2, <2>4, <3>1, <3>3, <3>4, SignUpMoves
  <2> QED
    BY <1>12, <2>5, <2>6, <2>7
<1>13. ASSUME NEW c \in Calls, SignUp!Finish(c) \/ SignUp!Report(c) PROVE SignUpInv'
  <2>1. /\ registerCall[c].pc \in {"notify", "report"}
        /\ registerCall' = [registerCall EXCEPT ![c] = SignUp!Idle]
        /\ UNCHANGED <<tenant, business, account, abandoned>>
        /\ \/ progress' = [progress EXCEPT ![registerCall[c].id] = "success"]
           \/ progress' = [progress EXCEPT ![registerCall[c].id] = "failed"]
    BY <1>13 DEF SignUp!Finish, SignUp!Report
  <2>2. progress' \in [Things -> {None, "pending", "success", "failed"}]
    BY <1>0, <2>1
  <2>3. registerCall'[c] = SignUp!Idle
    BY <1>0, <2>1
  <2>4. AttemptShape(c)' /\ ~Owning(c)' /\ ~Owning(c)
    BY <1>3, <2>1, <2>3 DEF AttemptShape, Owning, SignUp!Idle
  <2> QED
    BY <1>0, <1>3, <1>i, <2>1, <2>2, <2>4, SignUpTurns
<1>14. ASSUME NEW c \in Calls, SignUp!Throw(c) PROVE SignUpInv'
  BY <1>8, <1>14 DEF SignUp!Throw
<1>15. ASSUME NEW c \in Calls, SignUp!Compensate(c) PROVE SignUpInv'
  <2>1. registerCall[c].pc = "fail" /\ SignUp!Goto(c, "report")
        /\ UNCHANGED <<progress, abandoned>>
    BY <1>15 DEF SignUp!Compensate
  <2>2. PICK t \in Things : t = registerCall[c].id
    BY <1>3, <2>1
  <2>3. registerCall' = [registerCall EXCEPT ![c] =
          With(c, "report", registerCall[c].created, registerCall[c].committed)]
    BY <1>5, <2>1
  <2>4. /\ registerCall[c].created \in BOOLEAN /\ registerCall[c].committed \in BOOLEAN
        /\ registerCall[c] \in Attempt
    BY <1>3, <2>1 DEF Attempt
  <2>5. /\ registerCall' \in [Calls -> Attempt]
        /\ \A d \in Calls \ {c} : registerCall'[d] = registerCall[d]
        /\ registerCall'[c].pc = "report" /\ registerCall'[c].id = t
    BY <1>9, <2>1, <2>2, <2>3, <2>4
  <2>6. AttemptShape(c)' /\ ~Owning(c)'
    BY <2>5 DEF AttemptShape, Owning
  <2>7. CASE Owning(c)
    <3>1. /\ tenant' = [tenant EXCEPT ![t] = None]
          /\ business' = business \ {t} /\ account' = account \ {t}
      BY <1>15, <2>2, <2>7 DEF SignUp!Compensate, Owning
    <3>2. \A d \in Calls \ {c} : Owning(d) => registerCall[d].id # t
      BY <1>6, <2>2, <2>7
    <3>3. /\ tenant' \in [Things -> SignUp!Slugs \cup {None}] /\ ~SignUp!Exists(t)'
          /\ \A u \in Things \ {t} : tenant'[u] = tenant[u]
      BY <1>0, <3>1 DEF SignUp!Exists
    <3> QED
      BY <1>0, <2>1, <2>2, <2>5, <2>6, <3>1, <3>2, <3>3, SignUpMoves
  <2>8. CASE ~Owning(c)
    <3>1. UNCHANGED <<tenant, business, account>>
      BY <1>15, <2>1, <2>8 DEF SignUp!Compensate, Owning
    <3>2. t \in account' => SignUp!Exists(t)'
      BY <3>1 DEF SignUpInv, SignUp!Exists
    <3> QED
      BY <1>0, <2>1, <2>2, <2>5, <2>6, <2>8, <3>1, <3>2, SignUpMoves
  <2> QED
    BY <2>7, <2>8
<1>16. ASSUME NEW c \in Calls, SignUp!CompensationFails(c) PROVE SignUpInv'
  <2>1. /\ registerCall[c].pc = "fail" /\ SignUp!Goto(c, "report")
        /\ abandoned' = abandoned \cup {registerCall[c].id}
        /\ UNCHANGED <<tenant, business, account, progress>>
    BY <1>16 DEF SignUp!CompensationFails
  <2>2. PICK new : new = With(c, "report", registerCall[c].created, registerCall[c].committed)
    OBVIOUS
  <2>3. registerCall[c].created \in BOOLEAN /\ registerCall[c].committed \in BOOLEAN
    BY <1>3, <2>1 DEF Attempt
  <2>4. /\ new \in Attempt /\ registerCall' = [registerCall EXCEPT ![c] = new]
        /\ new.pc = "report"
    BY <1>4, <1>5, <2>1, <2>2, <2>3
  <2>5. registerCall'[c] = new
    BY <1>0, <2>4
  <2>6. AttemptShape(c)' /\ ~Owning(c)'
    BY <1>3, <2>1, <2>2, <2>4, <2>5 DEF AttemptShape, Owning
  <2> QED
    BY <1>0, <1>3, <2>1, <2>4, <2>6, SignUpTurns
<1>17. ASSUME NEW c \in Calls, SignUp!Die(c) PROVE SignUpInv'
  <2>1. /\ registerCall[c].pc # "idle"
        /\ registerCall' = [registerCall EXCEPT ![c] = SignUp!Idle]
        /\ abandoned \subseteq abandoned' /\ abandoned' \subseteq abandoned \cup {registerCall[c].id}
        /\ Owning(c) => registerCall[c].id \in abandoned'
        /\ UNCHANGED <<tenant, business, account, progress>>
    BY <1>17 DEF SignUp!Die, Owning
  <2>2. registerCall'[c] = SignUp!Idle
    BY <1>0, <2>1
  <2>3. AttemptShape(c)' /\ ~Owning(c)'
    BY <2>2 DEF AttemptShape, Owning, SignUp!Idle
  <2> QED
    BY <1>0, <1>3, <1>i, <2>1, <2>3, SignUpTurns
<1> QED
  BY <1>1, <1>2, <1>7, <1>11, <1>12, <1>13, <1>14, <1>15, <1>16, <1>17 DEF SignUp!Next

\* Whatever fails, and whichever attempts share a tenant id, a tenant without an
\* administrator is about to get one or to be deleted, unless it was abandoned.
THEOREM NoTenantIsLeftHalf == AccountsSpec => []NoHalfTenant
<1>1. AccountsInit => SignUpInv
  BY SignUpInit DEF AccountsInit
<1>2. SignUpInv => NoHalfTenant
  BY DEF SignUpInv, NoHalfTenant
<1>3. SignUpInv /\ [AccountsNext]_accountsVars => SignUpInv'
  BY SignUpNext, AccountsParts
<1> QED
  BY <1>1, <1>2, <1>3, PTL DEF AccountsSpec

\* Compensation never deletes a tenant whose registration has committed.
THEOREM RegisteredTenantsStay == AccountsSpec => RegisteredStays
<1>1. AccountsInit => SignUpInv
  BY SignUpInit DEF AccountsInit
<1>2. SignUpInv /\ [AccountsNext]_accountsVars => SignUpInv'
  BY SignUpNext, AccountsParts
<1>3. SignUpInv /\ [SignUp!Next]_signup => [account \subseteq account' \cup abandoned]_signup
  <2> SUFFICES ASSUME SignUpInv, SignUp!Next PROVE account \subseteq account' \cup abandoned
    OBVIOUS
  <2>1. ASSUME NEW c \in Calls, SignUp!Compensate(c)
        PROVE  account \subseteq account' \cup abandoned
    <3>1. CASE Owning(c)
      <4>1. account' = account \ {registerCall[c].id}
        BY <2>1, <3>1 DEF SignUp!Compensate, Owning
      <4>2. registerCall[c].id \in account => registerCall[c].id \in abandoned
        BY <3>1 DEF SignUpInv, Answers
      <4> QED
        BY <4>1, <4>2
    <3>2. CASE ~Owning(c)
      BY <2>1, <3>2 DEF SignUp!Compensate, Owning
    <3> QED
      BY <3>1, <3>2
  <2>2. (\A c \in Calls : ~SignUp!Compensate(c)) => account \subseteq account'
    BY DEF SignUp!Next, SignUp!Ask, SignUp!ChooseSlug, SignUp!CreateTenant,
           SignUp!CreateTenantUnanswered, SignUp!SeedBusiness, SignUp!Commit,
           SignUp!CommitUnanswered, SignUp!Finish, SignUp!Throw, SignUp!CompensationFails,
           SignUp!Report, SignUp!Die
  <2> QED
    BY <2>1, <2>2
<1> QED
  BY <1>1, <1>2, <1>3, AccountsParts, PTL
     DEF AccountsSpec, RegisteredStays, SignUp!RegisteredStays, signup, SignUp!registrationVars

-------------------------------------------------------------------------------
(* Leaving an organisation signs out of it *)

Waiting(calls, pc, u) == {c \in Calls : calls[c] = [pc |-> pc, who |-> u]}

\* Whoever is signed in, or about to be, although they have left is excused or about to
\* be signed out.  Calls that passed a limit together exceed it by their number only.
OwnInv ==
    /\ Own!TypeOK
    /\ \A c \in Calls : ownCall[c].pc # "idle" => ownCall[c].who \in Things
    /\ \A u \in Things :
         /\ requests[u] + Cardinality(Waiting(ownCall, "request", u)) <= Cardinality(Calls)
         /\ contacts[u] + Cardinality(Waiting(ownCall, "contact", u)) <= MaxContacts + Own!Overshoot
    /\ \A u \in Things \ active :
         u \in session \/ Waiting(ownCall, "session", u) # {}
           => u \in excused \/ Waiting(ownCall, "signout", u) # {}

OwnCall ==
    [pc : {"idle", "leave", "signout", "session", "request", "contact"}, who : Things \cup {None}]

LEMMA WaitingIsFinite ==
    ASSUME NEW calls, NEW pc, NEW u
    PROVE  /\ IsFiniteSet(Waiting(calls, pc, u)) /\ Cardinality(Waiting(calls, pc, u)) \in Nat
           /\ Cardinality(Waiting(calls, pc, u)) <= Cardinality(Calls) /\ Cardinality(Calls) \in Nat
<1>1. IsFiniteSet(Calls) /\ Waiting(calls, pc, u) \subseteq Calls
  BY AccountsAssumption DEF Waiting
<1> QED
  BY <1>1, FS_Subset, FS_CardinalityType

LEMMA OvershootIs == Own!Overshoot = Cardinality(Calls) - 1
BY DEF Own!Overshoot, Own!Cardinality, Cardinality

LEMMA OwnInit == Own!Init => OwnInv
<1> SUFFICES ASSUME Own!Init PROVE OwnInv
  OBVIOUS
<1>0. Cardinality(Calls) \in Nat /\ MaxContacts \in Nat \ {0}
  BY AccountsAssumption, FS_CardinalityType
<1>1. \A pc \in {"request", "contact", "session"}, u \in Things : Waiting(ownCall, pc, u) = {}
  BY DEF Own!Init, Own!Idle, Waiting
<1>2. ASSUME NEW u \in Things
      PROVE  /\ requests[u] + Cardinality(Waiting(ownCall, "request", u)) <= Cardinality(Calls)
             /\ contacts[u] + Cardinality(Waiting(ownCall, "contact", u)) <= MaxContacts + Own!Overshoot
  <2>1. requests[u] = 0 /\ contacts[u] = 0
    BY DEF Own!Init
  <2>2. /\ Cardinality(Waiting(ownCall, "request", u)) = 0
        /\ Cardinality(Waiting(ownCall, "contact", u)) = 0
    BY <1>1, FS_EmptySet
  <2> QED
    BY <1>0, <2>1, <2>2, OvershootIs
<1>3. ASSUME Things # {} PROVE 0 <= MaxContacts + Own!Overshoot
  BY <1>0, OvershootIs
<1>4. Own!TypeOK
  BY <1>0, <1>3, OvershootIs DEF Own!Init, Own!TypeOK, Own!Idle
<1> QED
  BY <1>1, <1>2, <1>4 DEF OwnInv, Own!Init, Own!Idle

\* One call moves: who is waiting changes by that call.
LEMMA WaitingMoves ==
    ASSUME NEW calls, NEW calls1, NEW c \in Calls, NEW pc, NEW u,
           \A d \in Calls \ {c} : calls1[d] = calls[d]
    PROVE  Waiting(calls1, pc, u) = IF calls1[c] = [pc |-> pc, who |-> u]
                                    THEN Waiting(calls, pc, u) \cup {c}
                                    ELSE Waiting(calls, pc, u) \ {c}
BY DEF Waiting

\* Two sets of calls that differ by one call at most.
LEMMA OneCallApart ==
    ASSUME NEW W \in SUBSET Calls, NEW W1 \in SUBSET Calls, NEW c \in Calls,
           \A d \in Calls \ {c} : d \in W1 <=> d \in W
    PROVE  /\ IsFiniteSet(W) /\ IsFiniteSet(W1)
           /\ Cardinality(W) \in Nat /\ Cardinality(W1) \in Nat /\ Cardinality(Calls) \in Nat
           /\ Cardinality(W1) <= Cardinality(Calls)
           /\ Cardinality(W1) <= Cardinality(W) + 1
           /\ c \notin W1 => Cardinality(W1) <= Cardinality(W)
           /\ c \in W /\ c \in W1 => Cardinality(W1) = Cardinality(W)
           /\ c \in W /\ c \notin W1 => Cardinality(W1) = Cardinality(W) - 1
<1>0. /\ IsFiniteSet(W) /\ Cardinality(W) \in Nat /\ IsFiniteSet(W1)
      /\ Cardinality(W1) \in Nat /\ Cardinality(Calls) \in Nat
      /\ Cardinality(W1) <= Cardinality(Calls)
  BY AccountsAssumption, FS_Subset, FS_CardinalityType
<1>1. CASE c \in W1
  <2>1. W1 = W \cup {c}
    BY <1>1
  <2>2. Cardinality(W1) = IF c \in W THEN Cardinality(W) ELSE Cardinality(W) + 1
    BY <1>0, <2>1, FS_AddElement
  <2> QED
    BY <1>0, <1>1, <2>2
<1>2. CASE c \notin W1
  <2>1. W1 = W \ {c}
    BY <1>2
  <2>2. Cardinality(W1) = IF c \in W THEN Cardinality(W) - 1 ELSE Cardinality(W)
    BY <1>0, <2>1, FS_RemoveElement
  <2> QED
    BY <1>0, <1>2, <2>2
<1> QED
  BY <1>1, <1>2

\* A step of a call, which keeps whoever has left signed out.
LEMMA OwnMoves ==
    ASSUME OwnInv, NEW c \in Calls, NEW new \in OwnCall,
           ownCall' = [ownCall EXCEPT ![c] = new], new.pc # "idle" => new.who \in Things,
           active' \subseteq Things, owners' \subseteq Things, session' \subseteq Things,
           excused' \subseteq Things,
           requests' \in [Things -> Nat], contacts' \in [Things -> Nat],
           \A u \in Things :
             /\ \/ requests'[u] <= requests[u]
                \/ /\ requests'[u] = requests[u] + 1
                   /\ ownCall[c] = [pc |-> "request", who |-> u] /\ new.pc = "idle"
             /\ \/ contacts'[u] <= contacts[u]
                \/ /\ contacts'[u] = contacts[u] + 1
                   /\ ownCall[c] = [pc |-> "contact", who |-> u] /\ new.pc = "idle",
           new.pc = "request" => requests'[new.who] = 0,
           new.pc = "contact" => contacts'[new.who] < MaxContacts,
           \A u \in Things \ active' :
             u \in session' \/ Waiting(ownCall', "session", u) # {}
               => u \in excused' \/ Waiting(ownCall', "signout", u) # {}
    PROVE  OwnInv'
<1>0. /\ requests \in [Things -> Nat] /\ contacts \in [Things -> Nat]
      /\ Cardinality(Calls) \in Nat /\ MaxContacts \in Nat \ {0}
      /\ Own!Overshoot = Cardinality(Calls) - 1
  BY AccountsAssumption, FS_CardinalityType, OvershootIs DEF OwnInv, Own!TypeOK
<1>c. ownCall' \in [Calls -> OwnCall] /\ ownCall'[c] = new
      /\ \A d \in Calls \ {c} : ownCall'[d] = ownCall[d]
  BY DEF OwnInv, Own!TypeOK, OwnCall
<1>1. ASSUME NEW u \in Things
      PROVE  requests'[u] + Cardinality(Waiting(ownCall', "request", u)) <= Cardinality(Calls)
  <2>1. requests[u] \in Nat /\ requests'[u] \in Nat
        /\ requests[u] + Cardinality(Waiting(ownCall, "request", u)) <= Cardinality(Calls)
    BY <1>0 DEF OwnInv
  <2>2. new = [pc |-> "request", who |-> u]
          => requests'[u] + Cardinality(Calls) <= Cardinality(Calls)
    BY <1>0
  <2>3. PICK W \in SUBSET Calls, W1 \in SUBSET Calls :
          W = Waiting(ownCall, "request", u) /\ W1 = Waiting(ownCall', "request", u)
    BY DEF Waiting
  <2>4. /\ \A d \in Calls \ {c} : d \in W1 <=> d \in W
        /\ c \in W1 => new = [pc |-> "request", who |-> u] /\ new.pc # "idle"
        /\ ownCall[c] = [pc |-> "request", who |-> u] => c \in W
    BY <1>c, <2>3 DEF Waiting
  <2>5. /\ Cardinality(W) \in Nat /\ Cardinality(W1) \in Nat
        /\ Cardinality(W1) <= Cardinality(Calls)
        /\ c \notin W1 => Cardinality(W1) <= Cardinality(W)
        /\ c \in W /\ c \notin W1 => Cardinality(W1) = Cardinality(W) - 1
    BY <2>4, OneCallApart
  <2>6. CASE c \in W1
    BY <1>0, <2>1, <2>2, <2>3, <2>4, <2>5, <2>6
  <2>7. CASE c \notin W1
    <3>1. \/ requests'[u] <= requests[u]
          \/ requests'[u] = requests[u] + 1 /\ c \in W
      BY <2>4
    <3>2. requests[u] + Cardinality(W) <= Cardinality(Calls)
      BY <2>1, <2>3
    <3>3. requests'[u] + Cardinality(W1) <= Cardinality(Calls)
      BY <1>0, <2>1, <2>5, <2>7, <3>1, <3>2
    <3> QED
      BY <2>3, <3>3
  <2> QED
    BY <2>6, <2>7
<1>2. ASSUME NEW u \in Things
      PROVE  contacts'[u] + Cardinality(Waiting(ownCall', "contact", u)) <= MaxContacts + Own!Overshoot
  <2>1. contacts[u] \in Nat /\ contacts'[u] \in Nat
        /\ contacts[u] + Cardinality(Waiting(ownCall, "contact", u)) <= MaxContacts + Own!Overshoot
    BY <1>0 DEF OwnInv
  <2>2. new = [pc |-> "contact", who |-> u]
          => contacts'[u] + Cardinality(Calls) <= MaxContacts + Own!Overshoot
    BY <1>0, <2>1
  <2>3. PICK W \in SUBSET Calls, W1 \in SUBSET Calls :
          W = Waiting(ownCall, "contact", u) /\ W1 = Waiting(ownCall', "contact", u)
    BY DEF Waiting
  <2>4. /\ \A d \in Calls \ {c} : d \in W1 <=> d \in W
        /\ c \in W1 => new = [pc |-> "contact", who |-> u] /\ new.pc # "idle"
        /\ ownCall[c] = [pc |-> "contact", who |-> u] => c \in W
    BY <1>c, <2>3 DEF Waiting
  <2>5. /\ Cardinality(W) \in Nat /\ Cardinality(W1) \in Nat
        /\ Cardinality(W1) <= Cardinality(Calls)
        /\ c \notin W1 => Cardinality(W1) <= Cardinality(W)
        /\ c \in W /\ c \notin W1 => Cardinality(W1) = Cardinality(W) - 1
    BY <2>4, OneCallApart
  <2>6. CASE c \in W1
    BY <1>0, <2>1, <2>2, <2>3, <2>4, <2>5, <2>6
  <2>7. CASE c \notin W1
    <3>1. \/ contacts'[u] <= contacts[u]
          \/ contacts'[u] = contacts[u] + 1 /\ c \in W
      BY <2>4
    <3>2. contacts[u] + Cardinality(W) <= MaxContacts + Own!Overshoot
      BY <2>1, <2>3
    <3>3. contacts'[u] + Cardinality(W1) <= MaxContacts + Own!Overshoot
      BY <1>0, <2>1, <2>5, <2>7, <3>1, <3>2
    <3> QED
      BY <2>3, <3>3
  <2> QED
    BY <2>6, <2>7
<1>4. ASSUME NEW u \in Things
      PROVE  /\ requests'[u] \in 0..(1 + Own!Overshoot)
             /\ contacts'[u] \in 0..(MaxContacts + Own!Overshoot)
  <2>1. /\ Cardinality(Waiting(ownCall', "request", u)) \in Nat
        /\ Cardinality(Waiting(ownCall', "contact", u)) \in Nat
        /\ requests'[u] \in Nat /\ contacts'[u] \in Nat
    BY WaitingIsFinite
  <2>2. /\ requests'[u] + Cardinality(Waiting(ownCall', "request", u)) <= Cardinality(Calls)
        /\ contacts'[u] + Cardinality(Waiting(ownCall', "contact", u))
             <= MaxContacts + Own!Overshoot
    BY <1>1, <1>2
  <2> QED
    BY <1>0, <2>1, <2>2
<1>5. Own!Overshoot' = Own!Overshoot
  BY DEF Own!Overshoot
<1>6. Own!TypeOK'
  BY <1>c, <1>4, <1>5 DEF Own!TypeOK, OwnCall
<1>7. \A d \in Calls : ownCall'[d].pc # "idle" => ownCall'[d].who \in Things
  BY <1>c DEF OwnInv
<1> QED
  BY <1>1, <1>2, <1>5, <1>6, <1>7 DEF OwnInv

LEMMA OwnNext == OwnInv /\ [Own!Next]_own => OwnInv'
<1> SUFFICES ASSUME OwnInv, [Own!Next]_own PROVE OwnInv'
  OBVIOUS
<1>0. /\ ownCall \in [Calls -> OwnCall]
      /\ requests \in [Things -> Nat] /\ contacts \in [Things -> Nat]
      /\ active \subseteq Things /\ owners \subseteq Things /\ session \subseteq Things
      /\ excused \subseteq Things
      /\ \A c \in Calls : ownCall[c].pc # "idle" => ownCall[c].who \in Things
  BY DEF OwnInv, Own!TypeOK, OwnCall
<1>g. \A u \in Things \ active :
        u \in session \/ Waiting(ownCall, "session", u) # {}
          => u \in excused \/ Waiting(ownCall, "signout", u) # {}
  BY DEF OwnInv
<1>1. CASE UNCHANGED own
  BY <1>1 DEF own, OwnInv, Own!TypeOK, Own!Overshoot
\* A handler that begins: what it waits for is not yet kept.
<1>2. ASSUME NEW c \in Calls, NEW pc \in {"leave", "session", "request", "contact"},
             NEW u \in Things, Own!Enter(c, pc, u),
             UNCHANGED <<active, owners, session, requests, contacts, excused>>,
             pc = "session" => u \in active,
             pc = "request" => requests[u] = 0, pc = "contact" => contacts[u] < MaxContacts
      PROVE  OwnInv'
  <2> DEFINE new == [pc |-> pc, who |-> u]
  <2>1. /\ new \in OwnCall /\ ownCall' = [ownCall EXCEPT ![c] = new] /\ ownCall[c].pc = "idle"
        /\ new.pc = pc /\ new.who = u
    BY <1>2 DEF Own!Enter, OwnCall
  <2>2. ASSUME NEW v \in Things \ active'
        PROVE  /\ Waiting(ownCall', "session", v) \subseteq Waiting(ownCall, "session", v)
               /\ Waiting(ownCall, "signout", v) \subseteq Waiting(ownCall', "signout", v)
    BY <1>0, <1>2, <2>1, <2>2 DEF Waiting
  <2> HIDE DEF new
  <2>3. \A v \in Things \ active' :
          v \in session' \/ Waiting(ownCall', "session", v) # {}
            => v \in excused' \/ Waiting(ownCall', "signout", v) # {}
    BY <1>2, <1>g, <2>2
  <2>4. \A v \in Things : requests'[v] <= requests[v] /\ contacts'[v] <= contacts[v]
    BY <1>0, <1>2
  <2> QED
    BY <1>0, <1>2, <2>1, <2>3, <2>4, OwnMoves
\* A handler that ends, or goes on to sign out: it has its account.
<1>3. ASSUME NEW c \in Calls, NEW new \in OwnCall, new.pc \in {"idle", "signout"},
             new.pc = "signout" => new.who \in Things,
             ownCall' = [ownCall EXCEPT ![c] = new], UNCHANGED <<owners, requests, contacts>>,
             active' \subseteq Things, session' \subseteq Things, excused' \subseteq Things,
             \A v \in Things \ active' :
               v \in session' \/ Waiting(ownCall', "session", v) # {}
                 => v \in excused' \/ Waiting(ownCall', "signout", v) # {}
      PROVE  OwnInv'
  <2>1. \A v \in Things : requests'[v] <= requests[v] /\ contacts'[v] <= contacts[v]
    BY <1>0, <1>3
  <2> QED
    BY <1>0, <1>3, <2>1, OwnMoves
<1>i. Own!Idle \in OwnCall /\ Own!Idle.pc = "idle"
  BY DEF Own!Idle, OwnCall
<1>4. ASSUME NEW c \in Calls, NEW pc \in {"session", "signout"}, NEW v, NEW new \in OwnCall,
             ownCall' = [ownCall EXCEPT ![c] = new]
      PROVE  /\ new # [pc |-> pc, who |-> v]
                  => Waiting(ownCall', pc, v) = Waiting(ownCall, pc, v) \ {c}
             /\ new = [pc |-> pc, who |-> v] => c \in Waiting(ownCall', pc, v)
             /\ ownCall[c] # [pc |-> pc, who |-> v] => c \notin Waiting(ownCall, pc, v)
             /\ \A d \in Calls : d \in Waiting(ownCall, pc, v) /\ d # c
                                   => d \in Waiting(ownCall', pc, v)
  BY <1>0, <1>4 DEF Waiting
<1>5. ASSUME NEW c \in Calls, Own!IssueSession(c) PROVE OwnInv'
  <2>1. PICK u \in Things : u = ownCall[c].who
    BY <1>0, <1>5 DEF Own!IssueSession
  <2>2. /\ ownCall[c].pc = "session" /\ session' = session \cup {u}
        /\ ownCall' = [ownCall EXCEPT ![c] = Own!Idle]
        /\ UNCHANGED <<active, owners, requests, contacts, excused>>
    BY <1>5, <2>1 DEF Own!IssueSession, Own!Answer
  <2>3. ownCall[c] = [pc |-> "session", who |-> u]
    BY <1>0, <2>1, <2>2 DEF OwnCall
  <2>4. \A v \in Things : /\ Waiting(ownCall', "session", v) \subseteq Waiting(ownCall, "session", v)
                          /\ Waiting(ownCall', "signout", v) = Waiting(ownCall, "signout", v)
    BY <1>0, <2>2 DEF Waiting, Own!Idle
  <2>5. c \in Waiting(ownCall, "session", u)
    BY <2>3 DEF Waiting
  <2> QED
    BY <1>0, <1>3, <1>g, <1>i, <2>2, <2>4, <2>5
<1>6. ASSUME NEW c \in Calls, Own!Leave(c) PROVE OwnInv'
  <2>1. PICK u \in Things : u = ownCall[c].who
    BY <1>0, <1>6 DEF Own!Leave
  <2>2. ownCall[c].pc = "leave" /\ UNCHANGED <<owners, session, requests, contacts, excused>>
    BY <1>6, <2>1 DEF Own!Leave
  <2>3. CASE /\ active' = active \ {u}
             /\ ownCall' = [ownCall EXCEPT ![c].pc = "signout"]
    <3> DEFINE new == [ownCall[c] EXCEPT !.pc = "signout"]
    <3>1. /\ new \in OwnCall /\ ownCall' = [ownCall EXCEPT ![c] = new]
          /\ new.pc = "signout" /\ new.who = u
      BY <1>0, <2>1, <2>3 DEF OwnCall
    <3>2. new = [pc |-> "signout", who |-> u]
      BY <3>1 DEF OwnCall
    <3> HIDE DEF new
    <3>3. /\ \A v \in Things :
               /\ Waiting(ownCall', "session", v) \subseteq Waiting(ownCall, "session", v)
               /\ Waiting(ownCall, "signout", v) \subseteq Waiting(ownCall', "signout", v)
          /\ c \in Waiting(ownCall', "signout", u)
      BY <1>0, <2>2, <3>1, <3>2 DEF Waiting
    <3>4. \A v \in Things \ active' :
            v \in session' \/ Waiting(ownCall', "session", v) # {}
              => v \in excused' \/ Waiting(ownCall', "signout", v) # {}
      BY <1>g, <2>2, <2>3, <3>3
    <3>5. active' \subseteq Things /\ session' \subseteq Things /\ excused' \subseteq Things
      BY <1>0, <2>2, <2>3
    <3> QED
      BY <1>3, <2>2, <3>1, <3>4, <3>5
  <2>4. CASE Own!Answer(c) /\ active' = active
    <3>1. ownCall' = [ownCall EXCEPT ![c] = Own!Idle]
      BY <2>4 DEF Own!Answer
    <3>2. \A v \in Things : /\ Waiting(ownCall', "session", v) = Waiting(ownCall, "session", v)
                            /\ Waiting(ownCall', "signout", v) = Waiting(ownCall, "signout", v)
      BY <1>0, <2>2, <3>1 DEF Waiting, Own!Idle
    <3> QED
      BY <1>0, <1>3, <1>g, <1>i, <2>2, <2>4, <3>1, <3>2
  <2> QED
    BY <1>6, <2>1, <2>3, <2>4 DEF Own!Leave
<1>7. ASSUME NEW c \in Calls, Own!SignOut(c) PROVE OwnInv'
  <2>1. PICK u \in Things : u = ownCall[c].who
    BY <1>0, <1>7 DEF Own!SignOut
  <2>2. /\ ownCall[c].pc = "signout" /\ session' = session \ {u}
        /\ excused' = excused \cup {ownCall[d].who :
                        d \in {d \in Calls : ownCall[d] = [pc |-> "session", who |-> u]}}
        /\ ownCall' = [ownCall EXCEPT ![c] = Own!Idle]
        /\ UNCHANGED <<active, owners, requests, contacts>>
    BY <1>7, <2>1 DEF Own!SignOut, Own!Answer
  <2>3. /\ \A v \in Things :
             Waiting(ownCall', "session", v) \subseteq Waiting(ownCall, "session", v)
        /\ \A v \in Things \ {u} :
             Waiting(ownCall', "signout", v) = Waiting(ownCall, "signout", v)
    BY <1>0, <2>1, <2>2 DEF Waiting, Own!Idle
  <2>4. /\ excused \subseteq excused' /\ excused' \subseteq excused \cup {u}
        /\ Waiting(ownCall, "session", u) # {} => u \in excused'
    BY <2>2 DEF Waiting
  <2>5. \A v \in Things \ active' :
          v \in session' \/ Waiting(ownCall', "session", v) # {}
            => v \in excused' \/ Waiting(ownCall', "signout", v) # {}
    BY <1>g, <2>2, <2>3, <2>4
  <2> QED
    BY <1>0, <1>3, <1>i, <2>2, <2>4, <2>5
<1>8. ASSUME NEW c \in Calls, Own!Abort(c) PROVE OwnInv'
  <2>1. PICK u \in Things : u = ownCall[c].who
    BY <1>0, <1>8 DEF Own!Abort
  <2>2. /\ excused' = excused \cup IF ownCall[c].pc = "signout" THEN {u} ELSE {}
        /\ ownCall' = [ownCall EXCEPT ![c] = Own!Idle]
        /\ UNCHANGED <<active, owners, session, requests, contacts>>
    BY <1>8, <2>1 DEF Own!Abort, Own!Answer
  <2>3. /\ \A v \in Things :
             Waiting(ownCall', "session", v) \subseteq Waiting(ownCall, "session", v)
        /\ \A v \in Things : ownCall[c].pc # "signout" \/ v # u
             => Waiting(ownCall', "signout", v) = Waiting(ownCall, "signout", v)
    BY <1>0, <2>1, <2>2 DEF Waiting, Own!Idle
  <2>4. \A v \in Things \ active' :
          v \in session' \/ Waiting(ownCall', "session", v) # {}
            => v \in excused' \/ Waiting(ownCall', "signout", v) # {}
    BY <1>g, <2>2, <2>3
  <2> QED
    BY <1>0, <1>3, <1>i, <2>2, <2>4
\* An insert: the call that counted on it ends.
<1>9. ASSUME NEW c \in Calls, Own!CreateRequest(c) \/ Own!AddContact(c) PROVE OwnInv'
  <2>1. PICK u \in Things : u = ownCall[c].who
    BY <1>0, <1>9 DEF Own!CreateRequest, Own!AddContact
  <2>2. /\ ownCall[c].pc \in {"request", "contact"}
        /\ ownCall' = [ownCall EXCEPT ![c] = Own!Idle]
        /\ UNCHANGED <<active, owners, session, excused>>
        /\ \/ /\ ownCall[c].pc = "request" /\ requests' = [requests EXCEPT ![u] = @ + 1]
              /\ contacts' = contacts
           \/ /\ ownCall[c].pc = "contact" /\ contacts' = [contacts EXCEPT ![u] = @ + 1]
              /\ requests' = requests
    BY <1>9, <2>1 DEF Own!CreateRequest, Own!AddContact, Own!Answer
  <2>3. ownCall[c] = [pc |-> ownCall[c].pc, who |-> u]
    BY <1>0, <2>1 DEF OwnCall
  <2>4. requests' \in [Things -> Nat] /\ contacts' \in [Things -> Nat]
    BY <1>0, <2>2
  <2>5. \A v \in Things :
          /\ \/ requests'[v] <= requests[v]
             \/ /\ requests'[v] = requests[v] + 1
                /\ ownCall[c] = [pc |-> "request", who |-> v] /\ Own!Idle.pc = "idle"
          /\ \/ contacts'[v] <= contacts[v]
             \/ /\ contacts'[v] = contacts[v] + 1
                /\ ownCall[c] = [pc |-> "contact", who |-> v] /\ Own!Idle.pc = "idle"
    BY <1>0, <1>i, <2>2, <2>3
  <2>6. \A v \in Things : /\ Waiting(ownCall', "session", v) = Waiting(ownCall, "session", v)
                          /\ Waiting(ownCall', "signout", v) = Waiting(ownCall, "signout", v)
    BY <1>0, <2>2 DEF Waiting, Own!Idle
  <2>7. \A v \in Things \ active' :
          v \in session' \/ Waiting(ownCall', "session", v) # {}
            => v \in excused' \/ Waiting(ownCall', "signout", v) # {}
    BY <1>g, <2>2, <2>6
  <2> QED
    BY <1>0, <1>i, <2>2, <2>4, <2>5, <2>7, OwnMoves
\* What no call waits for.
<1>10. ASSUME NEW u \in Things, \/ Own!EndSession(u) \/ Own!Appoint(u)
                                \/ Own!CancelRequest(u) \/ Own!RemoveContact(u)
       PROVE  OwnInv'
  <2>1. /\ ownCall' = ownCall /\ active \subseteq active' /\ active' \subseteq Things
        /\ owners' \subseteq Things /\ session' \subseteq session /\ excused' = excused
    BY <1>0, <1>10 DEF Own!EndSession, Own!Appoint, Own!CancelRequest, Own!RemoveContact
  <2>2. /\ requests' \in [Things -> Nat] /\ contacts' \in [Things -> Nat]
        /\ \A v \in Things : requests'[v] <= requests[v] /\ contacts'[v] <= contacts[v]
    <3>1. CASE Own!EndSession(u) \/ Own!Appoint(u)
      BY <1>0, <3>1 DEF Own!EndSession, Own!Appoint
    <3>2. CASE Own!CancelRequest(u)
      BY <1>0, <3>2 DEF Own!CancelRequest
    <3>3. CASE Own!RemoveContact(u)
      BY <1>0, <3>3 DEF Own!RemoveContact
    <3> QED
      BY <1>10, <3>1, <3>2, <3>3
  <2>3. ASSUME NEW v \in Things
        PROVE  /\ requests'[v] \in 0..(1 + Own!Overshoot)
               /\ contacts'[v] \in 0..(MaxContacts + Own!Overshoot)
               /\ requests'[v] + Cardinality(Waiting(ownCall, "request", v)) <= Cardinality(Calls)
               /\ contacts'[v] + Cardinality(Waiting(ownCall, "contact", v))
                    <= MaxContacts + Own!Overshoot
    <3>1. /\ requests[v] \in Nat /\ contacts[v] \in Nat
          /\ requests'[v] \in Nat /\ contacts'[v] \in Nat
          /\ requests'[v] <= requests[v] /\ contacts'[v] <= contacts[v]
      BY <1>0, <2>2
    <3>2. /\ Cardinality(Waiting(ownCall, "request", v)) \in Nat
          /\ Cardinality(Waiting(ownCall, "contact", v)) \in Nat
          /\ Cardinality(Calls) \in Nat /\ MaxContacts \in Nat
          /\ Own!Overshoot = Cardinality(Calls) - 1
      BY WaitingIsFinite, OvershootIs, AccountsAssumption
    <3>3. /\ requests[v] + Cardinality(Waiting(ownCall, "request", v)) <= Cardinality(Calls)
          /\ contacts[v] + Cardinality(Waiting(ownCall, "contact", v))
               <= MaxContacts + Own!Overshoot
      BY DEF OwnInv
    <3> QED
      BY <3>1, <3>2, <3>3
  <2>4. Own!Overshoot' = Own!Overshoot
    BY DEF Own!Overshoot
  <2>5. Own!TypeOK'
    BY <1>0, <2>1, <2>2, <2>3, <2>4 DEF Own!TypeOK, OwnCall
  <2> QED
    BY <1>0, <1>g, <2>1, <2>3, <2>4, <2>5 DEF OwnInv
<1> QED
  <2>1. ASSUME NEW c \in Calls, NEW u \in Things,
               \/ Own!CheckStatus(c, u) \/ Own!CheckLeave(c, u)
               \/ Own!CheckRequest(c, u) \/ Own!CountContacts(c, u)
        PROVE  OwnInv'
    BY <1>2, <2>1 DEF Own!CheckStatus, Own!CheckLeave, Own!CheckRequest, Own!CountContacts
  <2> QED
    BY <1>1, <1>5, <1>6, <1>7, <1>8, <1>9, <1>10, <2>1 DEF Own!Next

\* Whoever has left the organisation has no session in it, unless a sign-in was under way
\* or leaving stopped half-way.
THEOREM LeaversAreSignedOut == AccountsSpec => []LeftIsSignedOut
<1> DEFINE Inv == part = "own" => OwnInv
<1>1. AccountsInit => Inv
  BY OwnInit DEF AccountsInit
<1>2. Inv => LeftIsSignedOut
  <2>1. OwnInv => Own!TypeOK /\ Own!LeftIsSignedOut
    BY DEF OwnInv, Own!LeftIsSignedOut, Own!TypeOK, Waiting
  <2> QED
    BY <2>1 DEF LeftIsSignedOut
<1>3. Inv /\ [AccountsNext]_accountsVars => Inv'
  BY OwnNext, AccountsParts
<1> HIDE DEF Inv
<1> QED
  BY <1>1, <1>2, <1>3, PTL DEF AccountsSpec

-------------------------------------------------------------------------------
(* Imports report what is so *)

\* A call with what is committed: while no row of it has failed, all it has passed are
\* committed or will be; while none has succeeded, there is nothing it has written.
RowsTold(b, rows) ==
    /\ b.at \in {"look", "create", "update"} => b.rows \in Files /\ b.next <= Len(b.rows)
    /\ b.at \in {"create", "update"} => b.rows[b.next] \in Things
    /\ b.at \in {"commit", "finish", "answered"} => b.rows \in Files
    /\ b.at \in {"finish", "answered"} => b.next > Len(b.rows) /\ b.wrote = {}
    /\ b.done \subseteq rows
    /\ b.failed = 0 /\ b.at # "thrown" =>
         /\ ~b.aborted
         /\ \A i \in DOMAIN b.rows : i < b.next => b.rows[i] \in b.done \cup b.wrote
    /\ b.succeeded = 0 => b.done = {} /\ b.wrote = {}

BulkInv ==
    /\ Bulk!TypeOK
    /\ \A c \in Calls : RowsTold(bulkCall[c], table)

LEMMA BulkInit == Bulk!Init => BulkInv
<1> SUFFICES ASSUME Bulk!Init PROVE BulkInv
  OBVIOUS
<1>1. Bulk!Idle \in Bulk!Call
  BY DEF Bulk!Idle, Bulk!Call, Bulk!Operations, Bulk!Modes
<1>2. RowsTold(Bulk!Idle, table)
  BY DEF RowsTold, Bulk!Idle
<1>3. table \subseteq Things /\ bulkCall \in [Calls -> Bulk!Call]
      /\ \A c \in Calls : bulkCall[c] = Bulk!Idle
  BY <1>1 DEF Bulk!Init
<1> QED
  BY <1>2, <1>3 DEF BulkInv, Bulk!TypeOK

\* One call moves; what is committed stays.
LEMMA BulkMoves ==
    ASSUME BulkInv, NEW c \in Calls, NEW new \in Bulk!Call,
           bulkCall' = [bulkCall EXCEPT ![c] = new],
           table \subseteq table', table' \subseteq Things, RowsTold(new, table')
    PROVE  BulkInv'
<1>1. /\ bulkCall \in [Calls -> Bulk!Call]
      /\ \A d \in Calls : RowsTold(bulkCall[d], table)
  BY DEF BulkInv, Bulk!TypeOK
<1>2. \A d \in Calls : RowsTold(bulkCall[d], table')
  BY <1>1 DEF RowsTold
<1>3. /\ bulkCall' \in [Calls -> Bulk!Call] /\ bulkCall'[c] = new
      /\ \A d \in Calls \ {c} : bulkCall'[d] = bulkCall[d]
  BY <1>1
<1>4. \A d \in Calls : RowsTold(bulkCall'[d], table')
  BY <1>2, <1>3
<1> QED
  BY <1>3, <1>4 DEF BulkInv, Bulk!TypeOK

\* A file has rows, and what Following says is about the row at hand.
LEMMA RowsOfFile ==
    ASSUME NEW f \in Files
    PROVE  /\ f \in Seq(Things \cup {Never}) /\ Len(f) \in Nat /\ DOMAIN f = 1..Len(f)
           /\ \A i \in 1..Len(f) : f[i] \in Things \cup {Never}
BY AccountsAssumption

LEMMA RowFollows ==
    ASSUME BulkInv, NEW c \in Calls, bulkCall[c].rows \in Files,
           bulkCall[c].next <= Len(bulkCall[c].rows)
    PROVE  /\ Bulk!Following(c).at \in {"look", "commit"}
           /\ Bulk!Following(c).next = bulkCall[c].next + 1
           /\ bulkCall[c].next + 1 \in Nat \ {0}
           /\ Bulk!Following(c).at = "look" => bulkCall[c].next + 1 <= Len(bulkCall[c].rows)
<1>1. bulkCall[c].next \in Nat \ {0} /\ Len(bulkCall[c].rows) \in Nat
  BY RowsOfFile DEF BulkInv, Bulk!TypeOK, Bulk!Call
<1> QED
  BY <1>1 DEF Bulk!Following

\* The row at hand is counted as a success.
LEMMA RowSucceeds ==
    ASSUME BulkInv, NEW c \in Calls, bulkCall[c].rows \in Files,
           bulkCall[c].next <= Len(bulkCall[c].rows), bulkCall[c].at # "thrown",
           NEW wrote \in SUBSET Things, NEW done \in SUBSET table,
           Bulk!Row(c) \in wrote \cup done \cup bulkCall[c].wrote,
           Bulk!Succeed(c, wrote, done), table' = table
    PROVE  BulkInv'
<1> DEFINE b == bulkCall[c]
<1>1. PICK at \in {"look", "commit"}, n \in Nat \ {0} :
        /\ at = Bulk!Following(c).at /\ n = Bulk!Following(c).next /\ n = b.next + 1
        /\ at = "look" => n <= Len(b.rows)
  BY RowFollows
<1>2. b \in Bulk!Call /\ RowsTold(b, table) /\ table \subseteq Things
  BY DEF BulkInv, Bulk!TypeOK
<1>3. PICK new :
        new = [b EXCEPT !.at = at, !.next = n, !.succeeded = @ + 1, !.wrote = @ \cup wrote,
                        !.done = @ \cup done]
  OBVIOUS
<1>4. bulkCall' = [bulkCall EXCEPT ![c] = new]
  BY <1>1, <1>3 DEF Bulk!Succeed
<1> HIDE DEF b
<1>5. new = [at |-> at, operation |-> b.operation, mode |-> b.mode, rows |-> b.rows, next |-> n,
             wrote |-> b.wrote \cup wrote, aborted |-> b.aborted, succeeded |-> b.succeeded + 1,
             failed |-> b.failed, log |-> b.log, done |-> b.done \cup done]
  BY <1>2, <1>3 DEF Bulk!Call
<1>6. done \in SUBSET Things
  BY <1>2
<1>7. new \in Bulk!Call
  BY <1>2, <1>5, <1>6 DEF Bulk!Call
<1>8. /\ new.rows \in Files /\ new.rows = b.rows /\ b.rows[b.next] \in new.done \cup new.wrote
      /\ DOMAIN b.rows = 1..Len(b.rows) /\ b.next \in Nat /\ b.succeeded \in Nat
  BY <1>2, <1>5, RowsOfFile DEF b, Bulk!Row, Bulk!Call
<1>9. new.failed = 0 => /\ ~new.aborted
                        /\ \A i \in DOMAIN new.rows :
                             i < new.next => new.rows[i] \in new.done \cup new.wrote
  <2> SUFFICES ASSUME new.failed = 0
               PROVE  /\ ~new.aborted
                      /\ \A i \in DOMAIN new.rows :
                           i < new.next => new.rows[i] \in new.done \cup new.wrote
    OBVIOUS
  <2>1. /\ ~b.aborted
        /\ \A i \in DOMAIN b.rows : i < b.next => b.rows[i] \in b.done \cup b.wrote
    BY <1>2, <1>5 DEF RowsTold, b
  <2>2. ASSUME NEW i \in 1..Len(b.rows), i < b.next + 1
        PROVE  i < b.next \/ i = b.next
    BY <1>8, <2>2
  <2> QED
    BY <1>1, <1>5, <1>8, <2>1, <2>2
<1>10. RowsTold(new, table)
  BY <1>1, <1>2, <1>5, <1>8, <1>9 DEF RowsTold
<1> QED
  BY <1>2, <1>4, <1>7, <1>10, BulkMoves

\* Or as a failure.
LEMMA RowFails ==
    ASSUME BulkInv, NEW c \in Calls, bulkCall[c].rows \in Files,
           bulkCall[c].next <= Len(bulkCall[c].rows), NEW aborts \in BOOLEAN,
           Bulk!FailRow(c, aborts), table' = table
    PROVE  BulkInv'
<1> DEFINE b == bulkCall[c]
<1>1. PICK at \in {"look", "commit"}, n \in Nat \ {0} :
        /\ at = Bulk!Following(c).at /\ n = Bulk!Following(c).next /\ n = b.next + 1
        /\ at = "look" => n <= Len(b.rows)
  BY RowFollows
<1>2. b \in Bulk!Call /\ RowsTold(b, table) /\ table \subseteq Things
  BY DEF BulkInv, Bulk!TypeOK
<1>3. PICK new :
        new = [b EXCEPT !.at = at, !.next = n, !.failed = @ + 1, !.aborted = @ \/ aborts]
  OBVIOUS
<1>4. bulkCall' = [bulkCall EXCEPT ![c] = new]
  BY <1>1, <1>3 DEF Bulk!FailRow
<1>r. b.rows \in Files
  OBVIOUS
<1> HIDE DEF b
<1>5. b.aborted \in BOOLEAN
  BY <1>2 DEF Bulk!Call
<1>6. PICK aborted \in BOOLEAN : aborted = (b.aborted \/ aborts)
  BY <1>5
<1>7. new = [at |-> at, operation |-> b.operation, mode |-> b.mode, rows |-> b.rows, next |-> n,
             wrote |-> b.wrote, aborted |-> aborted, succeeded |-> b.succeeded,
             failed |-> b.failed + 1, log |-> b.log, done |-> b.done]
  BY <1>2, <1>3, <1>6 DEF Bulk!Call
<1>8. new \in Bulk!Call
  BY <1>2, <1>7 DEF Bulk!Call
<1>9. b.failed \in Nat
  BY <1>2 DEF Bulk!Call
<1>10. RowsTold(new, table)
  BY <1>1, <1>2, <1>r, <1>7, <1>9 DEF RowsTold
<1> QED
  BY <1>2, <1>4, <1>8, <1>10, BulkMoves

LEMMA BulkNext == BulkInv /\ [Bulk!Next]_bulk => BulkInv'
<1> SUFFICES ASSUME BulkInv, [Bulk!Next]_bulk PROVE BulkInv'
  OBVIOUS
<1>0. /\ table \subseteq Things /\ bulkCall \in [Calls -> Bulk!Call]
      /\ \A c \in Calls : RowsTold(bulkCall[c], table)
  BY DEF BulkInv, Bulk!TypeOK
<1>r. ASSUME NEW c \in Calls, bulkCall[c].at \in {"look", "create", "update"}
      PROVE  /\ bulkCall[c].rows \in Files /\ bulkCall[c].next <= Len(bulkCall[c].rows)
             /\ bulkCall[c].next \in DOMAIN bulkCall[c].rows
             /\ Bulk!Row(c) \in Things \cup {Never}
             /\ bulkCall[c].at # "look" => Bulk!Row(c) \in Things
  BY <1>0, <1>r, RowsOfFile DEF RowsTold, Bulk!Call, Bulk!Row
<1>1. ASSUME NEW c \in Calls, Bulk!Begin(c) PROVE BulkInv'
  <2>1. PICK operation \in Bulk!Operations, mode \in Bulk!Modes, rows \in Files :
          \E log \in {"IMPORT_STARTED", "none"} :
            bulkCall' = [bulkCall EXCEPT ![c] = [Bulk!Idle EXCEPT
               !.at = "look", !.operation = operation, !.mode = mode, !.rows = rows,
               !.log = log]]
    <3>1. PICK operation \in Bulk!Operations, mode \in Bulk!Modes, rows \in Files :
            bulkCall' = [bulkCall EXCEPT ![c] = [Bulk!Idle EXCEPT
               !.at = "look", !.operation = operation, !.mode = mode, !.rows = rows,
               !.log = IF operation = "import" THEN "IMPORT_STARTED" ELSE "none"]]
      BY <1>1 DEF Bulk!Begin
    <3>2. CASE operation = "import"
      BY <3>1, <3>2
    <3>3. CASE operation # "import"
      BY <3>1, <3>3
    <3> QED
      BY <3>2, <3>3
  <2>2. PICK log \in {"IMPORT_STARTED", "none"} :
          bulkCall' = [bulkCall EXCEPT ![c] = [Bulk!Idle EXCEPT
             !.at = "look", !.operation = operation, !.mode = mode, !.rows = rows, !.log = log]]
    BY <2>1
  <2>3. PICK i : i = Bulk!Idle /\ i \in Bulk!Call
    <3>1. Bulk!Idle \in Bulk!Call
      BY DEF Bulk!Idle, Bulk!Call, Bulk!Operations, Bulk!Modes
    <3> QED
      BY <3>1
  <2>4. i.next = 1 /\ i.wrote = {} /\ i.succeeded = 0 /\ i.failed = 0 /\ i.done = {} /\ ~i.aborted
    BY <2>3 DEF Bulk!Idle
  <2>5. PICK new :
          new = [i EXCEPT !.at = "look", !.operation = operation, !.mode = mode,
                          !.rows = rows, !.log = log]
    OBVIOUS
  <2>m. bulkCall' = [bulkCall EXCEPT ![c] = new]
    BY <2>2, <2>3, <2>5
  <2>n. new = [at |-> "look", operation |-> operation, mode |-> mode, rows |-> rows,
               next |-> i.next, wrote |-> i.wrote, aborted |-> i.aborted,
               succeeded |-> i.succeeded, failed |-> i.failed, log |-> log, done |-> i.done]
    BY <2>3, <2>5 DEF Bulk!Call
  <2>t. new \in Bulk!Call
    BY <2>3, <2>n DEF Bulk!Call
  <2>6. Len(rows) \in Nat /\ DOMAIN rows = 1..Len(rows) /\ 1 <= Len(rows)
    BY AccountsAssumption
  <2>7. RowsTold(new, table)
    BY <2>4, <2>n, <2>6 DEF RowsTold
  <2>8. table' = table
    BY <1>1 DEF Bulk!Begin
  <2> QED
    BY <1>0, <2>m, <2>t, <2>7, <2>8, BulkMoves
<1>2. ASSUME NEW c \in Calls, Bulk!Look(c) PROVE BulkInv'
  <2>1. bulkCall[c].at = "look" /\ table' = table
    BY <1>2 DEF Bulk!Look
  <2>2. CASE Bulk!FailRow(c, FALSE)
    BY <1>r, <2>1, <2>2, RowFails
  <2>3. ASSUME NEW at \in {"create", "update"}, bulkCall' = [bulkCall EXCEPT ![c].at = at],
               Bulk!Row(c) # Never
        PROVE  BulkInv'
    <3>1. PICK b : b = bulkCall[c] /\ b \in Bulk!Call /\ RowsTold(b, table)
      BY <1>0
    <3>2. PICK new : new = [b EXCEPT !.at = at]
      OBVIOUS
    <3>3. bulkCall' = [bulkCall EXCEPT ![c] = new]
      BY <2>3, <3>1, <3>2
    <3>4. new \in Bulk!Call
      BY <3>1, <3>2 DEF Bulk!Call
    <3>5. /\ b.at = "look" /\ b.rows[b.next] \in Things /\ b.rows \in Files
          /\ b.next <= Len(b.rows)
      BY <1>r, <2>1, <2>3, <3>1 DEF Bulk!Row
    <3>6. /\ new.at = at /\ new.rows = b.rows /\ new.next = b.next /\ new.wrote = b.wrote
          /\ new.done = b.done /\ new.failed = b.failed /\ new.aborted = b.aborted
          /\ new.succeeded = b.succeeded
      BY <3>1, <3>2 DEF Bulk!Call
    <3> HIDE <3>2
    <3>7. RowsTold(new, table)
      BY <3>1, <3>5, <3>6 DEF RowsTold
    <3> QED
      BY <1>0, <2>1, <3>3, <3>4, <3>7, BulkMoves
  <2>4. CASE /\ Bulk!Seen(c, Bulk!Row(c)) /\ Bulk!Succeed(c, {}, {Bulk!Row(c)} \cap table)
    <3>1. Bulk!Row(c) \in {} \cup ({Bulk!Row(c)} \cap table) \cup bulkCall[c].wrote
      BY <2>4 DEF Bulk!Seen
    <3>2. PICK wrote \in SUBSET Things, done \in SUBSET table :
            wrote = {} /\ done = {Bulk!Row(c)} \cap table
      OBVIOUS
    <3>3. Bulk!Succeed(c, wrote, done)
      BY <2>4, <3>2
    <3> QED
      BY <1>r, <2>1, <3>1, <3>2, <3>3, RowSucceeds
  <2> QED
    BY <1>2, <2>2, <2>3, <2>4 DEF Bulk!Look
<1>3. ASSUME NEW c \in Calls, Bulk!Create(c) PROVE BulkInv'
  <2>1. bulkCall[c].at = "create" /\ table' = table
    BY <1>3 DEF Bulk!Create
  <2>2. Bulk!FailRow(c, TRUE) \/ Bulk!Succeed(c, {Bulk!Row(c)}, {})
    BY <1>3 DEF Bulk!Create
  <2>3. PICK wrote \in SUBSET Things, done \in SUBSET table :
          wrote = {Bulk!Row(c)} /\ done = {}
    BY <1>r, <2>1
  <2>4. CASE Bulk!FailRow(c, TRUE)
    BY <1>r, <2>1, <2>4, RowFails
  <2>5. CASE Bulk!Succeed(c, wrote, done)
    BY <1>r, <2>1, <2>3, <2>5, RowSucceeds
  <2> QED
    BY <2>2, <2>3, <2>4, <2>5
<1>4. ASSUME NEW c \in Calls, Bulk!Update(c) PROVE BulkInv'
  <2>1. /\ bulkCall[c].at = "update" /\ table' = table
        /\ Bulk!Succeed(c, {Bulk!Row(c)}, {})
    BY <1>4 DEF Bulk!Update
  <2>2. PICK wrote \in SUBSET Things, done \in SUBSET table :
          wrote = {Bulk!Row(c)} /\ done = {}
    BY <1>r, <2>1
  <2>3. Bulk!Succeed(c, wrote, done)
    BY <2>1, <2>2
  <2> QED
    BY <1>r, <2>1, <2>2, <2>3, RowSucceeds
<1>5. ASSUME NEW c \in Calls, Bulk!BreakDeadlock(c) \/ Bulk!Violate(c) PROVE BulkInv'
  <2>1. /\ bulkCall[c].at \in {"create", "update"} /\ table' = table
        /\ Bulk!FailRow(c, TRUE)
    BY <1>5 DEF Bulk!BreakDeadlock, Bulk!Violate, Bulk!Waits
  <2> QED
    BY <1>r, <2>1, RowFails
<1>6. ASSUME NEW c \in Calls, Bulk!Commit(c) PROVE BulkInv'
  <2>1. PICK b : b = bulkCall[c] /\ b \in Bulk!Call /\ RowsTold(b, table)
    BY <1>0
  <2>2. PICK kept : kept = IF b.aborted THEN {} ELSE b.wrote
    OBVIOUS
  <2>3. PICK at \in {"finish", "look"} : at = IF b.next > Len(b.rows) THEN "finish" ELSE "look"
    OBVIOUS
  <2>4. PICK new : new = [b EXCEPT !.at = at, !.wrote = {}, !.aborted = FALSE, !.done = @ \cup kept]
    OBVIOUS
  <2>5. bulkCall' = [bulkCall EXCEPT ![c] = new] /\ table' = table \cup kept /\ b.at = "commit"
    BY <1>6, <2>1, <2>2, <2>3, <2>4 DEF Bulk!Commit
  <2>6. kept \subseteq b.wrote /\ kept \subseteq Things /\ b.rows \in Files
    BY <2>1, <2>2, <2>5 DEF Bulk!Call, RowsTold
  <2>7. new = [at |-> at, operation |-> b.operation, mode |-> b.mode, rows |-> b.rows,
               next |-> b.next, wrote |-> {}, aborted |-> FALSE, succeeded |-> b.succeeded,
               failed |-> b.failed, log |-> b.log, done |-> b.done \cup kept]
    BY <2>1, <2>4 DEF Bulk!Call
  <2>8. new \in Bulk!Call
    BY <2>1, <2>6, <2>7 DEF Bulk!Call
  <2>9. /\ Len(b.rows) \in Nat /\ b.next \in Nat
        /\ at = "finish" => b.next > Len(b.rows)
        /\ at = "look" => b.next <= Len(b.rows)
    BY <2>1, <2>3, <2>6, RowsOfFile DEF Bulk!Call
  <2>10. b.failed = 0 => kept = b.wrote
    BY <2>1, <2>2, <2>5 DEF RowsTold
  <2>11. RowsTold(new, table \cup kept)
    BY <2>1, <2>5, <2>6, <2>7, <2>9, <2>10 DEF RowsTold
  <2> QED
    BY <1>0, <2>5, <2>6, <2>8, <2>11, BulkMoves
<1>7. ASSUME NEW c \in Calls, Bulk!Finish(c) PROVE BulkInv'
  <2>1. PICK b : b = bulkCall[c] /\ b \in Bulk!Call /\ RowsTold(b, table)
    BY <1>0
  <2>2. PICK log : log = IF b.log = "none" THEN b.log
                         ELSE IF b.failed = 0 THEN "COMPLETED"
                         ELSE IF b.succeeded > 0 THEN "PARTIAL" ELSE "FAILED"
    OBVIOUS
  <2>3. PICK new : new = [b EXCEPT !.at = "answered", !.log = log]
    OBVIOUS
  <2>4. bulkCall' = [bulkCall EXCEPT ![c] = new] /\ table' = table /\ b.at = "finish"
    BY <1>7, <2>1, <2>2, <2>3 DEF Bulk!Finish
  <2>5. log \in {"none", "IMPORT_STARTED", "COMPLETED", "PARTIAL", "FAILED"}
    BY <2>1, <2>2 DEF Bulk!Call
  <2>6. new = [at |-> "answered", operation |-> b.operation, mode |-> b.mode, rows |-> b.rows,
               next |-> b.next, wrote |-> b.wrote, aborted |-> b.aborted,
               succeeded |-> b.succeeded, failed |-> b.failed, log |-> log, done |-> b.done]
    BY <2>1, <2>3 DEF Bulk!Call
  <2>7. new \in Bulk!Call
    BY <2>1, <2>5, <2>6 DEF Bulk!Call
  <2>8. RowsTold(new, table)
    BY <2>1, <2>4, <2>6 DEF RowsTold
  <2> QED
    BY <1>0, <2>4, <2>7, <2>8, BulkMoves
<1>8. ASSUME NEW c \in Calls, Bulk!Throw(c) PROVE BulkInv'
  <2>1. PICK b : b = bulkCall[c] /\ b \in Bulk!Call /\ RowsTold(b, table)
    BY <1>0
  <2>2. PICK new : new = [b EXCEPT !.at = "thrown", !.wrote = {}, !.aborted = FALSE]
    OBVIOUS
  <2>3. bulkCall' = [bulkCall EXCEPT ![c] = new] /\ table' = table
    BY <1>8, <2>1, <2>2 DEF Bulk!Throw
  <2>4. new = [at |-> "thrown", operation |-> b.operation, mode |-> b.mode, rows |-> b.rows,
               next |-> b.next, wrote |-> {}, aborted |-> FALSE, succeeded |-> b.succeeded,
               failed |-> b.failed, log |-> b.log, done |-> b.done]
    BY <2>1, <2>2 DEF Bulk!Call
  <2>5. new \in Bulk!Call
    BY <2>1, <2>4 DEF Bulk!Call
  <2>6. RowsTold(new, table)
    BY <2>1, <2>4 DEF RowsTold
  <2> QED
    BY <1>0, <2>3, <2>5, <2>6, BulkMoves
<1>9. CASE UNCHANGED bulk
  BY <1>0, <1>9 DEF bulk, BulkInv, Bulk!TypeOK
<1> QED
  BY <1>1, <1>2, <1>3, <1>4, <1>5, <1>6, <1>7, <1>8, <1>9 DEF Bulk!Next

\* Of an import that is answered, the count of failures is 0 only if every row of the file
\* is committed, and the count of successes only if none is, whatever other calls do to
\* the rows meanwhile (processImport, the bulk operations).
THEOREM ImportsTellTheTruth == AccountsSpec => []OutcomeTrue
<1> DEFINE Inv == part = "bulk" => BulkInv
<1>1. AccountsInit => Inv
  BY BulkInit DEF AccountsInit
<1>2. Inv /\ [AccountsNext]_accountsVars => Inv'
  BY BulkNext, AccountsParts
<1>3. Inv => OutcomeTrue
  <2> SUFFICES ASSUME BulkInv PROVE Bulk!TypeOK /\ Bulk!OutcomeTrue
    BY DEF OutcomeTrue
  <2>1. SUFFICES ASSUME NEW c \in Calls, bulkCall[c].at = "answered"
                 PROVE  /\ bulkCall[c].failed = 0 =>
                             \A i \in DOMAIN bulkCall[c].rows :
                               bulkCall[c].rows[i] \in bulkCall[c].done \cap table
                        /\ bulkCall[c].succeeded = 0 => bulkCall[c].done = {}
    BY DEF BulkInv, Bulk!OutcomeTrue
  <2>2. PICK b : b = bulkCall[c] /\ b \in Bulk!Call /\ RowsTold(b, table)
    BY DEF BulkInv, Bulk!TypeOK
  <2>3. b.rows \in Files /\ b.next > Len(b.rows) /\ b.wrote = {}
    BY <2>1, <2>2 DEF RowsTold
  <2>4. ASSUME NEW i \in DOMAIN b.rows PROVE i < b.next
    BY <2>2, <2>3, RowsOfFile DEF Bulk!Call
  <2> QED
    BY <2>1, <2>2, <2>3, <2>4 DEF RowsTold
<1> HIDE DEF Inv
<1> QED
  BY <1>1, <1>2, <1>3, PTL DEF AccountsSpec

-------------------------------------------------------------------------------
(* Password guessing is bounded *)

Trying(turns, pcs) == {s \in Calls : turns[s].pc \in pcs}

\* Each sign-in that read the user row adds one to each counter at most, and the
\* count of the origin is read and written back by calls that overtake one another.
LockoutInv ==
    /\ Lockout!TypeOK
    /\ wrong + Cardinality(Trying(try, {"compare", "fail"})) <= lockTries
    /\ \E x \in Nat :
         /\ x + Cardinality(Trying(try, {"compare", "fail", "count"})) <= lockTries
         /\ origin.n <= x /\ \A s \in Calls : try[s].n <= x
    /\ Lockout!GuessesBounded

Turn == [pc : {"idle", "read", "compare", "fail", "count", "record", "clear"},
         fails : 0..(Max - 1), until : 0..(LockClock + Lock), n : 0..MaxTries]

LEMMA LockoutInit == Lockout!Init => LockoutInv
<1> SUFFICES ASSUME Lockout!Init PROVE LockoutInv
  OBVIOUS
<1>0. /\ {Max, Lock, Free, Base, Cap, Quiet, MaxTries, LockClock} \subseteq Nat \ {0}
  BY AccountsAssumption DEF Lockout!Assumptions
<1>1. \A pcs \in SUBSET {"compare", "fail", "count"} : Trying(try, pcs) = {}
  BY DEF Lockout!Init, Lockout!Idle, Trying
<1>2. /\ Cardinality(Trying(try, {"compare", "fail"})) = 0
      /\ Cardinality(Trying(try, {"compare", "fail", "count"})) = 0
  BY <1>1, FS_EmptySet
<1>3. /\ user = [fails |-> 0, until |-> 0] /\ origin = [n |-> 0, until |-> 0, seen |-> 0]
      /\ try = [s \in Calls |-> [pc |-> "idle", fails |-> 0, until |-> 0, n |-> 0]]
      /\ lockTries = 0 /\ now = 1 /\ wrong = 0 /\ lost = FALSE
  BY DEF Lockout!Init, Lockout!Unlocked, Lockout!Forgotten, Lockout!Idle
<1>4. Lockout!TypeOK
  <2>1. /\ 0 \in 0..(Max - 1) /\ 0 \in 0..(LockClock + Lock) /\ 0 \in 0..MaxTries
        /\ 0 \in 0..LockClock /\ 1 \in 1..LockClock
    BY <1>0
  <2>2. try \in [Calls -> Turn]
    BY <1>3, <2>1 DEF Turn
  <2>3. lost \in BOOLEAN
    BY <1>3
  <2> QED
    BY <1>3, <2>1, <2>2, <2>3 DEF Lockout!TypeOK, Turn
<1>5. Lockout!GuessesBounded
  BY <1>0, <1>3 DEF Lockout!GuessesBounded
<1> QED
  BY <1>2, <1>3, <1>4, <1>5 DEF LockoutInv

\* A step of one sign-in: what it adds to a counter it no longer owes.
LockoutStep(old, new) ==
    /\ user' \in [fails : 0..(Max - 1), until : 0..(LockClock + Lock)]
    /\ origin' \in [n : 0..MaxTries, until : Int, seen : 0..LockClock]
    /\ lost' \in BOOLEAN /\ now' = now /\ wrong' \in Nat
    /\ \/ lockTries' = lockTries
       \/ lockTries' = lockTries + 1 /\ lockTries' <= MaxTries
    /\ \/ wrong' <= wrong
       \/ wrong' = wrong + 1 /\ old.pc \in {"compare", "fail"} /\ new.pc = "count"
    /\ new.pc \in {"compare", "fail"} =>
         old.pc \in {"compare", "fail"} \/ lockTries' = lockTries + 1
    /\ new.pc = "count" => old.pc \in {"compare", "fail"}
    /\ \/ new.n = 0 \/ new.n = old.n
       \/ new.n <= origin.n + 1 /\ old.pc = "count" /\ new.pc = "record"
    /\ origin'.n = origin.n \/ origin'.n = old.n

LEMMA LockoutMoves ==
    ASSUME LockoutInv, NEW c \in Calls, NEW new \in Turn, try' = [try EXCEPT ![c] = new],
           LockoutStep(try[c], new), Lockout!GuessesBounded'
    PROVE  LockoutInv'
<1>0. /\ try \in [Calls -> Turn] /\ lockTries \in 0..MaxTries /\ wrong \in Nat /\ MaxTries \in Nat
      /\ origin.n \in Nat /\ now \in 1..LockClock /\ origin'.n \in Nat
  BY AccountsAssumption DEF LockoutInv, Lockout!TypeOK, Turn, Lockout!Assumptions, LockoutStep
<1>c. try' \in [Calls -> Turn] /\ try'[c] = new /\ \A d \in Calls \ {c} : try'[d] = try[d]
  BY <1>0
<1>1. ASSUME NEW pcs
      PROVE  /\ Cardinality(Trying(try, pcs)) \in Nat /\ Cardinality(Trying(try', pcs)) \in Nat
             /\ Cardinality(Trying(try', pcs)) <= Cardinality(Trying(try, pcs)) + 1
             /\ new.pc \notin pcs \/ try[c].pc \in pcs
                  => Cardinality(Trying(try', pcs)) <= Cardinality(Trying(try, pcs))
             /\ new.pc \notin pcs /\ try[c].pc \in pcs
                  => Cardinality(Trying(try', pcs)) = Cardinality(Trying(try, pcs)) - 1
  <2>1. PICK W \in SUBSET Calls, W1 \in SUBSET Calls :
          W = Trying(try, pcs) /\ W1 = Trying(try', pcs)
    BY DEF Trying
  <2>2. /\ \A d \in Calls \ {c} : d \in W1 <=> d \in W
        /\ c \in W1 <=> new.pc \in pcs
        /\ c \in W <=> try[c].pc \in pcs
    BY <1>c, <2>1 DEF Trying
  <2>3. /\ Cardinality(W) \in Nat /\ Cardinality(W1) \in Nat
        /\ Cardinality(W1) <= Cardinality(W) + 1
        /\ c \notin W1 => Cardinality(W1) <= Cardinality(W)
        /\ c \in W /\ c \in W1 => Cardinality(W1) = Cardinality(W)
        /\ c \in W /\ c \notin W1 => Cardinality(W1) = Cardinality(W) - 1
    BY <2>2, OneCallApart
  <2>4. c \notin W1 \/ c \in W => Cardinality(W1) <= Cardinality(W)
    BY <2>3
  <2> QED
    BY <2>1, <2>2, <2>3, <2>4
<1>2. wrong' + Cardinality(Trying(try', {"compare", "fail"})) <= lockTries'
  <2>1. wrong + Cardinality(Trying(try, {"compare", "fail"})) <= lockTries
    BY DEF LockoutInv
  <2>2. PICK k \in Nat, k1 \in Nat :
          /\ k = Cardinality(Trying(try, {"compare", "fail"}))
          /\ k1 = Cardinality(Trying(try', {"compare", "fail"}))
          /\ k1 <= k + 1
          /\ new.pc \notin {"compare", "fail"} \/ try[c].pc \in {"compare", "fail"} => k1 <= k
          /\ new.pc \notin {"compare", "fail"} /\ try[c].pc \in {"compare", "fail"} => k1 = k - 1
    BY <1>1
  <2>3. wrong' + k1 <= lockTries'
    BY <1>0, <2>1, <2>2 DEF LockoutStep
  <2> QED
    BY <2>2, <2>3
<1>3. \E x \in Nat :
        /\ x + Cardinality(Trying(try', {"compare", "fail", "count"})) <= lockTries'
        /\ origin'.n <= x /\ \A s \in Calls : try'[s].n <= x
  <2>1. PICK x \in Nat :
          /\ x + Cardinality(Trying(try, {"compare", "fail", "count"})) <= lockTries
          /\ origin.n <= x /\ \A s \in Calls : try[s].n <= x
    BY DEF LockoutInv
  <2>2. PICK k \in Nat, k1 \in Nat :
          /\ k = Cardinality(Trying(try, {"compare", "fail", "count"}))
          /\ k1 = Cardinality(Trying(try', {"compare", "fail", "count"}))
          /\ k1 <= k + 1
          /\ (\/ new.pc \notin {"compare", "fail", "count"}
              \/ try[c].pc \in {"compare", "fail", "count"})
               => k1 <= k
          /\ (/\ new.pc \notin {"compare", "fail", "count"}
              /\ try[c].pc \in {"compare", "fail", "count"})
               => k1 = k - 1
    BY <1>1
  <2>3. \A s \in Calls : try[s].n \in Nat /\ try'[s].n \in Nat
    BY <1>0, <1>c DEF Turn
  <2>4. CASE new.n = 0 \/ new.n = try[c].n
    <3>1. x + k1 <= lockTries' /\ origin'.n <= x
      BY <1>0, <2>1, <2>2, <2>3 DEF LockoutStep
    <3>2. ASSUME NEW s \in Calls PROVE try'[s].n <= x
      BY <1>c, <2>1, <2>3, <2>4
    <3> QED
      BY <2>2, <3>1, <3>2
  <2>5. CASE new.n <= origin.n + 1 /\ try[c].pc = "count" /\ new.pc = "record"
    <3>1. x + 1 + k1 <= lockTries' /\ origin'.n <= x + 1
      BY <1>0, <2>1, <2>2, <2>3, <2>5 DEF LockoutStep
    <3>2. ASSUME NEW s \in Calls PROVE try'[s].n <= x + 1
      BY <1>0, <1>c, <2>1, <2>3, <2>5
    <3> QED
      BY <2>2, <3>1, <3>2
  <2> QED
    BY <2>4, <2>5 DEF LockoutStep
<1>4. wrong' <= MaxTries /\ lockTries' \in 0..MaxTries
  <2>1. Cardinality(Trying(try', {"compare", "fail"})) \in Nat
    BY <1>1
  <2> QED
    BY <1>0, <1>2, <2>1 DEF LockoutStep
<1>5. Lockout!TypeOK'
  BY <1>0, <1>c, <1>4 DEF Lockout!TypeOK, Turn, LockoutStep
<1> QED
  BY <1>2, <1>3, <1>5 DEF LockoutInv

\* "A lockout cannot become permanent through arithmetic" (recordFailure).
LEMMA BackoffIsBounded ==
    ASSUME NEW n \in Nat
    PROVE  Lockout!Backoff(n) \in Int /\ Lockout!Backoff(n) <= Cap
<1>0. {Free, Base, Cap} \subseteq Nat \ {0}
  BY AccountsAssumption DEF Lockout!Assumptions
<1>1. CASE n <= Free
  BY <1>0, <1>1 DEF Lockout!Backoff
<1>2. CASE ~(n <= Free)
  <2>1. 2^(n - Free - 1) \in Int
    BY <1>0, <1>2, SMT
  <2>2. PICK d \in Int : d = Base * 2^(n - Free - 1)
    BY <1>0, <2>1
  <2>3. Lockout!Backoff(n) = IF d < Cap THEN d ELSE Cap
    BY <1>2, <2>2 DEF Lockout!Backoff
  <2> QED
    BY <1>0, <2>2, <2>3
<1> QED
  BY <1>1, <1>2

LEMMA LockoutNext == LockoutInv /\ [Lockout!Next]_lockout => LockoutInv'
<1> SUFFICES ASSUME LockoutInv, [Lockout!Next]_lockout PROVE LockoutInv'
  OBVIOUS
<1>0. /\ Max \in Nat \ {0} /\ Lock \in Nat \ {0} /\ MaxTries \in Nat \ {0} /\ LockClock \in Nat \ {0}
      /\ Cap \in Nat \ {0}
  BY AccountsAssumption DEF Lockout!Assumptions
<1>t. /\ user \in [fails : 0..(Max - 1), until : 0..(LockClock + Lock)]
      /\ origin \in [n : 0..MaxTries, until : Int, seen : 0..LockClock]
      /\ try \in [Calls -> Turn]
      /\ lockTries \in 0..MaxTries /\ now \in 1..LockClock
      /\ wrong \in 0..MaxTries /\ lost \in BOOLEAN
  BY DEF LockoutInv, Lockout!TypeOK, Turn
<1>g. /\ ~lost => wrong = user.fails /\ wrong < Max
      /\ origin.until <= now + Cap
  BY DEF LockoutInv, Lockout!GuessesBounded
<1>i. PICK idle \in Turn : idle = Lockout!Idle /\ idle.pc = "idle" /\ idle.n = 0
  <2>1. Lockout!Idle \in Turn
    BY <1>0 DEF Lockout!Idle, Turn
  <2> QED
    BY <2>1 DEF Lockout!Idle
\* A sign-in that goes on or ends and counts nothing.
<1>m. ASSUME NEW s \in Calls, NEW new \in Turn, try' = [try EXCEPT ![s] = new],
             UNCHANGED <<user, origin, lockTries, now, wrong, lost>>,
             new.pc \in {"compare", "fail"} => try[s].pc \in {"compare", "fail"},
             new.pc # "count", new.n = 0 \/ new.n = try[s].n
      PROVE  LockoutInv'
  <2>1. Lockout!GuessesBounded'
    BY <1>m, <1>g DEF Lockout!GuessesBounded
  <2>2. LockoutStep(try[s], new)
    BY <1>m, <1>t DEF LockoutStep
  <2> QED
    BY <1>m, <2>1, <2>2, LockoutMoves
<1>e. ASSUME NEW s \in Calls, Lockout!Finish(s),
             UNCHANGED <<user, origin, lockTries, now, wrong, lost>>
      PROVE  LockoutInv'
  BY <1>e, <1>i, <1>m DEF Lockout!Finish
<1>j. ASSUME NEW s \in Calls, NEW pc \in {"read", "fail", "clear"}, Lockout!Goto(s, pc),
             pc = "fail" => try[s].pc = "compare",
             UNCHANGED <<user, origin, lockTries, now, wrong, lost>>
      PROVE  LockoutInv'
  <2>1. PICK new : new = [try[s] EXCEPT !.pc = pc]
    OBVIOUS
  <2>2. try' = [try EXCEPT ![s] = new]
    BY <1>j, <2>1 DEF Lockout!Goto
  <2>3. new \in Turn /\ new.pc = pc /\ new.n = try[s].n
    BY <1>t, <2>1 DEF Turn
  <2> QED
    BY <1>j, <1>m, <2>2, <2>3
<1>1. ASSUME NEW s \in Calls, Lockout!AssertNotThrottled(s) PROVE LockoutInv'
  BY <1>1, <1>j DEF Lockout!AssertNotThrottled
<1>2. ASSUME NEW s \in Calls, Lockout!ReadUser(s) PROVE LockoutInv'
  <2>1. /\ lockTries < MaxTries /\ lockTries' = lockTries + 1
        /\ UNCHANGED <<user, origin, now, wrong, lost>>
    BY <1>2 DEF Lockout!ReadUser
  <2>2. Lockout!GuessesBounded'
    BY <2>1, <1>g DEF Lockout!GuessesBounded
  <2>3. CASE user.until > now
    <3>1. try' = [try EXCEPT ![s] = idle]
      BY <1>2, <1>i, <2>3 DEF Lockout!ReadUser
    <3>2. LockoutStep(try[s], idle)
      BY <1>0, <1>t, <1>i, <2>1 DEF LockoutStep
    <3> QED
      BY <2>2, <3>1, <3>2, LockoutMoves
  <2>4. CASE ~(user.until > now)
    <3>1. PICK new : new = [idle EXCEPT !.pc = "compare", !.fails = user.fails, !.until = user.until]
      OBVIOUS
    <3>2. try' = [try EXCEPT ![s] = new]
      BY <1>2, <1>i, <2>4, <3>1 DEF Lockout!ReadUser
    <3>3. new \in Turn /\ new.pc = "compare" /\ new.n = 0
      BY <1>t, <1>i, <3>1 DEF Turn
    <3>4. LockoutStep(try[s], new)
      BY <1>0, <1>t, <2>1, <3>3 DEF LockoutStep
    <3> QED
      BY <2>2, <3>2, <3>3, <3>4, LockoutMoves
  <2> QED
    BY <2>3, <2>4
<1>3. ASSUME NEW s \in Calls, NEW right \in BOOLEAN, Lockout!Compare(s, right) PROVE LockoutInv'
  <2>1. /\ try[s].pc = "compare" /\ UNCHANGED <<user, origin, lockTries, now, wrong, lost>>
        /\ Lockout!Goto(s, "fail") \/ Lockout!Goto(s, "clear") \/ Lockout!Finish(s)
    BY <1>3 DEF Lockout!Compare
  <2> QED
    BY <2>1, <1>e, <1>j
<1>4. ASSUME NEW s \in Calls, Lockout!Refuse(s) PROVE LockoutInv'
  BY <1>4, <1>e DEF Lockout!Refuse
<1>5. ASSUME NEW s \in Calls, Lockout!RegisterFailedAttempt(s) PROVE LockoutInv'
  <2>0. try[s].fails \in 0..(Max - 1) /\ try[s].pc = "fail"
    BY <1>t, <1>5 DEF Turn, Lockout!RegisterFailedAttempt
  <2>1. PICK new : new = [try[s] EXCEPT !.pc = "count"]
    OBVIOUS
  <2>2. /\ try' = [try EXCEPT ![s] = new] /\ UNCHANGED <<origin, lockTries, now>>
    BY <1>5, <2>1 DEF Lockout!RegisterFailedAttempt, Lockout!Goto
  <2>3. new \in Turn /\ new.pc = "count" /\ new.n = try[s].n
    BY <1>t, <2>1 DEF Turn
  <2>4. CASE try[s].fails + 1 >= Max
    <3>1. /\ user' = [fails |-> 0, until |-> now + Lock] /\ wrong' = 0 /\ ~lost' /\ lost' \in BOOLEAN
      BY <1>5, <2>4 DEF Lockout!RegisterFailedAttempt
    <3>2. Lockout!GuessesBounded'
      BY <1>0, <1>g, <2>2, <3>1 DEF Lockout!GuessesBounded
    <3>3. user' \in [fails : 0..(Max - 1), until : 0..(LockClock + Lock)]
      BY <1>0, <1>t, <3>1
    <3>4. wrong' \in Nat /\ wrong' <= wrong
      BY <1>t, <3>1
    <3>5. LockoutStep(try[s], new)
      BY <1>t, <2>0, <2>2, <2>3, <3>1, <3>3, <3>4 DEF LockoutStep
    <3> QED
      BY <2>2, <2>3, <3>2, <3>5, LockoutMoves
  <2>5. CASE ~(try[s].fails + 1 >= Max)
    <3>1. /\ user' = [fails |-> try[s].fails + 1, until |-> user.until] /\ wrong' = wrong + 1
          /\ lost' \in BOOLEAN
          /\ ~lost' => (~lost /\ try[s].fails = user.fails)
      BY <1>5, <2>5 DEF Lockout!RegisterFailedAttempt
    <3>2. /\ user'.fails = try[s].fails + 1 /\ try[s].fails + 1 < Max
      BY <1>0, <2>0, <2>5, <3>1
    <3>6. ~lost' => (wrong' = user'.fails /\ wrong' < Max)
      BY <1>g, <3>1, <3>2
    <3>7. Lockout!GuessesBounded'
      BY <1>g, <2>2, <3>6 DEF Lockout!GuessesBounded
    <3>3. user' \in [fails : 0..(Max - 1), until : 0..(LockClock + Lock)]
      BY <1>0, <1>t, <2>0, <2>5, <3>1
    <3>4. wrong' \in Nat
      BY <1>t, <3>1
    <3>5. LockoutStep(try[s], new)
      BY <1>t, <2>0, <2>2, <2>3, <3>1, <3>3, <3>4 DEF LockoutStep
    <3> QED
      BY <2>2, <2>3, <3>7, <3>5, LockoutMoves
  <2> QED
    BY <2>4, <2>5
\* What clears the failures of the account.
<1>u. ASSUME Lockout!Unlocked = user', wrong' = 0, lost' = FALSE, UNCHANGED <<origin, lockTries, now>>
      PROVE  /\ user' \in [fails : 0..(Max - 1), until : 0..(LockClock + Lock)]
             /\ wrong' \in Nat /\ wrong' <= wrong /\ lost' \in BOOLEAN
             /\ wrong' <= MaxTries /\ Lockout!GuessesBounded'
  <2>1. user' = [fails |-> 0, until |-> 0]
    BY <1>u DEF Lockout!Unlocked
  <2>2. user' \in [fails : 0..(Max - 1), until : 0..(LockClock + Lock)]
    BY <1>0, <2>1
  <2>3. Lockout!GuessesBounded'
    BY <1>0, <1>g, <1>u, <2>1 DEF Lockout!GuessesBounded
  <2>4. wrong' \in Nat /\ wrong' <= wrong /\ wrong' <= MaxTries
    BY <1>0, <1>t, <1>u
  <2>5. lost' \in BOOLEAN
    BY <1>u, Zenon
  <2> QED
    BY <2>2, <2>3, <2>4, <2>5
<1>6. ASSUME NEW s \in Calls, Lockout!ClearFailures(s) PROVE LockoutInv'
  <2>1. /\ try' = [try EXCEPT ![s] = idle]
        /\ Lockout!Unlocked = user' /\ wrong' = 0 /\ lost' = FALSE
        /\ UNCHANGED <<origin, lockTries, now>>
    BY <1>6, <1>i DEF Lockout!ClearFailures, Lockout!Finish
  <2>2. LockoutStep(try[s], idle)
    BY <1>t, <1>i, <1>u, <2>1 DEF LockoutStep
  <2> QED
    BY <1>u, <2>1, <2>2, LockoutMoves
<1>7. CASE Lockout!ClearLockOnReset
  <2>1. /\ Lockout!Unlocked = user' /\ wrong' = 0 /\ lost' = FALSE
        /\ UNCHANGED <<origin, try, lockTries, now>>
    BY <1>7 DEF Lockout!ClearLockOnReset
  <2>2. Lockout!TypeOK'
    <3>1. /\ user' \in [fails : 0..(Max - 1), until : 0..(LockClock + Lock)]
          /\ wrong' \in Nat /\ wrong' <= MaxTries /\ lost' \in BOOLEAN
      BY <1>u, <2>1, Zenon
    <3> QED
      BY <1>0, <1>t, <2>1, <3>1 DEF Lockout!TypeOK, Turn
  <2>3. wrong' + Cardinality(Trying(try', {"compare", "fail"})) <= lockTries'
    <3>1. PICK k : /\ k = Cardinality(Trying(try, {"compare", "fail"})) /\ wrong + k <= lockTries
      BY DEF LockoutInv
    <3>2. k \in Nat
      <4>1. Trying(try, {"compare", "fail"}) \subseteq Calls /\ IsFiniteSet(Calls)
        BY AccountsAssumption DEF Trying
      <4> QED
        BY <3>1, <4>1, FS_Subset, FS_CardinalityType
    <3> QED
      BY <1>t, <2>1, <3>1, <3>2
  <2> QED
    BY <1>u, <2>1, <2>2, <2>3 DEF LockoutInv
<1>8. ASSUME NEW s \in Calls, Lockout!ReadCounter(s) PROVE LockoutInv'
  <2>1. /\ try[s].pc = "count" /\ UNCHANGED <<user, origin, lockTries, now, wrong, lost>>
    BY <1>8 DEF Lockout!ReadCounter
  <2>2. PICK n \in Nat : n = (IF now - origin.seen > Quiet THEN 1 ELSE origin.n + 1)
    BY <1>t
  <2>3. PICK new : new = [try[s] EXCEPT !.pc = "record", !.n = n]
    OBVIOUS
  <2>4. try' = [try EXCEPT ![s] = new]
    <3>1. n = 1 \/ n = origin.n + 1
      BY <2>2
    <3> QED
      BY <1>8, <2>2, <2>3 DEF Lockout!ReadCounter
  <2>5. n <= origin.n + 1 /\ n <= MaxTries
    <3>1. n <= origin.n + 1
      BY <1>t, <2>2
    <3>2. PICK x \in Nat : /\ origin.n <= x
                           /\ x + Cardinality(Trying(try, {"compare", "fail", "count"})) <= lockTries
      BY DEF LockoutInv
    <3>3. PICK W : W = Trying(try, {"compare", "fail", "count"}) /\ IsFiniteSet(W) /\ s \in W
      <4>1. /\ Trying(try, {"compare", "fail", "count"}) \subseteq Calls /\ IsFiniteSet(Calls)
            /\ s \in Trying(try, {"compare", "fail", "count"})
        BY <2>1, AccountsAssumption DEF Trying
      <4> QED
        BY <4>1, FS_Subset
    <3>4. Cardinality(W) \in Nat /\ Cardinality(W) # 0
      BY <3>3, FS_CardinalityType, FS_EmptySet
    <3> QED
      BY <1>0, <1>t, <3>1, <3>2, <3>3, <3>4
  <2>6. new \in Turn /\ new.pc = "record" /\ new.n = n
    <3>1. n \in 0..MaxTries /\ try[s] \in Turn
      BY <1>0, <1>t, <2>5
    <3> QED
      BY <2>3, <3>1 DEF Turn
  <2>7. Lockout!GuessesBounded'
    BY <1>g, <2>1 DEF Lockout!GuessesBounded
  <2>8. LockoutStep(try[s], new)
    BY <1>t, <2>1, <2>5, <2>6 DEF LockoutStep
  <2> QED
    BY <2>4, <2>6, <2>7, <2>8, LockoutMoves
<1>9. ASSUME NEW s \in Calls, Lockout!RecordFailure(s) PROVE LockoutInv'
  <2>1. PICK delay : delay = Lockout!Backoff(try[s].n)
    OBVIOUS
  <2>2. try[s].n \in 0..MaxTries /\ delay \in Int /\ delay <= Cap
    BY <1>0, <1>t, <2>1, BackoffIsBounded DEF Turn
  <2>3. PICK until \in Int : until = (IF delay = 0 THEN 0 ELSE now + delay) /\ until <= now + Cap
    BY <1>0, <1>t, <2>2
  <2>4. /\ origin' = [n |-> try[s].n, until |-> until, seen |-> now]
        /\ try' = [try EXCEPT ![s] = idle]
        /\ UNCHANGED <<user, lockTries, now, wrong, lost>>
    BY <1>9, <1>i, <2>1, <2>3 DEF Lockout!RecordFailure, Lockout!Finish
  <2>5. origin' \in [n : 0..MaxTries, until : Int, seen : 0..LockClock]
    BY <1>t, <2>2, <2>3, <2>4
  <2>6. Lockout!GuessesBounded'
    BY <1>g, <2>3, <2>4 DEF Lockout!GuessesBounded
  <2>7. LockoutStep(try[s], idle)
    BY <1>t, <1>i, <2>4, <2>5 DEF LockoutStep
  <2> QED
    BY <2>4, <2>6, <2>7, LockoutMoves
<1>10. CASE Lockout!Tick
  <2>1. /\ now < LockClock /\ now' = now + 1
        /\ UNCHANGED <<user, origin, try, lockTries, wrong, lost>>
    BY <1>10 DEF Lockout!Tick
  <2>2. Lockout!TypeOK'
    BY <1>0, <1>t, <2>1 DEF Lockout!TypeOK, Turn
  <2>3. Lockout!GuessesBounded'
    BY <1>0, <1>t, <1>g, <2>1 DEF Lockout!GuessesBounded
  <2> QED
    BY <2>1, <2>2, <2>3 DEF LockoutInv
<1>11. CASE UNCHANGED lockout
  BY <1>11 DEF lockout, LockoutInv, Lockout!TypeOK, Lockout!GuessesBounded
<1> QED
  BY <1>1, <1>2, <1>3, <1>4, <1>5, <1>6, <1>7, <1>8, <1>9, <1>10, <1>11 DEF Lockout!Next

\* As long as no failure was registered with an outdated count, MAX_FAILED_ATTEMPTS wrong
\* passwords lock the account, and no lock of an origin lies further ahead than the ceiling
\* (registerFailedAttempt, recordFailure).
THEOREM GuessingStaysBounded == AccountsSpec => []GuessesBounded
<1>1. AccountsInit => LockoutInv
  BY LockoutInit DEF AccountsInit
<1>2. LockoutInv /\ [AccountsNext]_accountsVars => LockoutInv'
  BY LockoutNext, AccountsParts
<1>3. LockoutInv => GuessesBounded
  BY DEF LockoutInv, GuessesBounded
<1> QED
  BY <1>1, <1>2, <1>3, PTL DEF AccountsSpec

===============================================================================
