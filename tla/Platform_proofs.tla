---------------------------- MODULE Platform_proofs ----------------------------
(***************************************************************************)
(* Proofs about the components the platforms rest on, as MCPlatform puts   *)
(* them side by side: for any number of jobs, tabs, tokens, retries and    *)
(* overlapping requests, and any bounds and lifetimes.                     *)
(*                                                                         *)
(* A step of the whole is a step, or a stutter, of the component that the  *)
(* behaviour is about (PlatformParts), so each section is about one        *)
(* component and closes with its property for PlatformSpec.                *)
(***************************************************************************)
EXTENDS MCPlatform, FiniteSetTheorems, SequenceTheorems, TLAPS

LEMMA PlatformParts ==
    ASSUME [PlatformNext]_platformVars
    PROVE  /\ UNCHANGED part
           /\ part = "mail" => [Mail!Next]_mail
           /\ part = "access" => [Access!Next]_access
           /\ part = "pages" => [Pages!Next]_pages
           /\ part = "agent" => [Agents!Next]_agency
           /\ part = "cache" => [Cache!Next]_caching
           /\ part = "idem" => [Idem!Next]_retries
           /\ part = "consent" => [Consents!Next]_consents
           /\ part = "guards" => [Guards!Next]_guards
           /\ part = "trail" => [Trail!Next]_trail
           /\ part = "return" => [Return!Next]_return
<1>1. CASE UNCHANGED platformVars
  BY <1>1 DEF platformVars
<1>2. CASE PlatformNext
  BY <1>2 DEF PlatformNext
<1> QED
  BY <1>1, <1>2

\* The components count with operators of their own.
LEMMA OneCardinality ==
    ASSUME NEW S
    PROVE  /\ Idem!Cardinality(S) = Cardinality(S) /\ Access!Cardinality(S) = Cardinality(S)
           /\ Agents!Cardinality(S) = Cardinality(S) /\ Cache!Cardinality(S) = Cardinality(S)
           /\ Return!Cardinality(S) = Cardinality(S) /\ Mail!Cardinality(S) = Cardinality(S)
BY DEF Cardinality, Idem!Cardinality, Access!Cardinality, Agents!Cardinality, Cache!Cardinality,
       Return!Cardinality, Mail!Cardinality

-------------------------------------------------------------------------------
(* Idempotency keys: one effect *)

\* A request that has claimed the key and is not done with it.
Claiming == {c \in Things : retry[c] \in {"run", "complete", "release"}}

\* Requests that are past their handler.
Ran == {c \in Things : retry[c] \in {"complete", "release", "answered", "failed"}}

\* As long as the record tells the truth, only one request has the claim, and none has
\* it while the key is free or its response stored.
OneClaim ==
    /\ \A c, d \in Claiming : c = d
    /\ record # "in-flight" => Claiming = {}
    /\ record = "none" => done = 0
    /\ done <= 1
    /\ \A c \in Claiming : retry[c] \in {"run", "release"} => done = 0

IdemInv ==
    /\ Idem!TypeOK
    /\ done <= Cardinality(Ran)
    /\ ~unclaimed /\ ~forgotten => OneClaim

Stages == {"idle", "get", "run", "complete", "release", "answered", "replayed", "refused", "failed"}

LEMMA IdemInit == Idem!Init => IdemInv
<1> SUFFICES ASSUME Idem!Init PROVE IdemInv
  OBVIOUS
<1>1. Ran = {} /\ Claiming = {} /\ done = 0
  BY DEF Idem!Init, Ran, Claiming
<1>2. Cardinality(Ran) = 0 /\ Cardinality(Things) \in Nat
  BY <1>1, FS_EmptySet, FS_CardinalityType, PlatformAssumption
<1>3. unclaimed \in BOOLEAN /\ forgotten \in BOOLEAN
  BY DEF Idem!Init
<1>4. Idem!TypeOK
  BY <1>2, <1>3, OneCardinality DEF Idem!Init, Idem!TypeOK
<1> QED
  BY <1>1, <1>2, <1>4 DEF IdemInv, OneClaim

LEMMA IdemNext == IdemInv /\ [Idem!Next]_retries => IdemInv'
<1> SUFFICES ASSUME IdemInv, [Idem!Next]_retries PROVE IdemInv'
  OBVIOUS
<1>0. /\ retry \in [Things -> Stages] /\ done \in Nat /\ done <= Cardinality(Ran)
      /\ record \in {"none", "in-flight", "completed"}
      /\ unclaimed \in BOOLEAN /\ forgotten \in BOOLEAN
      /\ Cardinality(Things) \in Nat
  BY FS_CardinalityType, PlatformAssumption DEF IdemInv, Idem!TypeOK, Stages
<1>1. /\ ~unclaimed /\ ~forgotten => OneClaim
      /\ Claiming \subseteq Things
  BY DEF IdemInv, Claiming
\* No handler takes effect without a request that ran.
<1>2. ASSUME retry' \in [Things -> Stages], NEW c \in Things, Ran \subseteq Ran', done' \in Nat,
             done' <= done \/ (done' <= done + 1 /\ c \in Ran' \ Ran)
      PROVE  done' <= Cardinality(Ran') /\ done' <= Cardinality(Things)
  <2>1. Ran' \subseteq Things
    BY DEF Ran
  <2>2. /\ IsFiniteSet(Ran') /\ IsFiniteSet(Ran)
        /\ Cardinality(Ran') <= Cardinality(Things) /\ Cardinality(Ran) <= Cardinality(Ran')
    BY <1>2, <2>1, FS_Subset, PlatformAssumption
  <2>3. Cardinality(Ran) \in Nat /\ Cardinality(Ran') \in Nat
    BY <2>2, FS_CardinalityType
  <2>4. CASE done' <= done
    BY <1>0, <1>2, <2>2, <2>3, <2>4
  <2>5. CASE done' <= done + 1 /\ c \in Ran' \ Ran
    <3>1. Cardinality(Ran \cup {c}) = Cardinality(Ran) + 1 /\ Ran \cup {c} \subseteq Ran'
      BY <1>2, <2>2, <2>5, FS_AddElement
    <3>2. Cardinality(Ran \cup {c}) <= Cardinality(Ran')
      BY <2>2, <3>1, FS_Subset
    <3> QED
      BY <1>0, <1>2, <2>2, <2>3, <2>5, <3>1, <3>2
  <2> QED
    BY <1>2, <2>4, <2>5
\* A request moves on.
<1>3. ASSUME NEW c \in Things, NEW at \in Stages, Idem!To(c, at),
             at \in {"idle", "get", "run", "replayed", "refused"} => c \notin Ran,
             done' \in Nat, done' = done \/ (done' = done + 1 /\ c \notin Ran /\ at = "complete"),
             record' \in {"none", "in-flight", "completed"},
             unclaimed' \in BOOLEAN, forgotten' \in BOOLEAN
      PROVE  /\ Idem!TypeOK' /\ done' <= Cardinality(Ran')
             /\ Claiming' = IF at \in {"run", "complete", "release"} THEN Claiming \cup {c}
                             ELSE Claiming \ {c}
             /\ retry'[c] = at /\ \A d \in Things \ {c} : retry'[d] = retry[d]
  <2>1. /\ retry' \in [Things -> Stages] /\ retry'[c] = at
        /\ \A d \in Things \ {c} : retry'[d] = retry[d]
    BY <1>0, <1>3 DEF Idem!To
  <2>2. Ran \subseteq Ran' /\ (c \notin Ran /\ at = "complete" => c \in Ran' \ Ran)
    BY <1>0, <1>3, <2>1 DEF Ran, Stages
  <2>3. done' <= Cardinality(Ran') /\ done' <= Cardinality(Things)
    BY <1>0, <1>2, <1>3, <2>1, <2>2
  <2>4. Idem!TypeOK'
    BY <1>0, <1>3, <2>1, <2>3, OneCardinality DEF Idem!TypeOK, Stages
  <2>5. Claiming' = IF at \in {"run", "complete", "release"} THEN Claiming \cup {c} ELSE Claiming \ {c}
    BY <2>1 DEF Claiming
  <2> QED
    BY <2>1, <2>3, <2>4, <2>5
<1>4. ASSUME NEW c \in Things, Idem!Claim(c) PROVE IdemInv'
  <2>1. CASE record = "none"
    <3>1. /\ retry[c] = "idle" /\ record' = "in-flight" /\ Idem!To(c, "run")
          /\ UNCHANGED <<done, unclaimed, forgotten>>
      BY <1>4, <2>1 DEF Idem!Claim
    <3>2. /\ Idem!TypeOK' /\ done' <= Cardinality(Ran') /\ Claiming' = Claiming \cup {c}
          /\ retry'[c] = "run" /\ \A d \in Things \ {c} : retry'[d] = retry[d]
      BY <1>0, <1>3, <3>1 DEF Stages, Ran
    <3> QED
      BY <1>0, <1>1, <2>1, <3>1, <3>2 DEF IdemInv, OneClaim
  <2>2. CASE record # "none"
    <3>1. /\ retry[c] = "idle" /\ Idem!To(c, "get") /\ UNCHANGED <<record, done, unclaimed, forgotten>>
      BY <1>4, <2>2 DEF Idem!Claim
    <3>2. /\ Idem!TypeOK' /\ done' <= Cardinality(Ran') /\ Claiming' = Claiming \ {c}
          /\ retry'[c] = "get" /\ \A d \in Things \ {c} : retry'[d] = retry[d]
      BY <1>0, <1>3, <3>1 DEF Stages, Ran
    <3> QED
      BY <1>0, <1>1, <2>2, <3>1, <3>2 DEF IdemInv, OneClaim
  <2> QED
    BY <2>1, <2>2
<1>5. ASSUME NEW c \in Things, Idem!ReadExisting(c) PROVE IdemInv'
  <2>1. /\ retry[c] = "get" /\ UNCHANGED <<record, done, forgotten>>
        /\ unclaimed' = (unclaimed \/ record = "none")
    BY <1>5 DEF Idem!ReadExisting
  <2>2. PICK at \in {"run", "refused", "replayed"} : Idem!To(c, at) /\ (record # "none" => at # "run")
    BY <1>0, <1>5 DEF Idem!ReadExisting
  <2>3. unclaimed' \in BOOLEAN
    BY <2>1
  <2>4. /\ Idem!TypeOK' /\ done' <= Cardinality(Ran')
        /\ at # "run" => Claiming' = Claiming \ {c}
        /\ retry'[c] = at /\ \A d \in Things \ {c} : retry'[d] = retry[d]
    BY <1>0, <1>3, <2>1, <2>2, <2>3 DEF Stages, Ran
  <2> QED
    BY <1>0, <1>1, <2>1, <2>2, <2>4 DEF IdemInv, OneClaim
<1>6. ASSUME NEW c \in Things, Idem!Run(c) PROVE IdemInv'
  <2>1. /\ retry[c] = "run" /\ c \in Claiming /\ UNCHANGED <<record, unclaimed, forgotten>>
    BY <1>6 DEF Idem!Run, Claiming
  <2>2. PICK at \in {"complete", "release"} :
           Idem!To(c, at) /\ done' = IF at = "complete" THEN done + 1 ELSE done
    BY <1>6 DEF Idem!Run
  <2>3. /\ Idem!TypeOK' /\ done' <= Cardinality(Ran') /\ Claiming' = Claiming \cup {c}
        /\ retry'[c] = at /\ \A d \in Things \ {c} : retry'[d] = retry[d]
    <3>1. c \notin Ran /\ at \in Stages /\ done' \in Nat /\ unclaimed' \in BOOLEAN /\ forgotten' \in BOOLEAN
      BY <1>0, <2>1, <2>2 DEF Stages, Ran
    <3> QED
      BY <1>0, <1>3, <2>1, <2>2, <3>1
  <2> QED
    BY <1>0, <1>1, <2>1, <2>2, <2>3 DEF IdemInv, OneClaim
<1>7. ASSUME NEW c \in Things, Idem!Complete(c) PROVE IdemInv'
  <2>1. /\ retry[c] = "complete" /\ c \in Claiming /\ UNCHANGED <<done, unclaimed>>
    BY <1>7 DEF Idem!Complete, Claiming
  <2>2. CASE record' = "completed" /\ Idem!To(c, "answered") /\ UNCHANGED forgotten
    <3>1. /\ Idem!TypeOK' /\ done' <= Cardinality(Ran') /\ Claiming' = Claiming \ {c}
          /\ retry'[c] = "answered" /\ \A d \in Things \ {c} : retry'[d] = retry[d]
      BY <1>0, <1>3, <2>1, <2>2 DEF Stages
    <3> QED
      BY <1>0, <1>1, <2>1, <2>2, <3>1 DEF IdemInv, OneClaim
  <2>3. CASE Idem!To(c, "release") /\ forgotten' = TRUE /\ UNCHANGED record
    <3>1. Idem!TypeOK' /\ done' <= Cardinality(Ran')
      BY <1>0, <1>3, <2>1, <2>3 DEF Stages
    <3> QED
      BY <2>3, <3>1 DEF IdemInv
  <2> QED
    BY <1>7, <2>2, <2>3 DEF Idem!Complete
<1>8. ASSUME NEW c \in Things, Idem!Release(c) PROVE IdemInv'
  <2>1. /\ retry[c] = "release" /\ c \in Claiming /\ Idem!To(c, "failed")
        /\ record' \in {"none", record} /\ UNCHANGED <<done, unclaimed, forgotten>>
    BY <1>8 DEF Idem!Release, Claiming
  <2>2. /\ Idem!TypeOK' /\ done' <= Cardinality(Ran') /\ Claiming' = Claiming \ {c}
        /\ retry'[c] = "failed" /\ \A d \in Things \ {c} : retry'[d] = retry[d]
    BY <1>0, <1>3, <2>1 DEF Stages
  <2> QED
    BY <1>0, <1>1, <2>1, <2>2 DEF IdemInv, OneClaim
<1>9. ASSUME NEW c \in Things, Idem!Crash(c) PROVE IdemInv'
  <2>1. Idem!To(c, "failed") /\ UNCHANGED <<record, done, unclaimed, forgotten>>
    BY <1>9 DEF Idem!Crash
  <2>2. /\ Idem!TypeOK' /\ done' <= Cardinality(Ran') /\ Claiming' = Claiming \ {c}
        /\ retry'[c] = "failed" /\ \A d \in Things \ {c} : retry'[d] = retry[d]
    BY <1>0, <1>3, <2>1 DEF Stages
  <2> QED
    BY <1>0, <1>1, <2>1, <2>2 DEF IdemInv, OneClaim
<1>10. CASE Idem!Expire
  <2>1. record' = "none" /\ forgotten' = TRUE /\ UNCHANGED <<retry, done, unclaimed>>
    BY <1>10 DEF Idem!Expire
  <2>2. Idem!TypeOK' /\ done' <= Cardinality(Ran')
    BY <1>0, <2>1 DEF IdemInv, Idem!TypeOK, Ran
  <2> QED
    BY <2>1, <2>2 DEF IdemInv
<1>11. CASE UNCHANGED retries
  BY <1>11 DEF retries, IdemInv, Idem!TypeOK, OneClaim, Claiming, Ran
<1> QED
  BY <1>4, <1>5, <1>6, <1>7, <1>8, <1>9, <1>10, <1>11 DEF Idem!Next

\* However retries with one key overlap, fail and crash, a second effect has one of the
\* reasons OneEffect names (IdempotencyInterceptor).
THEOREM RetriesHaveOneEffect == PlatformSpec => []OneEffect
<1> DEFINE Inv == part = "idem" => IdemInv
<1>1. PlatformInit => Inv
  BY IdemInit DEF PlatformInit
<1>2. Inv /\ [PlatformNext]_platformVars => Inv'
  BY IdemNext, PlatformParts
<1>3. Inv => OneEffect
  BY DEF OneEffect, IdemInv, Idem!OneEffect, OneClaim, Idem!TypeOK
<1> HIDE DEF Inv
<1> QED
  BY <1>1, <1>2, <1>3, PTL DEF PlatformSpec

-------------------------------------------------------------------------------
(* Consent of third-party clients *)

\* A request that is past the reading of the consent has been covered by one, and so
\* has one that the consent covers now.
ConsentInv ==
    /\ Consents!TypeOK
    /\ request.at \in {"issue", "coded"} => client.firstParty \/ request.consented
    /\ request.at # "idle" /\ Consents!Covers(consent, request.scopes) => request.consented

LEMMA ConsentInit == Consents!Init => ConsentInv
<1> SUFFICES ASSUME Consents!Init PROVE ConsentInv
  OBVIOUS
<1>1. request.at = "idle" /\ request \in Consents!Request
  BY DEF Consents!Init, Consents!Idle, Consents!Request
<1>2. 0 \in 0..MaxEdits
  BY PlatformAssumption
<1> QED
  BY <1>1, <1>2 DEF Consents!Init, Consents!TypeOK, ConsentInv

LEMMA ConsentNext == ConsentInv /\ [Consents!Next]_consents => ConsentInv'
<1> SUFFICES ASSUME ConsentInv, [Consents!Next]_consents PROVE ConsentInv'
  OBVIOUS
<1>0. /\ client \in Consents!Client /\ consent \in Consents!Consent \cup {None}
      /\ request \in Consents!Request /\ changes \in 0..MaxEdits /\ MaxEdits \in Nat
  BY PlatformAssumption DEF ConsentInv, Consents!TypeOK
<1>1. /\ request.at \in {"issue", "coded"} => client.firstParty \/ request.consented
      /\ request.at # "idle" /\ Consents!Covers(consent, request.scopes) => request.consented
  BY DEF ConsentInv
\* Only the request moves.
<1>2. ASSUME NEW new \in Consents!Request, request' = new, UNCHANGED <<client, consent, changes>>,
             new.at \in {"issue", "coded"} => client.firstParty \/ new.consented,
             new.at # "idle" /\ Consents!Covers(consent, new.scopes) => new.consented
      PROVE  ConsentInv'
  BY <1>0, <1>2 DEF ConsentInv, Consents!TypeOK, Consents!Covers
<1>3. ASSUME NEW at \in {"consent", "issue", "coded", "screen", "answered"},
             request' = [request EXCEPT !.at = at], UNCHANGED <<client, consent, changes>>,
             request.at # "idle",
             at \in {"issue", "coded"} => client.firstParty \/ request.consented
      PROVE  ConsentInv'
  <2>1. PICK new : new = [request EXCEPT !.at = at]
    OBVIOUS
  <2>2. /\ new \in Consents!Request /\ new.at = at /\ new.scopes = request.scopes
        /\ new.consented = request.consented
    BY <1>0, <2>1 DEF Consents!Request
  <2> QED
    BY <1>1, <1>2, <1>3, <2>1, <2>2
<1>4. ASSUME request' = Consents!Idle, UNCHANGED <<client, consent, changes>> PROVE ConsentInv'
  <2>1. Consents!Idle \in Consents!Request /\ Consents!Idle.at = "idle"
    BY DEF Consents!Idle, Consents!Request
  <2> QED
    BY <1>2, <1>4, <2>1
<1>5. CASE Consents!Authorize
  <2>1. PICK asked \in SUBSET Scopes :
          request' = [at |-> "access", scopes |-> Consents!ResolveScopes(asked),
                      consented |-> Consents!Covers(consent, Consents!ResolveScopes(asked))]
    BY <1>5 DEF Consents!Authorize
  <2>2. PICK scopes \in SUBSET Scopes : scopes = Consents!ResolveScopes(asked)
    BY PlatformAssumption DEF Consents!ResolveScopes
  <2>3. PICK new : new = [at |-> "access", scopes |-> scopes, consented |-> Consents!Covers(consent, scopes)]
    OBVIOUS
  <2>4. Consents!Covers(consent, scopes) \in BOOLEAN
    BY DEF Consents!Covers
  <2>5. /\ new \in Consents!Request /\ new.at = "access" /\ new.scopes = scopes
        /\ new.consented = Consents!Covers(consent, scopes)
    BY <2>3, <2>4 DEF Consents!Request
  <2> QED
    BY <1>2, <1>5, <2>1, <2>2, <2>3, <2>5 DEF Consents!Authorize
<1>6. CASE Consents!Admit
  BY <1>3, <1>4, <1>6 DEF Consents!Admit
<1>7. CASE Consents!ReadConsent
  <2>1. PICK at \in {"screen", "issue"} :
          /\ request' = [request EXCEPT !.at = at]
          /\ at = "issue" => client.firstParty \/ Consents!Covers(consent, request.scopes)
    BY <1>7 DEF Consents!ReadConsent, Consents!NeedsConsent
  <2> QED
    BY <1>1, <1>3, <1>7, <2>1 DEF Consents!ReadConsent
<1>8. CASE Consents!IssueCode
  BY <1>1, <1>3, <1>8 DEF Consents!IssueCode
<1>9. CASE Consents!PressAuthorize
  BY <1>3, <1>9 DEF Consents!PressAuthorize
<1>10. CASE Consents!Abort
  BY <1>4, <1>10 DEF Consents!Abort
\* The consent changes, and the request keeps in mind what it has been.
<1>11. ASSUME NEW row \in Consents!Consent, Consents!Edit(row), UNCHANGED client PROVE ConsentInv'
  <2>1. /\ changes' \in 0..MaxEdits /\ consent' = row /\ client' = client
        /\ request' = [request EXCEPT !.consented = @ \/ Consents!Covers(row, request.scopes)]
    BY <1>0, <1>11 DEF Consents!Edit
  <2>2. PICK now \in BOOLEAN : now = (request.consented \/ Consents!Covers(row, request.scopes))
    OBVIOUS
  <2>3. PICK new : new = [request EXCEPT !.consented = now]
    OBVIOUS
  <2>4. /\ new \in Consents!Request /\ new.at = request.at /\ new.scopes = request.scopes
        /\ new.consented = now
    BY <1>0, <2>3 DEF Consents!Request
  <2>5. request' = new
    BY <2>1, <2>2, <2>3
  <2>6. Consents!Covers(consent', request'.scopes) => request'.consented
    BY <2>1, <2>2, <2>4, <2>5
  <2>7. client' \in Consents!Client /\ consent' \in Consents!Consent \cup {None}
    BY <1>0, <2>1
  <2>8. request'.at \in {"issue", "coded"} => client'.firstParty \/ request'.consented
    BY <1>1, <2>1, <2>2, <2>4, <2>5
  <2> QED
    BY <2>1, <2>4, <2>5, <2>6, <2>7, <2>8 DEF ConsentInv, Consents!TypeOK, Consents!Covers
<1>12. ASSUME NEW scopes \in SUBSET Scopes, Consents!RecordConsent(scopes) PROVE ConsentInv'
  <2>1. [scopes |-> scopes, revoked |-> FALSE] \in Consents!Consent
    BY DEF Consents!Consent
  <2> QED
    BY <1>11, <1>12, <2>1 DEF Consents!RecordConsent
<1>13. CASE Consents!RevokeConsent
  <2>1. [consent EXCEPT !.revoked = TRUE] \in Consents!Consent
    BY <1>0, <1>13 DEF Consents!RevokeConsent, Consents!Consent
  <2> QED
    BY <1>11, <1>13, <2>1 DEF Consents!RevokeConsent
<1>14. CASE Consents!EditClient
  <2>1. /\ changes' \in 0..MaxEdits /\ consent' = consent /\ request' = request
        /\ client' \in Consents!Client /\ client'.firstParty = client.firstParty
    BY <1>0, <1>14 DEF Consents!EditClient
  <2> QED
    BY <1>0, <1>1, <2>1 DEF ConsentInv, Consents!TypeOK, Consents!Covers
<1>15. CASE UNCHANGED consents
  BY <1>15 DEF consents, ConsentInv, Consents!TypeOK, Consents!Covers
<1> QED
  BY <1>5, <1>6, <1>7, <1>8, <1>9, <1>10, <1>12, <1>13, <1>14, <1>15 DEF Consents!Next

\* A third party has codes only for scopes that a consent in force covered at some moment
\* of the request, however the rows change between its awaits (authorize, needsConsent).
THEOREM CodesNeedConsent == PlatformSpec => []NoCodeWithoutConsent
<1> DEFINE Inv == part = "consent" => ConsentInv
<1>1. PlatformInit => Inv
  BY ConsentInit DEF PlatformInit
<1>2. Inv /\ [PlatformNext]_platformVars => Inv'
  BY ConsentNext, PlatformParts
<1>3. Inv => NoCodeWithoutConsent
  BY DEF NoCodeWithoutConsent, ConsentInv, Consents!NoCodeWithoutConsent
<1> HIDE DEF Inv
<1> QED
  BY <1>1, <1>2, <1>3, PTL DEF PlatformSpec

-------------------------------------------------------------------------------
(* Platform entitlements: denials stand *)

\* What denied the principal ever since the check began does so now, and did at each
\* read of it.
AccessInv ==
    /\ Access!TypeOK
    /\ verdict # "CONTRADICTED"
    /\ denied \subseteq Access!Denials(grants, member, planned)
    /\ check = {} => denied = {}
    /\ \A r \in check :
         /\ \A gs \in r.grants : denied \subseteq gs
         /\ \A isMember \in r.member : \A g \in denied : g.subject = "group" => isMember
         /\ \A isPlanned \in r.planned : \A g \in denied : g.subject = "plan" => isPlanned

\* What a check has read is in keeping with what denies the principal throughout.
ReadDenials(r) ==
    /\ \A gs \in r.grants : denied \subseteq gs
    /\ \A isMember \in r.member : \A g \in denied : g.subject = "group" => isMember
    /\ \A isPlanned \in r.planned : \A g \in denied : g.subject = "plan" => isPlanned

LEMMA FiniteGrants == IsFiniteSet(Access!Grants)
<1> DEFINE Effects == {"ALLOW", "DENY"}
           Subjects == {"everyone", "principal", "group", "plan"}
           f == [p \in Effects \X Subjects |-> [effect |-> p[1], subject |-> p[2]]]
<1>1. IsFiniteSet({"ALLOW"} \cup {"DENY"})
  BY FS_Singleton, FS_AddElement
<1>2. IsFiniteSet((({"everyone"} \cup {"principal"}) \cup {"group"}) \cup {"plan"})
  <2>1. IsFiniteSet({"everyone"} \cup {"principal"})
    BY FS_Singleton, FS_AddElement
  <2>2. IsFiniteSet(({"everyone"} \cup {"principal"}) \cup {"group"})
    BY <2>1, FS_AddElement
  <2> QED
    BY <2>2, FS_AddElement
<1>3. /\ Effects = {"ALLOW"} \cup {"DENY"}
      /\ Subjects = (({"everyone"} \cup {"principal"}) \cup {"group"}) \cup {"plan"}
  OBVIOUS
<1>4. IsFiniteSet(Effects \X Subjects)
  BY <1>1, <1>2, <1>3, FS_Product
<1>5. f \in Surjection(Effects \X Subjects, Access!Grants)
  <2>1. f \in [Effects \X Subjects -> Access!Grants]
    BY DEF Access!Grants
  <2>2. ASSUME NEW g \in Access!Grants PROVE \E p \in Effects \X Subjects : f[p] = g
    <3>1. <<g.effect, g.subject>> \in Effects \X Subjects
      BY DEF Access!Grants
    <3>2. f[<<g.effect, g.subject>>] = g
      BY <3>1 DEF Access!Grants
    <3> QED
      BY <3>1, <3>2
  <2> QED
    BY <2>1, <2>2 DEF Surjection
<1> QED
  BY <1>4, <1>5, FS_Surjection

LEMMA AccessInit == Access!Init /\ entry \in Access!Entries => AccessInv
<1> SUFFICES ASSUME Access!Init, entry \in Access!Entries PROVE AccessInv
  OBVIOUS
<1>1. /\ grants \subseteq Access!Grants /\ Access!Cardinality(grants) <= MaxGrants
      /\ planned \in BOOLEAN /\ member \in BOOLEAN /\ edits \in 0..MaxEdits
      /\ check = {} /\ denied = {} /\ verdict = "none"
  BY PlatformAssumption DEF Access!Init
<1>2. Access!Cardinality({}) <= 1
  BY OneCardinality, FS_EmptySet
<1> QED
  BY <1>1, <1>2 DEF AccessInv, Access!TypeOK

LEMMA AccessNext == AccessInv /\ [Access!Next]_access => AccessInv'
<1> SUFFICES ASSUME AccessInv, [Access!Next]_access PROVE AccessInv'
  OBVIOUS
<1>0. /\ entry \in Access!Entries /\ grants \subseteq Access!Grants
      /\ Access!Cardinality(grants) <= MaxGrants
      /\ planned \in BOOLEAN /\ member \in BOOLEAN /\ edits \in 0..MaxEdits /\ MaxEdits \in Nat
      /\ check \subseteq Access!Reading /\ Access!Cardinality(check) <= 1
      /\ denied \subseteq Access!Grants /\ denied \subseteq Access!Denials(grants, member, planned)
      /\ verdict \in {"none", "HIDDEN", "DISABLED", "ENABLED"}
  BY PlatformAssumption DEF AccessInv, Access!TypeOK
<1>1. \A r \in check : ReadDenials(r)
  BY DEF AccessInv, ReadDenials
<1>2. ASSUME NEW x PROVE Access!Cardinality({x}) <= 1
  <2>1. Access!Cardinality({x}) = Cardinality({x}) /\ Cardinality({x}) = 1
    BY OneCardinality, FS_Singleton
  <2> QED
    BY <2>1
<1>3. Access!Cardinality({}) <= 1
  BY OneCardinality, FS_EmptySet
<1>4. ASSUME NEW g \in denied
      PROVE  /\ g \in grants /\ g.effect = "DENY"
             /\ \/ g.subject \in {"everyone", "principal"}
                \/ g.subject = "group" /\ member
                \/ g.subject = "plan" /\ planned
  BY <1>0 DEF Access!Denials, Access!Matches
<1>5. CASE Access!ReadPlatform
  <2>1. /\ denied' = Access!Denials(grants, member, planned)
        /\ UNCHANGED <<entry, grants, planned, member, edits, verdict>>
    BY <1>5 DEF Access!ReadPlatform
  <2>2. PICK r : r = [entry |-> entry, grants |-> {}, planned |-> {}, member |-> {}]
    OBVIOUS
  <2>3. /\ r \in Access!Reading /\ r.grants = {} /\ r.planned = {} /\ r.member = {}
    BY <1>0, <2>2 DEF Access!Reading
  <2>4. check' = {r}
    BY <1>5, <2>2 DEF Access!ReadPlatform
  <2>5. denied' \subseteq Access!Grants
    BY <1>0, <2>1 DEF Access!Denials
  <2>6. Access!TypeOK'
    BY <1>0, <1>2, <2>1, <2>3, <2>4, <2>5 DEF Access!TypeOK
  <2> QED
    BY <1>0, <2>1, <2>3, <2>4, <2>6 DEF AccessInv, Access!Denials, Access!Matches
\* One more read.
<1>6. ASSUME NEW r \in check, NEW now \in Access!Reading, Access!Read(r, now), ReadDenials(now)
      PROVE  AccessInv'
  <2>1. /\ check' = {now} /\ UNCHANGED <<entry, grants, planned, member, edits, denied, verdict>>
    BY <1>6 DEF Access!Read
  <2>2. Access!TypeOK'
    BY <1>0, <1>2, <2>1 DEF Access!TypeOK
  <2>3. Access!Denials(grants, member, planned)' = Access!Denials(grants, member, planned)
    BY <2>1 DEF Access!Denials, Access!Matches
  <2>4. \A q \in check' : ReadDenials(now) /\ q = now
    BY <1>6, <2>1
  <2> QED
    BY <1>0, <2>1, <2>2, <2>3, <2>4 DEF AccessInv, ReadDenials
<1>7. CASE Access!ReadGrants
  <2>1. PICK r \in check : Access!Read(r, [r EXCEPT !.grants = {grants}])
    BY <1>7 DEF Access!ReadGrants
  <2>2. PICK now : now = [r EXCEPT !.grants = {grants}]
    OBVIOUS
  <2>3. /\ now \in Access!Reading /\ now.grants = {grants} /\ now.member = r.member
        /\ now.planned = r.planned
    BY <1>0, <2>2 DEF Access!Reading
  <2>4. ReadDenials(now)
    BY <1>1, <1>4, <2>3 DEF ReadDenials
  <2> QED
    BY <1>6, <2>1, <2>2, <2>3, <2>4
<1>8. CASE Access!ReadSubscription
  <2>1. PICK r \in check : Access!Read(r, [r EXCEPT !.planned = {planned}])
    BY <1>8 DEF Access!ReadSubscription
  <2>2. PICK now : now = [r EXCEPT !.planned = {planned}]
    OBVIOUS
  <2>3. /\ now \in Access!Reading /\ now.grants = r.grants /\ now.member = r.member
        /\ now.planned = {planned}
    BY <1>0, <2>2 DEF Access!Reading
  <2>4. ReadDenials(now)
    BY <1>1, <1>4, <2>3 DEF ReadDenials
  <2> QED
    BY <1>6, <2>1, <2>2, <2>3, <2>4
<1>9. CASE Access!ReadGroups
  <2>1. PICK r \in check : Access!Read(r, [r EXCEPT !.member = {member}])
    BY <1>9 DEF Access!ReadGroups
  <2>2. PICK now : now = [r EXCEPT !.member = {member}]
    OBVIOUS
  <2>3. /\ now \in Access!Reading /\ now.grants = r.grants /\ now.member = {member}
        /\ now.planned = r.planned
    BY <1>0, <2>2 DEF Access!Reading
  <2>4. ReadDenials(now)
    BY <1>1, <1>4, <2>3 DEF ReadDenials
  <2> QED
    BY <1>6, <2>1, <2>2, <2>3, <2>4
<1>10. CASE Access!Answer
  <2>1. /\ check' = {} /\ denied' = {} /\ UNCHANGED <<entry, grants, planned, member, edits>>
    BY <1>10 DEF Access!Answer
  <2>a. PICK r \in check : \E gs \in r.grants, isMember \in r.member, isPlanned \in r.planned :
          LET visibility == Access!Decide(r.entry, {g \in gs : Access!Matches(g, isMember, isPlanned)})
          IN  verdict' = IF visibility = "ENABLED" /\ denied # {} THEN "CONTRADICTED" ELSE visibility
    BY <1>10 DEF Access!Answer
  <2>b. PICK gs \in r.grants, isMember \in r.member, isPlanned \in r.planned :
          LET visibility == Access!Decide(r.entry, {g \in gs : Access!Matches(g, isMember, isPlanned)})
          IN  verdict' = IF visibility = "ENABLED" /\ denied # {} THEN "CONTRADICTED" ELSE visibility
    BY <2>a
  <2>2. PICK visibility :
          /\ visibility = Access!Decide(r.entry, {g \in gs : Access!Matches(g, isMember, isPlanned)})
          /\ verdict' = IF visibility = "ENABLED" /\ denied # {} THEN "CONTRADICTED" ELSE visibility
    BY <2>b
  <2>3. visibility \in {"HIDDEN", "DISABLED", "ENABLED"}
    BY <2>2 DEF Access!Decide
  \* A denial that stood throughout is among the grants that match.
  <2>4. ASSUME NEW g \in denied PROVE visibility # "ENABLED"
    <3>1. g \in gs /\ g.effect = "DENY" /\ Access!Matches(g, isMember, isPlanned)
      BY <1>1, <1>4, <2>2 DEF ReadDenials, Access!Matches
    <3> QED
      BY <2>2, <3>1 DEF Access!Decide
  <2>5. verdict' \in {"HIDDEN", "DISABLED", "ENABLED"}
    BY <2>2, <2>3, <2>4
  <2>6. Access!TypeOK'
    BY <1>0, <1>3, <2>1, <2>5 DEF Access!TypeOK
  <2> QED
    BY <2>1, <2>5, <2>6 DEF AccessInv
\* The rows change, and with them what has stood throughout.
<1>11. ASSUME NEW e \in Access!Entries, NEW gs \in SUBSET Access!Grants, Access!Cardinality(gs) <= MaxGrants,
              NEW isPlanned \in BOOLEAN, NEW isMember \in BOOLEAN, Access!Edit(e, gs, isPlanned, isMember)
       PROVE  AccessInv'
  <2>1. /\ edits' \in 0..MaxEdits /\ entry' = e /\ grants' = gs /\ planned' = isPlanned /\ member' = isMember
        /\ denied' = denied \cap Access!Denials(gs, isMember, isPlanned) /\ UNCHANGED <<check, verdict>>
    BY <1>0, <1>11 DEF Access!Edit
  <2>2. Access!TypeOK'
    BY <1>0, <1>11, <2>1 DEF Access!TypeOK
  <2>3. denied' \subseteq Access!Denials(grants, member, planned)'
    BY <2>1 DEF Access!Denials, Access!Matches
  <2>4. check' = {} => denied' = {}
    BY <2>1 DEF AccessInv
  <2>5. \A r \in check' : ReadDenials(r)'
    BY <1>1, <2>1 DEF ReadDenials
  <2> QED
    BY <1>0, <2>1, <2>2, <2>3, <2>4, <2>5 DEF AccessInv, ReadDenials
<1>12. ASSUME NEW g \in Access!Grants, Access!AddGrant(g) PROVE AccessInv'
  BY <1>0, <1>11, <1>12 DEF Access!AddGrant
<1>13. ASSUME NEW g \in Access!Grants, Access!RemoveGrant(g) PROVE AccessInv'
  <2>1. IsFiniteSet(grants)
    BY <1>0, FiniteGrants, FS_Subset
  <2>2. Access!Cardinality(grants \ {g}) <= MaxGrants
    <3>1. /\ Cardinality(grants) \in Nat
          /\ Cardinality(grants \ {g}) = IF g \in grants THEN Cardinality(grants) - 1 ELSE Cardinality(grants)
      BY <2>1, FS_RemoveElement, FS_CardinalityType
    <3>2. /\ Access!Cardinality(grants) = Cardinality(grants)
          /\ Access!Cardinality(grants \ {g}) = Cardinality(grants \ {g})
      BY OneCardinality
    <3>3. MaxGrants \in Nat
      BY PlatformAssumption
    <3> QED
      BY <1>0, <3>1, <3>2, <3>3
  <2> QED
    BY <1>0, <1>11, <1>13, <2>2 DEF Access!RemoveGrant
<1>14. CASE Access!ChangePlan
  BY <1>0, <1>11, <1>14 DEF Access!ChangePlan
<1>15. CASE Access!ChangeGroup
  BY <1>0, <1>11, <1>15 DEF Access!ChangeGroup
<1>16. ASSUME NEW l \in {"LIVE", "RETIRED"}, Access!SetLifecycle(l) PROVE AccessInv'
  <2>1. [entry EXCEPT !.lifecycle = l] \in Access!Entries
    BY <1>0 DEF Access!Entries
  <2> QED
    BY <1>0, <1>11, <1>16, <2>1 DEF Access!SetLifecycle
<1>17. CASE UNCHANGED access
  BY <1>17 DEF access, AccessInv, Access!TypeOK, Access!Denials, Access!Matches
<1> QED
  BY <1>5, <1>7, <1>8, <1>9, <1>10, <1>12, <1>13, <1>14, <1>15, <1>16, <1>17 DEF Access!Next

\* A check that overlaps any edits of the rows it reads opens no platform to a principal
\* whom a DENY grant has matched throughout (assertMayAccess, decide).
THEOREM DenialsAreHeard == PlatformSpec => []DenialStands
<1> DEFINE Inv == part = "access" => AccessInv
<1>1. PlatformInit => Inv
  <2>1. Platform \in Access!Entries
    BY DEF Platform, Access!Entries
  <2>2. /\ [Platform EXCEPT !.internal = TRUE, !.authority = TRUE, !.lifecycle = "SUSPENDED"] \in Access!Entries
        /\ [Platform EXCEPT !.public = TRUE, !.requiresTenant = FALSE] \in Access!Entries
    BY <2>1 DEF Access!Entries
  <2>3. Platforms \subseteq Access!Entries
    BY <2>1, <2>2 DEF Platforms
  <2> QED
    BY <2>3, AccessInit DEF PlatformInit, Access!Init
<1>2. Inv /\ [PlatformNext]_platformVars => Inv'
  BY AccessNext, PlatformParts
<1>3. Inv => DenialStands
  BY DEF DenialStands, AccessInv, Access!DenialStands
<1> HIDE DEF Inv
<1> QED
  BY <1>1, <1>2, <1>3, PTL DEF PlatformSpec

-------------------------------------------------------------------------------
(* Agent delegation *)

\* perms were all held later than t.
HeldSince(perms, t) == \A p \in perms : lastHeld[p] # -1 /\ lastHeld[p] > t

\* A user's token was minted when its permissions were held, and an exchange began while
\* such a token was valid.
AgentInv ==
    /\ Agents!TypeOK
    /\ \A p \in Perms : lastHeld[p] <= agentNow /\ (p \in held => lastHeld[p] = agentNow)
    /\ \A i \in DOMAIN token :
         HeldSince(token[i].perms, IF token[i].act THEN token[i].begun - Life
                                   ELSE token[i].exp - Life - 1)
    /\ \A c \in exchange : HeldSince(c.perms, c.begun - Life)

\* A token says what its holder had; an exchange hands on part of that.
Backed(t) == HeldSince(t.perms, IF t.act THEN t.begun - Life ELSE t.exp - Life - 1)

LEMMA AgentInit == Agents!Init => AgentInv
<1> SUFFICES ASSUME Agents!Init PROVE AgentInv
  OBVIOUS
<1>1. 0 \in Agents!Time /\ LongClock \in Nat
  BY PlatformAssumption DEF Agents!Time
<1>2. /\ held \in SUBSET Perms /\ agent \in [allowed : SUBSET Perms, active : {TRUE}] /\ alive = TRUE
      /\ agentNow = 0 /\ token = << >> /\ exchange = {}
      /\ lastHeld = [p \in Perms |-> IF p \in held THEN 0 ELSE -1]
  BY DEF Agents!Init
<1>3. DOMAIN token = {}
  BY <1>2
<1>4. agent \in [allowed : SUBSET Perms, active : BOOLEAN] /\ alive \in BOOLEAN
  BY <1>2
<1>5. lastHeld \in [Perms -> Agents!Time \cup {-1}]
  BY <1>1, <1>2
<1>6. Agents!Cardinality({}) <= 1
  BY OneCardinality, FS_EmptySet
<1>7. Agents!TypeOK
  BY <1>1, <1>2, <1>3, <1>4, <1>5, <1>6 DEF Agents!TypeOK
<1> QED
  BY <1>2, <1>3, <1>7 DEF AgentInv

LEMMA AgentNext == AgentInv /\ [Agents!Next]_agency => AgentInv'
<1> SUFFICES ASSUME AgentInv, [Agents!Next]_agency PROVE AgentInv'
  OBVIOUS
<1>0. /\ held \subseteq Perms /\ agent \in [allowed : SUBSET Perms, active : BOOLEAN]
      /\ alive \in BOOLEAN /\ agentNow \in 0..LongClock
      /\ DOMAIN token \subseteq Things /\ \A i \in DOMAIN token : token[i] \in Agents!TokenRecord
      /\ exchange \subseteq Agents!Exchange /\ Agents!Cardinality(exchange) <= 1
      /\ lastHeld \in [Perms -> (0..LongClock) \cup {-1}]
      /\ LongClock \in Nat /\ Life \in Nat
  BY PlatformAssumption, ConstAssumption DEF AgentInv, Agents!TypeOK, Agents!Time
<1>1. /\ \A p \in Perms : lastHeld[p] <= agentNow /\ (p \in held => lastHeld[p] = agentNow)
      /\ \A i \in DOMAIN token : Backed(token[i])
      /\ \A c \in exchange : HeldSince(c.perms, c.begun - Life)
  BY DEF AgentInv, Backed
<1>2. ASSUME NEW x PROVE Agents!Cardinality({x}) <= 1 /\ Agents!Cardinality({}) <= 1
  <2>1. Agents!Cardinality({x}) = Cardinality({x}) /\ Cardinality({x}) = 1
    BY OneCardinality, FS_Singleton
  <2>2. Agents!Cardinality({}) = Cardinality({}) /\ Cardinality({}) = 0
    BY OneCardinality, FS_EmptySet
  <2> QED
    BY <2>1, <2>2
\* The exchange goes on, or ends.
<1>3. ASSUME NEW new \in Agents!Exchange, HeldSince(new.perms, new.begun - Life), exchange' = {new},
             UNCHANGED <<held, agent, alive, agentNow, token, lastHeld>>
      PROVE  AgentInv'
  <2>1. Agents!TypeOK'
    BY <1>0, <1>2, <1>3 DEF Agents!TypeOK, Agents!Time
  <2> QED
    BY <1>1, <1>3, <2>1 DEF AgentInv, Backed, HeldSince
<1>4. ASSUME exchange' = {}, UNCHANGED <<held, agent, alive, agentNow, token, lastHeld>> PROVE AgentInv'
  <2>1. Agents!TypeOK'
    BY <1>0, <1>2, <1>4 DEF Agents!TypeOK, Agents!Time
  <2> QED
    BY <1>1, <1>4, <2>1 DEF AgentInv, Backed, HeldSince
\* A token is signed.
<1>5. ASSUME NEW act \in BOOLEAN, NEW perms \in SUBSET Perms, NEW begun \in 0..LongClock,
             Agents!MintAccessToken(act, perms, begun), exchange' \in {{}, exchange},
             HeldSince(perms, IF act THEN begun - Life ELSE agentNow - 1),
             UNCHANGED <<held, agent, alive, agentNow, lastHeld>>
      PROVE  AgentInv'
  <2>1. PICK made : made = [act |-> act, perms |-> perms, exp |-> agentNow + Life, begun |-> begun]
    OBVIOUS
  <2>2. PICK i \in Things \ DOMAIN token :
          token' = [j \in DOMAIN token \cup {i} |-> IF j \in DOMAIN token THEN token[j] ELSE made]
    BY <1>5, <2>1 DEF Agents!MintAccessToken
  <2>3. made \in Agents!TokenRecord
    BY <1>0, <2>1 DEF Agents!TokenRecord, Agents!Time
  <2>4. Backed(made)
    BY <1>0, <1>5, <2>1 DEF Backed
  <2>5. /\ DOMAIN token' = DOMAIN token \cup {i}
        /\ \A j \in DOMAIN token : token'[j] = token[j]
        /\ token'[i] = made
    BY <2>2
  <2>6. Agents!TypeOK'
    BY <1>0, <1>2, <1>5, <2>3, <2>5 DEF Agents!TypeOK, Agents!Time
  <2>7. /\ \A j \in DOMAIN token' : Backed(token'[j])
        /\ \A c \in exchange' : HeldSince(c.perms, c.begun - Life)
    BY <1>1, <1>5, <2>4, <2>5
  <2> QED
    BY <1>1, <1>5, <2>6, <2>7 DEF AgentInv, Backed, HeldSince
\* Time passes or roles change: what was held stays so.
<1>6. ASSUME held' \subseteq Perms, agentNow' \in 0..LongClock, agentNow' >= agentNow,
             lastHeld' = [p \in Perms |-> IF p \in held' THEN agentNow' ELSE lastHeld[p]],
             UNCHANGED <<agent, alive, token, exchange>>
      PROVE  AgentInv'
  <2>1. /\ lastHeld' \in [Perms -> (0..LongClock) \cup {-1}]
        /\ \A p \in Perms : /\ lastHeld'[p] <= agentNow' /\ (p \in held' => lastHeld'[p] = agentNow')
                            /\ lastHeld'[p] >= lastHeld[p]
    BY <1>0, <1>1, <1>6
  <2>2. ASSUME NEW perms \in SUBSET Perms, NEW t \in Int, HeldSince(perms, t) PROVE HeldSince(perms, t)'
    BY <1>0, <2>1, <2>2 DEF HeldSince
  <2>3. ASSUME NEW i \in DOMAIN token PROVE Backed(token[i])'
    <3>1. PICK t \in Int : t = IF token[i].act THEN token[i].begun - Life ELSE token[i].exp - Life - 1
      BY <1>0 DEF Agents!TokenRecord, Agents!Time
    <3>2. PICK perms \in SUBSET Perms : perms = token[i].perms
      BY <1>0 DEF Agents!TokenRecord
    <3>3. HeldSince(perms, t)
      BY <1>1, <3>1, <3>2 DEF Backed
    <3>4. HeldSince(perms, t)'
      BY <2>2, <3>3
    <3> QED
      BY <1>6, <3>1, <3>2, <3>4 DEF Backed, HeldSince
  <2>4. ASSUME NEW c \in exchange PROVE HeldSince(c.perms, c.begun - Life)'
    <3>1. c.perms \in SUBSET Perms /\ c.begun - Life \in Int
      BY <1>0 DEF Agents!Exchange, Agents!Time
    <3> QED
      BY <1>1, <2>2, <3>1 DEF HeldSince
  <2>5. Agents!TypeOK'
    BY <1>0, <1>6, <2>1 DEF Agents!TypeOK, Agents!Time
  <2> QED
    BY <1>6, <2>1, <2>3, <2>4, <2>5 DEF AgentInv, Backed, HeldSince
<1>7. CASE Agents!Verify
  <2>1. PICK i \in DOMAIN token :
          /\ agentNow < token[i].exp /\ ~token[i].act
          /\ exchange' = {[pc |-> "session", perms |-> token[i].perms, begun |-> agentNow]}
    BY <1>7 DEF Agents!Verify, Agents!IsSubject
  <2>2. PICK new : new = [pc |-> "session", perms |-> token[i].perms, begun |-> agentNow]
    OBVIOUS
  <2>3. token[i].perms \subseteq Perms /\ token[i].exp \in Int
    BY <1>0 DEF Agents!TokenRecord
  <2>4. new \in Agents!Exchange /\ new.perms = token[i].perms /\ new.begun = agentNow
    BY <1>0, <2>2, <2>3 DEF Agents!Exchange, Agents!Time
  <2>5. HeldSince(new.perms, new.begun - Life)
    BY <1>0, <1>1, <2>1, <2>3, <2>4 DEF Backed, HeldSince
  <2> QED
    BY <1>3, <1>7, <2>1, <2>2, <2>4, <2>5 DEF Agents!Verify
\* A stage further, with some of the permissions.
<1>8. ASSUME NEW c \in exchange, NEW pc \in {"agent", "record", "mint"}, NEW perms \in SUBSET c.perms,
             exchange' = {[c EXCEPT !.pc = pc, !.perms = perms]},
             UNCHANGED <<held, agent, alive, agentNow, token, lastHeld>>
      PROVE  AgentInv'
  <2>1. PICK new : new = [c EXCEPT !.pc = pc, !.perms = perms]
    OBVIOUS
  <2>2. new \in Agents!Exchange /\ new.perms = perms /\ new.begun = c.begun
    BY <1>0, <1>8, <2>1 DEF Agents!Exchange
  <2>3. HeldSince(new.perms, new.begun - Life)
    BY <1>1, <1>8, <2>2 DEF HeldSince
  <2> QED
    BY <1>3, <1>8, <2>1, <2>2, <2>3
<1>9. CASE Agents!ReadSession
  <2>1. PICK c \in exchange : exchange' = IF alive THEN {[c EXCEPT !.pc = "agent"]} ELSE {}
    BY <1>9 DEF Agents!ReadSession
  <2>2. [c EXCEPT !.pc = "agent"] = [c EXCEPT !.pc = "agent", !.perms = c.perms]
    BY <1>0 DEF Agents!Exchange
  <2> QED
    BY <1>4, <1>8, <1>9, <2>1, <2>2 DEF Agents!ReadSession
<1>10. CASE Agents!ReadAgent
  <2>1. PICK c \in exchange :
          exchange' = IF agent.active
                      THEN {[c EXCEPT !.pc = "record", !.perms = Agents!Effective(agent.allowed, c.perms)]}
                      ELSE {}
    BY <1>10 DEF Agents!ReadAgent
  <2>2. Agents!Effective(agent.allowed, c.perms) \in SUBSET c.perms
    BY DEF Agents!Effective
  <2> QED
    BY <1>4, <1>8, <1>10, <2>1, <2>2 DEF Agents!ReadAgent
<1>11. CASE Agents!Record
  <2>1. PICK c \in exchange : exchange' \in {{[c EXCEPT !.pc = "mint"]}, {}}
    BY <1>11 DEF Agents!Record
  <2>2. [c EXCEPT !.pc = "mint"] = [c EXCEPT !.pc = "mint", !.perms = c.perms]
    BY <1>0 DEF Agents!Exchange
  <2> QED
    BY <1>4, <1>8, <1>11, <2>1, <2>2 DEF Agents!Record
<1>12. CASE Agents!MintAgentToken
  <2>1. PICK c \in exchange : Agents!MintAccessToken(TRUE, c.perms, c.begun)
    BY <1>12 DEF Agents!MintAgentToken
  <2>2. c.perms \in SUBSET Perms /\ c.begun \in 0..LongClock
    BY <1>0 DEF Agents!Exchange, Agents!Time
  <2> QED
    BY <1>1, <1>5, <1>12, <2>1, <2>2 DEF Agents!MintAgentToken
<1>13. CASE Agents!MintUserToken
  <2>1. HeldSince(held, agentNow - 1)
    BY <1>0, <1>1 DEF HeldSince
  <2> QED
    BY <1>0, <1>5, <1>13, <2>1 DEF Agents!MintUserToken
<1>14. CASE Agents!SetRoles
  <2>1. /\ held' \in SUBSET Perms /\ lastHeld' = [p \in Perms |-> IF p \in held' THEN agentNow ELSE lastHeld[p]]
        /\ UNCHANGED <<agent, alive, agentNow, token, exchange>>
    BY <1>14 DEF Agents!SetRoles
  <2>2. agentNow' = agentNow /\ agentNow' >= agentNow
    BY <1>0, <2>1
  <2> QED
    BY <1>0, <1>6, <2>1, <2>2
<1>15. CASE Agents!EditAgent
  <2>1. agent' \in [allowed : SUBSET Perms, active : BOOLEAN]
    BY <1>0, <1>15 DEF Agents!EditAgent
  <2>2. UNCHANGED <<held, alive, agentNow, token, exchange, lastHeld>>
    BY <1>15 DEF Agents!EditAgent
  <2>3. Agents!TypeOK'
    BY <1>0, <2>1, <2>2 DEF Agents!TypeOK, Agents!Time
  <2> QED
    BY <1>1, <2>2, <2>3 DEF AgentInv, Backed, HeldSince
<1>16. CASE Agents!EndSession
  <2>1. alive' \in BOOLEAN /\ UNCHANGED <<held, agent, agentNow, token, exchange, lastHeld>>
    BY <1>16 DEF Agents!EndSession
  <2>2. Agents!TypeOK'
    BY <1>0, <2>1 DEF Agents!TypeOK, Agents!Time
  <2> QED
    BY <1>1, <2>1, <2>2 DEF AgentInv, Backed, HeldSince
<1>17. CASE Agents!Tick
  <2>1. /\ agentNow' = agentNow + 1 /\ agentNow < LongClock /\ held' = held
        /\ lastHeld' = [p \in Perms |-> IF p \in held THEN agentNow + 1 ELSE lastHeld[p]]
        /\ UNCHANGED <<agent, alive, token, exchange>>
    BY <1>17 DEF Agents!Tick
  <2>2. agentNow' \in 0..LongClock /\ agentNow' >= agentNow
    BY <1>0, <2>1
  <2> QED
    BY <1>0, <1>6, <2>1, <2>2
<1>18. CASE UNCHANGED agency
  BY <1>18 DEF agency, AgentInv, Agents!TypeOK, HeldSince
<1> QED
  BY <1>7, <1>9, <1>10, <1>11, <1>12, <1>13, <1>14, <1>15, <1>16, <1>17, <1>18 DEF Agents!Next

\* An agent gets no permission that the user had not held within one access token lifetime
\* before the exchange began, through any chain of them (tokenExchangeGrant).
THEOREM DelegationAddsNothing == PlatformSpec => []DelegationBounded
<1> DEFINE Inv == part = "agent" => AgentInv
<1>1. PlatformInit => Inv
  BY AgentInit DEF PlatformInit
<1>2. Inv /\ [PlatformNext]_platformVars => Inv'
  BY AgentNext, PlatformParts
<1>3. Inv => DelegationBounded
  <2>1. AgentInv => Agents!DelegationBounded
    BY DEF AgentInv, HeldSince, Agents!DelegationBounded
  <2> QED
    BY <2>1 DEF DelegationBounded, AgentInv
<1> HIDE DEF Inv
<1> QED
  BY <1>1, <1>2, <1>3, PTL DEF PlatformSpec

-------------------------------------------------------------------------------
(* Provider credentials and caches *)

\* Each value of rows that were read at time t or later is in force, or was overwritten no
\* earlier than t.
ReadSince(values, t) == \A f \in Providers : values[f] # stored[f] => replaced[f][values[f]] >= t

CacheInv ==
    /\ Cache!TypeOK
    /\ \A c \in Slots : get[c].at <= cacheNow /\ (get[c].pc = "keep" => ReadSince(get[c].values, get[c].at))
    /\ \A e \in cache : e.at <= cacheNow /\ ReadSince(e.values, e.at)
    /\ \A e, d \in cache : e = d

CacheTimes == 0..LongClock
CacheGets == [pc : {"idle", "read", "keep"}, at : CacheTimes, values : Cache!Values]

LEMMA CacheIdle == Cache!Idle \in CacheGets /\ Cache!Idle.pc = "idle" /\ Cache!Idle.at = 0
<1>1. PICK none : none = [f \in Providers |-> 0]
  OBVIOUS
<1>2. none \in Cache!Values /\ 0 \in CacheTimes
  BY <1>1, PlatformAssumption DEF Cache!Values, CacheTimes
<1>3. Cache!Idle = [pc |-> "idle", at |-> 0, values |-> none]
  BY <1>1 DEF Cache!Idle
<1> QED
  BY <1>2, <1>3 DEF CacheGets

LEMMA OneEntry == ASSUME NEW x PROVE Cache!Cardinality({x}) <= 1 /\ Cache!Cardinality({}) <= 1
<1>1. Cache!Cardinality({x}) = Cardinality({x}) /\ Cardinality({x}) = 1
  BY OneCardinality, FS_Singleton
<1>2. Cache!Cardinality({}) = Cardinality({}) /\ Cardinality({}) = 0
  BY OneCardinality, FS_EmptySet
<1> QED
  BY <1>1, <1>2

LEMMA CacheInit == Cache!Init => CacheInv
<1> SUFFICES ASSUME Cache!Init PROVE CacheInv
  OBVIOUS
<1>1. /\ stored = [f \in Providers |-> 0] /\ cache = {} /\ get = [c \in Slots |-> Cache!Idle]
      /\ save = {} /\ saves = 0 /\ cacheNow = 0
      /\ replaced = [f \in Providers |-> [v \in 0..MaxSaves |-> -1]]
      /\ MaxSaves \in Nat /\ LongClock \in Nat
  BY PlatformAssumption DEF Cache!Init
<1>2. get \in [Slots -> CacheGets]
  BY <1>1, CacheIdle
<1>3. stored \in Cache!Values /\ replaced \in [Providers -> [0..MaxSaves -> CacheTimes \cup {-1}]]
  BY <1>1 DEF Cache!Values
<1>4. /\ Cache!Cardinality(cache) <= 1 /\ Cache!Cardinality(save) <= 1
      /\ saves \in 0..MaxSaves /\ cacheNow \in CacheTimes
  <2>1. Cache!Cardinality({}) <= 1
    BY OneEntry
  <2> QED
    BY <1>1, <2>1 DEF CacheTimes
<1>5. /\ cache \subseteq [at : CacheTimes, values : Cache!Values]
      /\ save \subseteq [left : SUBSET Providers, here : BOOLEAN]
  BY <1>1
<1>6. Cache!TypeOK
  BY <1>2, <1>3, <1>4, <1>5 DEF Cache!TypeOK, Cache!Time, CacheTimes, CacheGets
<1> QED
  BY <1>1, <1>6, CacheIdle DEF CacheInv

LEMMA CacheNext == CacheInv /\ [Cache!Next]_caching => CacheInv'
<1> SUFFICES ASSUME CacheInv, [Cache!Next]_caching PROVE CacheInv'
  OBVIOUS
<1>0. /\ stored \in Cache!Values /\ stored \in [Providers -> 0..MaxSaves]
      /\ cache \subseteq [at : CacheTimes, values : Cache!Values] /\ Cache!Cardinality(cache) <= 1
      /\ get \in [Slots -> CacheGets]
      /\ save \subseteq [left : SUBSET Providers, here : BOOLEAN] /\ Cache!Cardinality(save) <= 1
      /\ saves \in 0..MaxSaves /\ cacheNow \in CacheTimes
      /\ replaced \in [Providers -> [0..MaxSaves -> CacheTimes \cup {-1}]]
      /\ MaxSaves \in Nat /\ LongClock \in Nat
  BY PlatformAssumption DEF CacheInv, Cache!TypeOK, Cache!Time, Cache!Values, CacheTimes, CacheGets
<1>1. /\ \A c \in Slots : get[c].at <= cacheNow /\ (get[c].pc = "keep" => ReadSince(get[c].values, get[c].at))
      /\ \A e \in cache : e.at <= cacheNow /\ ReadSince(e.values, e.at)
      /\ \A e, d \in cache : e = d
  BY DEF CacheInv
\* A call of get moves, and may leave an entry.
<1>2. ASSUME NEW c \in Slots, NEW new \in CacheGets, get' = [get EXCEPT ![c] = new], new.at <= cacheNow,
             new.pc = "keep" => ReadSince(new.values, new.at),
             UNCHANGED <<stored, save, saves, cacheNow, replaced>>,
             NEW e \in [at : CacheTimes, values : Cache!Values],
             cache' = cache \/ (cache' = {e} /\ e.at <= cacheNow /\ ReadSince(e.values, e.at))
      PROVE  CacheInv'
  <2>1. /\ get' \in [Slots -> CacheGets] /\ get'[c] = new
        /\ \A d \in Slots \ {c} : get'[d] = get[d]
    BY <1>0, <1>2
  <2>2. cache' \subseteq [at : CacheTimes, values : Cache!Values] /\ Cache!Cardinality(cache') <= 1
    BY <1>0, <1>2, OneEntry
  <2>3. Cache!TypeOK'
    BY <1>0, <1>2, <2>1, <2>2 DEF Cache!TypeOK, Cache!Time, CacheTimes, CacheGets
  <2>4. \A d \in Slots : get'[d].at <= cacheNow /\ (get'[d].pc = "keep" => ReadSince(get'[d].values, get'[d].at))
    BY <1>1, <1>2, <2>1
  <2>5. /\ \A d \in cache' : d.at <= cacheNow /\ ReadSince(d.values, d.at)
        /\ \A d, b \in cache' : b = d
    BY <1>1, <1>2
  <2> QED
    BY <1>2, <2>3, <2>4, <2>5 DEF CacheInv, ReadSince
<1>3. PICK e \in [at : CacheTimes, values : Cache!Values] : e = [at |-> cacheNow, values |-> stored]
  BY <1>0
<1>4. ASSUME NEW c \in Slots, Cache!Miss(c) PROVE CacheInv'
  <2>1. PICK new : new = [Cache!Idle EXCEPT !.pc = "read", !.at = cacheNow]
    OBVIOUS
  <2>2. new \in CacheGets /\ new.pc = "read" /\ new.at = cacheNow
    BY <1>0, <2>1, CacheIdle DEF CacheGets
  <2>3. /\ get' = [get EXCEPT ![c] = new] /\ cache' = cache
        /\ UNCHANGED <<stored, save, saves, cacheNow, replaced>>
    BY <1>4, <2>1 DEF Cache!Miss
  <2> QED
    <3>1. new.at <= cacheNow
      BY <1>0, <2>2 DEF CacheTimes
    <3> QED
      BY <1>2, <1>3, <2>2, <2>3, <3>1
<1>5. ASSUME NEW c \in Slots, Cache!ReadRows(c) PROVE CacheInv'
  <2>1. PICK new : new = [get[c] EXCEPT !.pc = "keep", !.values = stored]
    OBVIOUS
  <2>2. new \in CacheGets /\ new.pc = "keep" /\ new.at = get[c].at /\ new.values = stored
    BY <1>0, <2>1 DEF CacheGets
  <2>3. /\ get' = [get EXCEPT ![c] = new] /\ cache' = cache
        /\ UNCHANGED <<stored, save, saves, cacheNow, replaced>>
    BY <1>0, <1>5, <2>1 DEF Cache!ReadRows
  <2>4. new.at <= cacheNow /\ ReadSince(new.values, new.at)
    BY <1>1, <2>2 DEF ReadSince
  <2> QED
    BY <1>2, <1>3, <2>2, <2>3, <2>4
<1>6. ASSUME NEW c \in Slots, Cache!Keep(c) PROVE CacheInv'
  <2>a. PICK d : d = [at |-> get[c].at, values |-> get[c].values]
    OBVIOUS
  <2>1. /\ d \in [at : CacheTimes, values : Cache!Values]
        /\ d = [at |-> get[c].at, values |-> get[c].values] /\ d.at = get[c].at /\ d.values = get[c].values
    BY <1>0, <2>a DEF CacheGets
  <2>2. /\ get' = [get EXCEPT ![c] = Cache!Idle] /\ cache' = {d}
        /\ UNCHANGED <<stored, save, saves, cacheNow, replaced>>
    BY <1>6, <2>1 DEF Cache!Keep
  <2>3. d.at <= cacheNow /\ ReadSince(d.values, d.at)
    BY <1>1, <1>6, <2>1 DEF Cache!Keep
  <2>4. Cache!Idle.at <= cacheNow
    BY <1>0, CacheIdle DEF CacheTimes
  <2> QED
    BY <1>2, <2>1, <2>2, <2>3, <2>4, CacheIdle
<1>7. ASSUME NEW c \in Slots, Cache!Fail(c) PROVE CacheInv'
  <2>1. /\ get' = [get EXCEPT ![c] = Cache!Idle] /\ cache' = cache
        /\ UNCHANGED <<stored, save, saves, cacheNow, replaced>>
    BY <1>7 DEF Cache!Fail
  <2>2. Cache!Idle.at <= cacheNow
    BY <1>0, CacheIdle DEF CacheTimes
  <2> QED
    BY <1>2, <1>3, <2>1, <2>2, CacheIdle
\* A save changes what it has left to do and the entry, if at all, is dropped.
<1>8. ASSUME save' \subseteq [left : SUBSET Providers, here : BOOLEAN], Cache!Cardinality(save') <= 1,
             saves' \in 0..MaxSaves, cache' \in {cache, {}}, UNCHANGED <<stored, get, cacheNow, replaced>>
      PROVE  CacheInv'
  <2>1. Cache!TypeOK'
    BY <1>0, <1>8, OneEntry DEF Cache!TypeOK, Cache!Time, CacheTimes, CacheGets
  <2> QED
    BY <1>1, <1>8, <2>1 DEF CacheInv, ReadSince
<1>9. CASE Cache!BeginSave
  <2>1. PICK fs \in SUBSET Providers, here \in BOOLEAN : save' = {[left |-> fs, here |-> here]}
    BY <1>9 DEF Cache!BeginSave
  <2>2. saves' \in 0..MaxSaves /\ UNCHANGED <<stored, cache, get, cacheNow, replaced>>
    BY <1>0, <1>9 DEF Cache!BeginSave
  <2>3. save' \subseteq [left : SUBSET Providers, here : BOOLEAN] /\ Cache!Cardinality(save') <= 1
    <3>1. [left |-> fs, here |-> here] \in [left : SUBSET Providers, here : BOOLEAN]
      OBVIOUS
    <3>2. Cache!Cardinality(save') <= 1
      BY <2>1, OneEntry
    <3> QED
      BY <2>1, <3>1, <3>2
  <2> QED
    BY <1>8, <2>2, <2>3
<1>10. CASE Cache!Upsert
  <2>1. PICK s \in save : \E f \in s.left :
          /\ stored' = [stored EXCEPT ![f] = saves]
          /\ replaced' = [replaced EXCEPT ![f][stored[f]] = cacheNow]
          /\ save' = {[s EXCEPT !.left = s.left \ {f}]}
    BY <1>10 DEF Cache!Upsert
  <2>2. PICK f \in s.left :
          /\ stored' = [stored EXCEPT ![f] = saves]
          /\ replaced' = [replaced EXCEPT ![f][stored[f]] = cacheNow]
          /\ save' = {[s EXCEPT !.left = s.left \ {f}]}
    BY <2>1
  <2>3. f \in Providers /\ stored[f] \in 0..MaxSaves
    BY <1>0
  <2>4. UNCHANGED <<cache, get, saves, cacheNow>>
    BY <1>10 DEF Cache!Upsert
  <2>5. PICK row : row = [replaced[f] EXCEPT ![stored[f]] = cacheNow]
    OBVIOUS
  <2>6. replaced' = [replaced EXCEPT ![f] = row]
    BY <2>2, <2>5
  <2>7. /\ row \in [0..MaxSaves -> CacheTimes \cup {-1}] /\ row[stored[f]] = cacheNow
        /\ \A v \in 0..MaxSaves : v # stored[f] => row[v] = replaced[f][v]
    BY <1>0, <2>3, <2>5
  <2>8. /\ replaced' \in [Providers -> [0..MaxSaves -> CacheTimes \cup {-1}]] /\ replaced'[f] = row
        /\ \A g \in Providers \ {f} : replaced'[g] = replaced[g]
    BY <1>0, <2>3, <2>6, <2>7
  <2>9. /\ stored' \in [Providers -> 0..MaxSaves] /\ stored'[f] = saves
        /\ \A g \in Providers \ {f} : stored'[g] = stored[g]
    BY <1>0, <2>2, <2>3
  <2>10. save' \subseteq [left : SUBSET Providers, here : BOOLEAN]
    BY <1>0, <2>2
  <2>11. Cache!TypeOK'
    BY <1>0, <2>2, <2>4, <2>8, <2>9, <2>10, OneEntry
    DEF Cache!TypeOK, Cache!Time, Cache!Values, CacheTimes, CacheGets
  \* What this save replaces was read before now.
  <2>12. ASSUME NEW values \in [Providers -> 0..MaxSaves], NEW t \in CacheTimes, t <= cacheNow,
                ReadSince(values, t)
         PROVE  ReadSince(values, t)'
    <3>1. ASSUME NEW g \in Providers, values[g] # stored'[g] PROVE replaced'[g][values[g]] >= t
      <4>1. CASE g # f
        BY <2>8, <2>9, <2>12, <3>1, <4>1 DEF ReadSince
      <4>2. CASE g = f /\ values[g] = stored[f]
        BY <2>7, <2>8, <2>12, <4>2
      <4>3. CASE g = f /\ values[g] # stored[f]
        <5>1. values[g] \in 0..MaxSaves
          BY <2>12
        <5> QED
          BY <2>7, <2>8, <2>12, <4>3, <5>1 DEF ReadSince
      <4> QED
        BY <4>1, <4>2, <4>3
    <3> QED
      BY <3>1 DEF ReadSince
  <2>13. ASSUME NEW c \in Slots, get[c].pc = "keep" PROVE ReadSince(get[c].values, get[c].at)'
    <3>1. PICK values \in [Providers -> 0..MaxSaves], t \in CacheTimes :
            values = get[c].values /\ t = get[c].at
      BY <1>0 DEF CacheGets, Cache!Values
    <3>2. t <= cacheNow /\ ReadSince(values, t)
      BY <1>1, <2>13, <3>1
    <3>3. ReadSince(values, t)'
      BY <2>12, <3>2
    <3> QED
      BY <2>4, <3>1, <3>3 DEF ReadSince
  <2>14. ASSUME NEW d \in cache PROVE ReadSince(d.values, d.at)'
    <3>1. PICK values \in [Providers -> 0..MaxSaves], t \in CacheTimes : values = d.values /\ t = d.at
      BY <1>0 DEF Cache!Values
    <3>2. t <= cacheNow /\ ReadSince(values, t)
      BY <1>1, <3>1
    <3>3. ReadSince(values, t)'
      BY <2>12, <3>2
    <3> QED
      BY <3>1, <3>3 DEF ReadSince
  <2> QED
    BY <1>1, <2>4, <2>11, <2>13, <2>14 DEF CacheInv, ReadSince
<1>11. CASE Cache!UpsertThrows
  BY <1>0, <1>8, <1>11, OneEntry DEF Cache!UpsertThrows
<1>12. CASE Cache!DropEntry
  BY <1>0, <1>8, <1>12, OneEntry DEF Cache!DropEntry
<1>13. CASE Cache!Tick
  <2>1. /\ cacheNow' \in CacheTimes /\ cacheNow' >= cacheNow
        /\ UNCHANGED <<stored, cache, get, save, saves, replaced>>
    BY <1>0, <1>13 DEF Cache!Tick, CacheTimes
  <2>2. Cache!TypeOK'
    BY <1>0, <2>1 DEF Cache!TypeOK, Cache!Time, CacheTimes, CacheGets
  <2>3. /\ \A c \in Slots : get[c].at <= cacheNow'
        /\ \A d \in cache : d.at <= cacheNow'
    BY <1>0, <1>1, <2>1 DEF CacheGets, CacheTimes
  <2> QED
    BY <1>1, <2>1, <2>2, <2>3 DEF CacheInv, ReadSince
<1>14. CASE UNCHANGED caching
  BY <1>14 DEF caching, CacheInv, Cache!TypeOK, ReadSince
<1> QED
  BY <1>4, <1>5, <1>6, <1>7, <1>9, <1>10, <1>11, <1>12, <1>13, <1>14 DEF Cache!Next

\* A value that was overwritten is served from the cache for no longer than the TTL,
\* however slow reads and saves overlap (get, set).
THEOREM StaleValuesFade == PlatformSpec => []StaleWithinTTL
<1> DEFINE Inv == part = "cache" => CacheInv
<1>1. PlatformInit => Inv
  BY CacheInit DEF PlatformInit
<1>2. Inv /\ [PlatformNext]_platformVars => Inv'
  BY CacheNext, PlatformParts
<1>3. CacheInv => Cache!StaleWithinTTL
  <2> SUFFICES ASSUME CacheInv, NEW e \in cache, NEW f \in Providers, Cache!Hit, e.values[f] # stored[f]
               PROVE  cacheNow - replaced[f][e.values[f]] < TTL
    BY DEF Cache!StaleWithinTTL
  <2>1. cacheNow - e.at < TTL /\ replaced[f][e.values[f]] >= e.at
    BY DEF CacheInv, Cache!Hit, ReadSince
  <2>2. /\ cacheNow \in Int /\ e.at \in Int /\ e.values[f] \in 0..MaxSaves
        /\ replaced[f] \in [0..MaxSaves -> CacheTimes \cup {-1}]
    BY DEF CacheInv, Cache!TypeOK, Cache!Time, Cache!Values, CacheTimes
  <2>3. replaced[f][e.values[f]] \in Int
    <3>1. replaced[f][e.values[f]] \in CacheTimes \cup {-1}
      BY <2>2
    <3> QED
      BY <3>1 DEF CacheTimes
  <2> QED
    BY <2>1, <2>2, <2>3, PlatformAssumption
<1>4. Inv => StaleWithinTTL
  BY <1>3 DEF StaleWithinTTL, CacheInv
<1> HIDE DEF Inv
<1> QED
  BY <1>1, <1>2, <1>4, PTL DEF PlatformSpec

-------------------------------------------------------------------------------
(* Request guards and middleware *)

\* The guards a request has behind it, by the stage it is at.
PastPrincipal == {"roles", "controlPlane", "app", "write", "served"}
PastGate == PastPrincipal \cup {"principal"}
PastRoles == {"controlPlane", "app", "write", "served"}

\* What the gate has found of the module, and when.
GateFound(r) ==
    /\ r.at \in {"query", "reply"} => r.asked # None /\ r.asked <= guardsNow
    /\ r.at = "reply" /\ r.found => r.fresh /\ lastActive # None /\ lastActive >= r.asked
    /\ r.at \in PastGate /\ r.route.gated /\ r.bearer /\ ~r.open => r.fresh

\* What the guards behind the request have found: it was so at some moment.
GuardsFound(r) ==
    /\ r.at # "idle" => r.route \in RoutesAsked
    /\ r.at \in PastPrincipal => r.route.principal \in r.seen
    /\ r.at \in {"roles", "controlPlane"} => r.route.principal = "session"
    /\ r.at \in PastRoles => r.route.required \subseteq r.seen
    /\ r.at \in {"app", "write", "served"} /\ r.route.crossTenant => r.route.required = {"platformCode"}
    /\ r.at \in {"write", "served"} /\ r.route.gated => "installed" \in r.seen
    /\ r.at = "served" /\ r.route.writes => "writable" \in r.seen

\* A request on its way keeps in mind what its route asks for and now is so.
Minds(r) == r.at \notin {"idle", "served"} => Guards!Asked(r.route) \cap Guards!Holding \subseteq r.seen

\* When the module was last active, as the rows and the gate's entry know.
ActiveKnown ==
    /\ "active" \in rows => lastActive = guardsNow
    /\ lastActive # None => lastActive <= guardsNow
    /\ installs # None /\ installs.installed => lastActive # None /\ lastActive >= installs.at

GuardInv == Guards!TypeOK /\ ActiveKnown /\ GateFound(guarded) /\ GuardsFound(guarded) /\ Minds(guarded)

LEMMA RoutesTyped ==
    ASSUME NEW r \in RoutesAsked
    PROVE  r \in Guards!Route /\ (r.principal = "key" => r.required = {} /\ ~r.crossTenant)
<1>1. ASSUME NEW principal \in {"session", "key"}, NEW required \in SUBSET Guards!Permissions,
             NEW crossTenant \in BOOLEAN, NEW gated \in BOOLEAN, NEW writes \in BOOLEAN
      PROVE  LET made == R(principal, required, crossTenant, gated, writes)
             IN  /\ made \in Guards!Route /\ made.principal = principal /\ made.required = required
                 /\ made.crossTenant = crossTenant
  BY DEF R, Guards!Route
<1>2. {} \in SUBSET Guards!Permissions /\ {"tenantCode"} \in SUBSET Guards!Permissions
      /\ {"platformCode"} \in SUBSET Guards!Permissions
      /\ {"tenantCode", "platformCode"} \in SUBSET Guards!Permissions
  BY DEF Guards!Permissions
<1>3. CASE r = R("key", {}, FALSE, TRUE, TRUE)
  BY <1>1, <1>2, <1>3
<1>4. CASE \E required \in SUBSET Guards!Permissions, crossTenant \in BOOLEAN, gated \in BOOLEAN,
              writes \in BOOLEAN : r = R("session", required, crossTenant, gated, writes)
  BY <1>1, <1>4
<1> QED
  BY <1>2, <1>3, <1>4 DEF RoutesAsked

LEMMA GuardInit == Guards!Init => GuardInv
<1> SUFFICES ASSUME Guards!Init PROVE GuardInv
  OBVIOUS
<1>1. /\ rows \subseteq Guards!Facts /\ tenant \in Guards!Tenant /\ installs = None
      /\ guarded = Guards!Idle /\ guardsNow = 0 /\ guardsEdits = 0
      /\ lastActive = IF "active" \in rows THEN 0 ELSE None
      /\ MaxEdits \in Nat /\ LongClock \in Nat
  BY PlatformAssumption DEF Guards!Init
<1>2. guarded \in Guards!Request /\ guarded.at = "idle"
  <2>1. Guards!NoRoute \in Guards!Route
    BY DEF Guards!NoRoute, Guards!Route
  <2> QED
    BY <1>1, <2>1 DEF Guards!Idle, Guards!Request, Guards!Stages
<1>3. Guards!TypeOK
  BY <1>1, <1>2 DEF Guards!TypeOK
<1>4. ActiveKnown
  BY <1>1 DEF ActiveKnown
<1> QED
  BY <1>2, <1>3, <1>4 DEF GuardInv, GateFound, GuardsFound, Minds, PastGate, PastPrincipal, PastRoles

LEMMA GuardNext == GuardInv /\ [Guards!Next]_guards => GuardInv'
<1> SUFFICES ASSUME GuardInv, [Guards!Next]_guards PROVE GuardInv'
  OBVIOUS
<1>0. /\ rows \subseteq Guards!Facts /\ tenant \in Guards!Tenant
      /\ installs = None \/ installs \in [installed : BOOLEAN, at : 0..LongClock]
      /\ guarded \in Guards!Request /\ guardsNow \in 0..LongClock /\ guardsEdits \in 0..MaxEdits
      /\ lastActive \in {None} \cup 0..LongClock
      /\ MaxEdits \in Nat /\ LongClock \in Nat /\ TTL \in Nat \ {0} /\ None \notin 0..LongClock
  BY PlatformAssumption DEF GuardInv, Guards!TypeOK
<1>1. ActiveKnown /\ GateFound(guarded) /\ GuardsFound(guarded) /\ Minds(guarded)
  BY DEF GuardInv
\* Only the request moves.
<1>2. ASSUME NEW new \in Guards!Request, guarded' = new, Guards!Rest,
             GateFound(new), GuardsFound(new), Minds(new)
      PROVE  GuardInv'
  <2>1. UNCHANGED <<rows, tenant, installs, guardsNow, guardsEdits, lastActive>>
    BY <1>2 DEF Guards!Rest
  <2>2. Guards!TypeOK'
    BY <1>0, <1>2, <2>1 DEF Guards!TypeOK
  <2>3. ActiveKnown'
    BY <1>1, <2>1 DEF ActiveKnown
  <2>4. GateFound(guarded)' /\ GuardsFound(guarded)'
    BY <1>2, <2>1 DEF GateFound, GuardsFound
  <2>5. Minds(guarded)'
    BY <1>2, <2>1 DEF Minds, Guards!Holding, Guards!Writable
  <2> QED
    BY <2>2, <2>3, <2>4, <2>5 DEF GuardInv
\* A request that is turned away.
<1>3. /\ Guards!Idle \in Guards!Request
      /\ GateFound(Guards!Idle) /\ GuardsFound(Guards!Idle) /\ Minds(Guards!Idle)
  <2>1. Guards!NoRoute \in Guards!Route
    BY DEF Guards!NoRoute, Guards!Route
  <2>2. Guards!Idle \in Guards!Request /\ Guards!Idle.at = "idle"
    BY <2>1 DEF Guards!Idle, Guards!Request, Guards!Stages
  <2> QED
    BY <2>2 DEF GateFound, GuardsFound, Minds, PastGate, PastPrincipal, PastRoles
<1>4. ASSUME Guards!Refuse, Guards!Rest PROVE GuardInv'
  BY <1>2, <1>3, <1>4 DEF Guards!Refuse
\* A request that goes on, with one guard more behind it.
<1>5. ASSUME NEW at \in Guards!Stages, at # "idle", guarded.at \notin {"idle", "served"},
             Guards!Goto(at)
      PROVE  \E new \in Guards!Request :
               /\ guarded' = new /\ new.at = at /\ new.route = guarded.route /\ new.bearer = guarded.bearer
               /\ new.asked = guarded.asked /\ new.found = guarded.found /\ new.open = guarded.open
               /\ new.seen = guarded.seen /\ new.fresh = guarded.fresh /\ Minds(new)
               /\ new.route \in RoutesAsked
  <2>1. PICK new : new = [guarded EXCEPT !.at = at]
    OBVIOUS
  <2>2. /\ new \in Guards!Request /\ new.at = at /\ new.route = guarded.route /\ new.bearer = guarded.bearer
        /\ new.asked = guarded.asked /\ new.found = guarded.found /\ new.open = guarded.open
        /\ new.seen = guarded.seen /\ new.fresh = guarded.fresh
    BY <1>0, <1>5, <2>1 DEF Guards!Request
  <2>3. Minds(new) /\ new.route \in RoutesAsked
    BY <1>1, <1>5, <2>2 DEF Minds, GuardsFound
  <2> QED
    BY <1>5, <2>1, <2>2, <2>3 DEF Guards!Goto
<1>6. CASE Guards!Arrive
  <2>1. PICK route \in RoutesAsked, bearer \in BOOLEAN :
          guarded' = [Guards!Idle EXCEPT !.at = "csrf", !.route = route, !.bearer = bearer,
                                         !.seen = Guards!Asked(route) \cap Guards!Holding]
    BY <1>6 DEF Guards!Arrive
  <2>2. PICK seen1 : seen1 = Guards!Asked(route) \cap Guards!Holding
    OBVIOUS
  <2>3. seen1 \subseteq Guards!Facts \cup {"writable"}
    BY <1>0, <2>2 DEF Guards!Holding
  <2>4. PICK new : new = [Guards!Idle EXCEPT !.at = "csrf", !.route = route, !.bearer = bearer,
                                             !.seen = seen1]
    OBVIOUS
  <2>5. new \in Guards!Request /\ new.at = "csrf" /\ new.route = route /\ new.seen = seen1
    BY <1>3, <2>3, <2>4, RoutesTyped DEF Guards!Request, Guards!Stages
  <2>6. GateFound(new) /\ GuardsFound(new) /\ Minds(new)
    BY <2>2, <2>5 DEF GateFound, GuardsFound, Minds, PastGate, PastPrincipal, PastRoles
  <2> QED
    BY <1>2, <1>6, <2>1, <2>2, <2>4, <2>5, <2>6 DEF Guards!Arrive
<1>7. CASE Guards!CheckCsrf
  <2>1. guarded.at = "csrf" /\ Guards!Rest /\ (Guards!Goto("gate") \/ Guards!Refuse)
    BY <1>7 DEF Guards!CheckCsrf, Guards!Check
  <2>2. CASE Guards!Goto("gate")
    <3>1. PICK new \in Guards!Request :
            /\ guarded' = new /\ new.at = "gate" /\ Minds(new) /\ new.route \in RoutesAsked
      BY <1>5, <2>1, <2>2 DEF Guards!Stages
    <3> QED
      BY <1>2, <2>1, <3>1 DEF GateFound, GuardsFound, PastGate, PastPrincipal, PastRoles
  <2> QED
    BY <1>4, <2>1, <2>2
<1>8. CASE Guards!Gate
  <2>1. guarded.at = "gate" /\ Guards!Rest
    BY <1>8 DEF Guards!Gate
  <2>2. CASE ~guarded.route.gated \/ ~guarded.bearer
    <3>1. PICK new \in Guards!Request :
            /\ guarded' = new /\ new.at = "principal" /\ Minds(new) /\ new.route \in RoutesAsked
            /\ new.route = guarded.route /\ new.bearer = guarded.bearer
      BY <1>5, <1>8, <2>1, <2>2 DEF Guards!Gate, Guards!Stages
    <3> QED
      BY <1>2, <2>1, <2>2, <3>1 DEF GateFound, GuardsFound, PastGate, PastPrincipal, PastRoles
  <2>3. CASE /\ guarded.route.gated /\ guarded.bearer
             /\ installs # None /\ guardsNow - installs.at < TTL /\ installs.installed
    <3>1. Guards!Fresh
      BY <1>0, <1>1, <2>3 DEF Guards!Fresh, ActiveKnown
    <3>2. PICK fresh \in BOOLEAN : fresh = Guards!Fresh
      BY DEF Guards!Fresh
    <3>3. PICK new : new = [guarded EXCEPT !.at = "principal", !.fresh = fresh]
      OBVIOUS
    <3>4. /\ new \in Guards!Request /\ new.at = "principal" /\ new.fresh /\ new.route = guarded.route
          /\ new.seen = guarded.seen
      BY <1>0, <3>1, <3>2, <3>3 DEF Guards!Request, Guards!Stages
    <3>5. guarded' = new
      BY <1>8, <2>3, <3>2, <3>3 DEF Guards!Gate
    <3>6. GateFound(new) /\ GuardsFound(new) /\ Minds(new)
      BY <1>1, <2>1, <3>4 DEF GateFound, GuardsFound, Minds, PastGate, PastPrincipal, PastRoles
    <3> QED
      BY <1>2, <2>1, <3>4, <3>5, <3>6
  <2>4. CASE /\ guarded.route.gated /\ guarded.bearer
             /\ installs # None /\ guardsNow - installs.at < TTL /\ ~installs.installed
    BY <1>4, <1>8, <2>1, <2>4 DEF Guards!Gate
  <2>5. CASE guarded.route.gated /\ guarded.bearer /\ ~(installs # None /\ guardsNow - installs.at < TTL)
    <3>1. PICK new : new = [guarded EXCEPT !.at = "query", !.asked = guardsNow]
      OBVIOUS
    <3>2. /\ new \in Guards!Request /\ new.at = "query" /\ new.asked = guardsNow
          /\ new.route = guarded.route /\ new.seen = guarded.seen
      BY <1>0, <3>1 DEF Guards!Request, Guards!Stages
    <3>3. guarded' = new
      BY <1>8, <2>5, <3>1 DEF Guards!Gate
    <3>4. GateFound(new) /\ GuardsFound(new) /\ Minds(new)
      BY <1>0, <1>1, <2>1, <3>2 DEF GateFound, GuardsFound, Minds, PastGate, PastPrincipal, PastRoles
    <3> QED
      BY <1>2, <2>1, <3>2, <3>3, <3>4
  <2> QED
    BY <2>2, <2>3, <2>4, <2>5
<1>9. CASE Guards!ReadInstalled
  <2>1. guarded.at = "query" /\ Guards!Rest
    BY <1>9 DEF Guards!ReadInstalled
  <2>2. PICK found : found \in BOOLEAN /\ found = ("active" \in rows)
    <3>1. ("active" \in rows) \in BOOLEAN
      OBVIOUS
    <3> QED
      BY <3>1, Zenon
  <2>8. PICK fresh : fresh \in BOOLEAN /\ fresh = Guards!Fresh
    BY DEF Guards!Fresh
  <2>3. PICK new : new = [guarded EXCEPT !.at = "reply", !.found = found, !.fresh = fresh]
    OBVIOUS
  <2>4. /\ new \in Guards!Request /\ new.at = "reply" /\ new.found = found /\ new.fresh = fresh
        /\ new.route = guarded.route /\ new.seen = guarded.seen /\ new.asked = guarded.asked
    BY <1>0, <2>2, <2>3, <2>8 DEF Guards!Request, Guards!Stages
  <2>5. found => fresh /\ lastActive # None /\ lastActive = guardsNow
    <3> SUFFICES ASSUME found PROVE fresh /\ lastActive # None /\ lastActive = guardsNow
      OBVIOUS
    <3>1. lastActive = guardsNow
      BY <1>1, <2>2 DEF ActiveKnown
    <3>2. lastActive # None /\ guardsNow - lastActive < TTL
      BY <1>0, <3>1
    <3> QED
      BY <2>8, <3>1, <3>2 DEF Guards!Fresh
  <2>6. guarded' = new
    BY <1>9, <2>2, <2>3, <2>8 DEF Guards!ReadInstalled
  <2>7. GateFound(new) /\ GuardsFound(new) /\ Minds(new)
    BY <1>0, <1>1, <2>1, <2>4, <2>5 DEF GateFound, GuardsFound, Minds, PastGate, PastPrincipal, PastRoles
  <2> QED
    BY <1>2, <2>1, <2>4, <2>6, <2>7
<1>10. CASE Guards!KeepInstalled
  <2>1. /\ guarded.at = "reply" /\ installs' = [installed |-> guarded.found, at |-> guarded.asked]
        /\ UNCHANGED <<rows, tenant, guardsNow, guardsEdits, lastActive>>
    BY <1>10 DEF Guards!KeepInstalled
  <2>2. PICK entry1 : entry1 = [installed |-> guarded.found, at |-> guarded.asked]
    OBVIOUS
  <2>3. /\ entry1 \in [installed : BOOLEAN, at : 0..LongClock]
        /\ entry1.installed = guarded.found /\ entry1.at = guarded.asked
    BY <1>0, <1>1, <2>1, <2>2 DEF GateFound, Guards!Request
  <2>4. ActiveKnown'
    BY <1>1, <2>1, <2>2, <2>3 DEF ActiveKnown, GateFound
  <2>5. \E new \in Guards!Request : guarded' = new /\ GateFound(new) /\ GuardsFound(new) /\ Minds(new)
    <3>1. CASE guarded.found
      <4>1. PICK new \in Guards!Request :
              /\ guarded' = new /\ new.at = "principal" /\ Minds(new) /\ new.route \in RoutesAsked
              /\ new.fresh = guarded.fresh
        BY <1>5, <1>10, <2>1, <3>1 DEF Guards!KeepInstalled, Guards!Check, Guards!Stages
      <4> QED
        BY <1>1, <2>1, <3>1, <4>1 DEF GateFound, GuardsFound, PastGate, PastPrincipal, PastRoles
    <3>2. CASE ~guarded.found
      BY <1>3, <1>10, <3>2 DEF Guards!KeepInstalled, Guards!Check, Guards!Refuse
    <3> QED
      BY <3>1, <3>2
  <2>6. PICK new \in Guards!Request : guarded' = new /\ GateFound(new) /\ GuardsFound(new) /\ Minds(new)
    BY <2>5
  <2>7. Guards!TypeOK'
    BY <1>0, <2>1, <2>2, <2>3, <2>6 DEF Guards!TypeOK
  <2>8. GateFound(guarded)' /\ GuardsFound(guarded)' /\ Minds(guarded)'
    BY <2>1, <2>6 DEF GateFound, GuardsFound, Minds, Guards!Holding, Guards!Writable
  <2> QED
    BY <2>4, <2>7, <2>8 DEF GuardInv
<1>11. CASE Guards!FailOpen
  <2>1. guarded.at = "query" /\ Guards!Rest
    BY <1>11 DEF Guards!FailOpen
  <2>2. PICK new : new = [guarded EXCEPT !.at = "principal", !.open = TRUE]
    OBVIOUS
  <2>3. /\ new \in Guards!Request /\ new.at = "principal" /\ new.open /\ new.route = guarded.route
        /\ new.seen = guarded.seen
    BY <1>0, <2>2 DEF Guards!Request, Guards!Stages
  <2>4. guarded' = new
    BY <1>11, <2>2 DEF Guards!FailOpen
  <2>5. GateFound(new) /\ GuardsFound(new) /\ Minds(new)
    BY <1>1, <2>1, <2>3 DEF GateFound, GuardsFound, Minds, PastGate, PastPrincipal, PastRoles
  <2> QED
    BY <1>2, <2>1, <2>3, <2>4, <2>5
\* What holds now and the route asks for is minded; what is past the gate has its word.
<1>12. ASSUME NEW f, f \in Guards!Asked(guarded.route), f \in Guards!Holding,
              guarded.at \notin {"idle", "served"}
       PROVE  f \in guarded.seen
  BY <1>1, <1>12 DEF Minds
<1>13. ASSUME NEW at \in PastPrincipal, guarded.at \in PastGate, guarded.at # "served",
              Guards!Goto(at), Guards!Rest
       PROVE  \E new \in Guards!Request :
                /\ guarded' = new /\ new.at = at /\ new.route = guarded.route /\ new.seen = guarded.seen
                /\ Minds(new) /\ GateFound(new) /\ new.route \in RoutesAsked
  <2>1. PICK new \in Guards!Request :
               /\ guarded' = new /\ new.at = at /\ new.route = guarded.route /\ new.bearer = guarded.bearer
               /\ new.open = guarded.open /\ new.route \in RoutesAsked
               /\ new.seen = guarded.seen /\ new.fresh = guarded.fresh /\ Minds(new)
    BY <1>5, <1>13 DEF PastGate, PastPrincipal, Guards!Stages
  <2>2. GateFound(new)
    BY <1>1, <1>13, <2>1 DEF GateFound, PastGate, PastPrincipal
  <2> QED
    BY <2>1, <2>2
<1>14. CASE Guards!CheckPrincipal
  <2>1. guarded.at = "principal" /\ Guards!Rest
    BY <1>14 DEF Guards!CheckPrincipal
  <2>2. CASE Guards!Refuse
    BY <1>4, <2>1, <2>2
  <2>3. CASE /\ guarded.route.principal \in rows
             /\ Guards!Goto(IF guarded.route.principal = "key" THEN "app" ELSE "roles")
    <3>1. PICK at \in {"app", "roles"} : at = IF guarded.route.principal = "key" THEN "app" ELSE "roles"
      OBVIOUS
    <3>2. PICK new \in Guards!Request :
            /\ guarded' = new /\ new.at = at /\ new.route = guarded.route /\ new.seen = guarded.seen
            /\ Minds(new) /\ GateFound(new) /\ new.route \in RoutesAsked
      BY <1>13, <2>1, <2>3, <3>1 DEF PastGate, PastPrincipal
    <3>3. guarded.route.principal \in guarded.seen
      BY <1>12, <2>1, <2>3 DEF Guards!Asked, Guards!Holding
    <3>4. /\ guarded.route.principal \in {"session", "key"}
          /\ guarded.route.principal = "key" => guarded.route.required = {} /\ ~guarded.route.crossTenant
      BY <3>2, RoutesTyped DEF Guards!Route
    <3>5. GuardsFound(new)
      BY <3>1, <3>2, <3>3, <3>4 DEF GuardsFound, PastPrincipal, PastRoles
    <3> QED
      BY <1>2, <2>1, <3>2, <3>5
  <2> QED
    BY <1>14, <2>2, <2>3 DEF Guards!CheckPrincipal, Guards!Check
<1>15. CASE Guards!CheckRoles
  <2>1. guarded.at = "roles" /\ Guards!Rest
    BY <1>15 DEF Guards!CheckRoles
  <2>2. CASE Guards!Refuse
    BY <1>4, <2>1, <2>2
  <2>3. CASE guarded.route.required \subseteq rows /\ Guards!Goto("controlPlane")
    <3>1. PICK new \in Guards!Request :
            /\ guarded' = new /\ new.at = "controlPlane" /\ new.route = guarded.route /\ new.seen = guarded.seen
            /\ Minds(new) /\ GateFound(new) /\ new.route \in RoutesAsked
      BY <1>13, <2>1, <2>3 DEF PastGate, PastPrincipal
    <3>2. guarded.route.required \subseteq guarded.seen
      BY <1>12, <2>1, <2>3 DEF Guards!Asked, Guards!Holding
    <3>3. GuardsFound(new)
      BY <1>1, <2>1, <3>1, <3>2 DEF GuardsFound, PastPrincipal, PastRoles
    <3> QED
      BY <1>2, <2>1, <3>1, <3>3
  <2> QED
    BY <1>15, <2>2, <2>3 DEF Guards!CheckRoles, Guards!Check
<1>16. CASE Guards!CheckControlPlane
  <2>1. guarded.at = "controlPlane" /\ Guards!Rest
    BY <1>16 DEF Guards!CheckControlPlane
  <2>2. CASE Guards!Refuse
    BY <1>4, <2>1, <2>2
  <2>3. CASE /\ guarded.route.crossTenant => /\ guarded.route.required # {}
                                             /\ "tenantCode" \notin guarded.route.required
             /\ Guards!Goto("app")
    <3>1. PICK new \in Guards!Request :
            /\ guarded' = new /\ new.at = "app" /\ new.route = guarded.route /\ new.seen = guarded.seen
            /\ Minds(new) /\ GateFound(new) /\ new.route \in RoutesAsked
      BY <1>13, <2>1, <2>3 DEF PastGate, PastPrincipal
    <3>2. guarded.route.crossTenant => guarded.route.required = {"platformCode"}
      BY <2>3, <3>1, RoutesTyped DEF Guards!Route, Guards!Permissions
    <3>3. GuardsFound(new)
      BY <1>1, <2>1, <3>1, <3>2 DEF GuardsFound, PastPrincipal, PastRoles
    <3> QED
      BY <1>2, <2>1, <3>1, <3>3
  <2> QED
    BY <1>16, <2>2, <2>3 DEF Guards!CheckControlPlane, Guards!Check
<1>17. CASE Guards!CheckApp
  <2>1. guarded.at = "app" /\ Guards!Rest
    BY <1>17 DEF Guards!CheckApp
  <2>2. CASE Guards!Refuse
    BY <1>4, <2>1, <2>2
  <2>3. CASE (guarded.route.gated => "installed" \in rows) /\ Guards!Goto("write")
    <3>1. PICK new \in Guards!Request :
            /\ guarded' = new /\ new.at = "write" /\ new.route = guarded.route /\ new.seen = guarded.seen
            /\ Minds(new) /\ GateFound(new) /\ new.route \in RoutesAsked
      BY <1>13, <2>1, <2>3 DEF PastGate, PastPrincipal
    <3>2. guarded.route.gated => "installed" \in guarded.seen
      BY <1>12, <2>1, <2>3 DEF Guards!Asked, Guards!Holding
    <3>3. GuardsFound(new)
      BY <1>1, <2>1, <3>1, <3>2 DEF GuardsFound, PastPrincipal, PastRoles
    <3> QED
      BY <1>2, <2>1, <3>1, <3>3
  <2> QED
    BY <1>17, <2>2, <2>3 DEF Guards!CheckApp, Guards!Check
<1>18. CASE Guards!CheckWritable
  <2>1. guarded.at = "write" /\ Guards!Rest
    BY <1>18 DEF Guards!CheckWritable
  <2>2. CASE Guards!Refuse
    BY <1>4, <2>1, <2>2
  <2>3. CASE (guarded.route.writes => Guards!Writable) /\ Guards!Goto("served")
    <3>1. PICK new \in Guards!Request :
            /\ guarded' = new /\ new.at = "served" /\ new.route = guarded.route /\ new.seen = guarded.seen
            /\ Minds(new) /\ GateFound(new) /\ new.route \in RoutesAsked
      BY <1>13, <2>1, <2>3 DEF PastGate, PastPrincipal
    <3>2. guarded.route.writes => "writable" \in guarded.seen
      BY <1>12, <2>1, <2>3 DEF Guards!Asked, Guards!Holding
    <3>3. GuardsFound(new)
      BY <1>1, <2>1, <3>1, <3>2 DEF GuardsFound, PastPrincipal, PastRoles
    <3> QED
      BY <1>2, <2>1, <3>1, <3>3
  <2> QED
    BY <1>18, <2>2, <2>3 DEF Guards!CheckWritable, Guards!Check
<1>19. CASE Guards!Fail
  BY <1>4, <1>19 DEF Guards!Fail
\* The rows change, and the request sees it.
<1>20. ASSUME Guards!See, UNCHANGED <<installs, guardsNow>>, guardsEdits' \in 0..MaxEdits,
              rows' \subseteq Guards!Facts, tenant' \in Guards!Tenant,
              lastActive' \in {None} \cup 0..LongClock,
              "active" \in rows' => lastActive' = guardsNow,
              lastActive' # lastActive => lastActive' = guardsNow
       PROVE  GuardInv'
  <2>1. PICK seen1 : seen1 = IF guarded.at \in {"idle", "served"} THEN guarded.seen
                             ELSE guarded.seen \cup (Guards!Asked(guarded.route) \cap Guards!Holding')
    OBVIOUS
  <2>2. PICK new : new = [guarded EXCEPT !.seen = seen1]
    OBVIOUS
  <2>3. guarded' = new
    BY <1>0, <1>20, <2>1, <2>2 DEF Guards!See
  <2>4. seen1 \subseteq Guards!Facts \cup {"writable"} /\ guarded.seen \subseteq seen1
    BY <1>0, <1>20, <2>1 DEF Guards!Holding, Guards!Request
  <2>5. /\ new \in Guards!Request /\ new.at = guarded.at /\ new.route = guarded.route
        /\ new.bearer = guarded.bearer /\ new.asked = guarded.asked /\ new.found = guarded.found
        /\ new.open = guarded.open /\ new.seen = seen1 /\ new.fresh = guarded.fresh
    BY <1>0, <2>2, <2>4 DEF Guards!Request
  <2>6. Guards!TypeOK'
    BY <1>0, <1>20, <2>3, <2>5 DEF Guards!TypeOK
  <2>7. ActiveKnown'
    <3>1. lastActive' # None => lastActive' <= guardsNow
      BY <1>0, <1>1, <1>20 DEF ActiveKnown
    <3>2. installs # None /\ installs.installed => lastActive' # None /\ lastActive' >= installs.at
      <4>1. installs # None => installs.at \in 0..LongClock
        BY <1>0
      <4> QED
        BY <1>0, <1>1, <1>20, <4>1 DEF ActiveKnown
    <3> QED
      BY <1>20, <3>1, <3>2 DEF ActiveKnown
  <2>8. GateFound(guarded)'
    <3>1. guarded.at = "reply" /\ guarded.found => lastActive' # None /\ lastActive' >= guarded.asked
      BY <1>0, <1>1, <1>20 DEF GateFound, ActiveKnown
    <3> QED
      BY <1>1, <1>20, <2>3, <2>5, <3>1 DEF GateFound
  <2>9. GuardsFound(guarded)'
    BY <1>1, <2>3, <2>4, <2>5 DEF GuardsFound
  <2>10. Minds(guarded)'
    BY <2>1, <2>3, <2>5 DEF Minds
  <2> QED
    BY <2>6, <2>7, <2>8, <2>9, <2>10 DEF GuardInv
<1>21. ASSUME NEW f \in Guards!Facts, Guards!EditRows(f) PROVE GuardInv'
  <2>1. /\ guardsEdits' \in 0..MaxEdits /\ Guards!See /\ UNCHANGED <<tenant, installs, guardsNow>>
        /\ lastActive' = IF "active" \in rows \cup rows' THEN guardsNow ELSE lastActive
    BY <1>0, <1>21 DEF Guards!EditRows
  <2>2. rows' \subseteq Guards!Facts
    BY <1>0, <1>21 DEF Guards!EditRows, Guards!Facts
  <2> QED
    BY <1>0, <1>20, <2>1, <2>2
<1>22. CASE Guards!EditTenant
  <2>1. /\ guardsEdits' \in 0..MaxEdits /\ Guards!See /\ UNCHANGED <<rows, installs, guardsNow, lastActive>>
        /\ tenant' \in Guards!Tenant
    BY <1>0, <1>22 DEF Guards!EditTenant
  <2> QED
    BY <1>0, <1>1, <1>20, <2>1 DEF ActiveKnown
<1>23. CASE Guards!Tick
  <2>1. /\ guardsNow' = guardsNow + 1 /\ guardsNow' \in 0..LongClock
        /\ lastActive' = IF "active" \in rows THEN guardsNow' ELSE lastActive
        /\ UNCHANGED <<rows, tenant, installs, guarded, guardsEdits>>
    BY <1>0, <1>23 DEF Guards!Tick
  <2>2. Guards!TypeOK'
    BY <1>0, <2>1 DEF Guards!TypeOK
  <2>3. ActiveKnown'
    <3>1. installs # None => installs.at \in 0..LongClock
      BY <1>0
    <3>2. ("active" \in rows => lastActive = guardsNow)'
      BY <2>1
    <3>3. (lastActive # None => lastActive <= guardsNow)'
      <4>1. lastActive # None => lastActive \in Int /\ lastActive <= guardsNow
        BY <1>0, <1>1 DEF ActiveKnown
      <4>2. lastActive' = guardsNow' \/ lastActive' = lastActive
        BY <2>1
      <4>3. CASE lastActive' = guardsNow'
        <5>1. guardsNow' \in Int
          BY <1>0, <2>1
        <5>2. guardsNow' <= guardsNow'
          BY <5>1
        <5> QED
          BY <4>3, <5>2
      <4>4. CASE lastActive' = lastActive
        <5> SUFFICES ASSUME lastActive # None PROVE lastActive <= guardsNow'
          BY <4>4
        <5>1. lastActive \in Int /\ lastActive <= guardsNow
          BY <4>1
        <5>2. guardsNow \in Int /\ guardsNow' = guardsNow + 1
          BY <1>0, <2>1
        <5> QED
          BY <5>1, <5>2
      <4> QED
        BY <4>2, <4>3, <4>4
    <3>4. (installs # None /\ installs.installed => lastActive # None /\ lastActive >= installs.at)'
      <4> SUFFICES ASSUME installs # None, installs.installed
                   PROVE  lastActive' # None /\ lastActive' >= installs.at
        BY <2>1
      <4>1. /\ lastActive # None /\ lastActive >= installs.at /\ lastActive <= guardsNow
            /\ lastActive \in Int
        BY <1>0, <1>1 DEF ActiveKnown
      <4>2. lastActive' = guardsNow' \/ lastActive' = lastActive
        BY <2>1
      <4>3. lastActive' \in Int /\ lastActive' >= lastActive
        BY <1>0, <2>1, <4>1, <4>2
      <4>4. lastActive' # None
        <5>1. guardsNow' # None
          BY <1>0, <2>1
        <5> QED
          BY <4>1, <4>2, <5>1
      <4>5. installs.at \in Int
        BY <3>1
      <4> QED
        BY <4>1, <4>3, <4>4, <4>5
    <3> QED
      BY <3>2, <3>3, <3>4 DEF ActiveKnown
  <2>4. GateFound(guarded)'
    <3>1. guarded.at \in {"query", "reply"} => guarded.asked \in 0..LongClock
      BY <1>0, <1>1 DEF GateFound, Guards!Request
    <3> QED
      BY <1>0, <1>1, <2>1, <3>1 DEF GateFound, ActiveKnown
  <2>5. GuardsFound(guarded)'
    BY <1>1, <2>1 DEF GuardsFound
  <2>6. Minds(guarded)'
    BY <1>1, <2>1 DEF Minds, Guards!Holding, Guards!Writable
  <2> QED
    BY <2>2, <2>3, <2>4, <2>5, <2>6 DEF GuardInv
<1>24. CASE UNCHANGED guards
  <2>1. UNCHANGED <<rows, tenant, installs, guarded, guardsNow, guardsEdits, lastActive>>
    BY <1>24 DEF guards
  <2> QED
    BY <1>1, <2>1 DEF GuardInv, Guards!TypeOK, ActiveKnown, GateFound, GuardsFound, Minds,
                      Guards!Holding, Guards!Writable
<1> QED
  BY <1>6, <1>7, <1>8, <1>9, <1>10, <1>11, <1>14, <1>15, <1>16, <1>17, <1>18, <1>19, <1>21, <1>22,
     <1>23, <1>24 DEF Guards!Next

\* A handler runs on what its route asks for, each part found at a moment of the request,
\* and on the gate's word of less than the TTL ago, unless the gate failed (the guards).
THEOREM HandlersAreEarned == PlatformSpec => []HandlerEarned
<1> DEFINE Inv == part = "guards" => GuardInv
<1>1. PlatformInit => Inv
  BY GuardInit DEF PlatformInit
<1>2. Inv /\ [PlatformNext]_platformVars => Inv'
  BY GuardNext, PlatformParts
<1>3. GuardInv => Guards!HandlerEarned
  BY DEF GuardInv, GateFound, GuardsFound, PastGate, PastPrincipal, PastRoles, Guards!HandlerEarned,
         Guards!Asked
<1>4. Inv => HandlerEarned
  BY <1>3 DEF HandlerEarned, GuardInv
<1> HIDE DEF Inv
<1> QED
  BY <1>1, <1>2, <1>4, PTL DEF PlatformSpec

-------------------------------------------------------------------------------
(* Audit and change history *)

Wrote(c) == tracked[c].at \in {"after", "record", "answered"}

\* What c has written is in the history as v, or c is on its way to record it.
Told(c, v) == \/ tracked[c].at = "after"
              \/ tracked[c].at = "record" /\ tracked[c].new = v

\* A request that has not written is not who the entity is by.
Shaped == \A c \in Slots : /\ ~Wrote(c) => entity # c
                           /\ tracked[c].old # c
                           /\ tracked[c].at = "before" => tracked[c].named
AfterAnswers == audit \cup pending \subseteq {c \in Slots : tracked[c].at = "answered"}

\* What TrailComplete says of the end of all requests, on the way there.
AuditHeard == \A c \in Slots : tracked[c].at = "answered" => c \in audit \cup pending
ValueHeard ==
    entity \in Slots => \/ tracked[entity].method # "DELETE" /\ Told(entity, entity)
                        \/ \E r \in history : r.to = entity
RemovalHeard ==
    entity = None /\ (\E c \in Slots : Wrote(c)) =>
        \/ \E c \in Slots : tracked[c].method = "DELETE" /\ Told(c, None)
        \/ \E r \in history : r.action = "DELETE" /\ r.to = None

TrailInv ==
    /\ Trail!TypeOK /\ Shaped /\ AfterAnswers
    /\ swallowed \/ (AuditHeard /\ ValueHeard /\ RemovalHeard)

LEMMA TrailInit == Trail!Init => TrailInv
<1> SUFFICES ASSUME Trail!Init PROVE TrailInv
  OBVIOUS
<1>1. /\ entity \in {0, None} /\ tracked = [c \in Slots |-> Trail!Idle]
      /\ history = {} /\ audit = {} /\ pending = {} /\ swallowed = FALSE
      /\ None \notin Slots /\ 0 \notin Slots
  BY PlatformAssumption DEF Trail!Init
<1>2. Trail!Idle \in Trail!Call /\ Trail!Idle.at = "idle" /\ Trail!Idle.old = None
  BY DEF Trail!Idle, Trail!Call, Trail!Actions, Trail!Snapshots
<1>3. \A c \in Slots : tracked[c] = Trail!Idle
  BY <1>1
<1>4. Trail!TypeOK
  <2>1. swallowed \in BOOLEAN
    BY <1>1, Zenon
  <2>2. tracked \in [Slots -> Trail!Call]
    BY <1>1, <1>2
  <2> QED
    BY <1>1, <2>1, <2>2 DEF Trail!TypeOK, Trail!Snapshots
<1>5. ~\E c \in Slots : Wrote(c)
  BY <1>2, <1>3 DEF Wrote
<1>6. entity \notin Slots
  BY <1>1
<1> QED
  BY <1>1, <1>2, <1>3, <1>4, <1>5, <1>6
     DEF TrailInv, Shaped, AfterAnswers, AuditHeard, ValueHeard, RemovalHeard

LEMMA TrailNext == TrailInv /\ [Trail!Next]_trail => TrailInv'
<1> SUFFICES ASSUME TrailInv, [Trail!Next]_trail PROVE TrailInv'
  OBVIOUS
<1>0. /\ entity \in {0, None} \cup Slots /\ tracked \in [Slots -> Trail!Call]
      /\ history \subseteq Trail!Record /\ audit \subseteq Slots /\ pending \subseteq Slots
      /\ swallowed \in BOOLEAN /\ None \notin Slots /\ 0 \notin Slots
  BY PlatformAssumption DEF TrailInv, Trail!TypeOK, Trail!Snapshots
<1>1. Shaped /\ AfterAnswers /\ (swallowed \/ (AuditHeard /\ ValueHeard /\ RemovalHeard))
  BY DEF TrailInv
\* One request moves.
<1>2. ASSUME NEW c \in Slots, NEW r \in Trail!Call, tracked' = [tracked EXCEPT ![c] = r]
      PROVE  /\ tracked' \in [Slots -> Trail!Call] /\ tracked'[c] = r
             /\ \A d \in Slots : d # c => tracked'[d] = tracked[d]
  BY <1>0, <1>2
\* Nothing is written, and nothing was.
<1>3. ASSUME NEW c \in Slots, NEW r \in Trail!Call, tracked' = [tracked EXCEPT ![c] = r],
             ~Wrote(c), r.at \notin {"after", "record", "answered"}, r.old # c,
             r.at = "before" => r.named, UNCHANGED <<entity, history, audit, pending>>,
             swallowed' \in BOOLEAN, swallowed => swallowed'
      PROVE  TrailInv'
  <2>1. /\ tracked' \in [Slots -> Trail!Call] /\ tracked'[c] = r
        /\ \A d \in Slots : d # c => tracked'[d] = tracked[d]
    BY <1>2, <1>3
  <2>2. Trail!TypeOK'
    BY <1>0, <1>3, <2>1 DEF Trail!TypeOK, Trail!Snapshots
  <2>3. Shaped'
    BY <1>1, <1>3, <2>1 DEF Shaped, Wrote
  <2>4. AfterAnswers'
    BY <1>1, <1>3, <2>1 DEF AfterAnswers, Wrote
  <2>5. ASSUME ~swallowed' PROVE AuditHeard' /\ ValueHeard' /\ RemovalHeard'
    <3>1. AuditHeard /\ ValueHeard /\ RemovalHeard
      BY <1>1, <1>3, <2>5
    <3>2. AuditHeard'
      BY <1>3, <2>1, <3>1 DEF AuditHeard, Wrote
    <3>3. ValueHeard'
      <4>1. entity # c
        BY <1>1, <1>3 DEF Shaped
      <4> QED
        BY <1>3, <2>1, <3>1, <4>1 DEF ValueHeard, Told
    <3>4. RemovalHeard'
      BY <1>3, <2>1, <3>1 DEF RemovalHeard, Wrote, Told
    <3> QED
      BY <3>2, <3>3, <3>4
  <2> QED
    BY <1>3, <2>2, <2>3, <2>4, <2>5 DEF TrailInv
<1>4. ASSUME NEW c \in Slots, Trail!Begin(c) PROVE TrailInv'
  <2>1. PICK method \in Trail!Actions : \E named \in BOOLEAN :
          tracked' = [tracked EXCEPT ![c] = [Trail!Idle EXCEPT
                         !.at = IF named THEN "before" ELSE "handler",
                         !.method = method, !.named = named]]
    BY <1>4 DEF Trail!Begin
  <2>2. PICK named \in BOOLEAN :
          tracked' = [tracked EXCEPT ![c] = [Trail!Idle EXCEPT
                         !.at = IF named THEN "before" ELSE "handler",
                         !.method = method, !.named = named]]
    BY <2>1
  <2>3. PICK r : r = [Trail!Idle EXCEPT !.at = IF named THEN "before" ELSE "handler",
                                        !.method = method, !.named = named]
    OBVIOUS
  <2>4. /\ r \in Trail!Call /\ r.at \in {"before", "handler"} /\ r.old = None
        /\ r.at = "before" => r.named
    BY <2>1, <2>2, <2>3 DEF Trail!Idle, Trail!Call, Trail!Snapshots
  <2>5. /\ tracked[c].at = "idle" /\ UNCHANGED <<entity, history, audit, pending, swallowed>>
        /\ tracked' = [tracked EXCEPT ![c] = r]
    BY <1>4, <2>2, <2>3 DEF Trail!Begin
  <2>6. ~Wrote(c)
    BY <2>5 DEF Wrote
  <2> QED
    BY <1>0, <1>3, <2>4, <2>5, <2>6
<1>5. ASSUME NEW c \in Slots, Trail!TakeOld(c) PROVE TrailInv'
  <2>1. PICK thrown \in BOOLEAN :
          /\ tracked' = [tracked EXCEPT ![c].at = "handler",
                                        ![c].old = IF thrown THEN None ELSE entity]
          /\ swallowed' = (swallowed \/ thrown)
    BY <1>5 DEF Trail!TakeOld
  <2>2. PICK r : r = [tracked[c] EXCEPT !.at = "handler", !.old = IF thrown THEN None ELSE entity]
    OBVIOUS
  <2>3. /\ tracked[c].at = "before" /\ UNCHANGED <<entity, history, audit, pending>>
        /\ tracked' = [tracked EXCEPT ![c] = r]
    BY <1>0, <1>5, <2>1, <2>2 DEF Trail!TakeOld
  <2>4. ~Wrote(c)
    BY <2>3 DEF Wrote
  <2>5. r \in Trail!Call /\ r.at = "handler" /\ r.old \in {None, entity}
    <3>1. PICK old \in {None, entity} : r = [tracked[c] EXCEPT !.at = "handler", !.old = old]
      BY <2>2
    <3>2. old \in Trail!Snapshots /\ tracked[c] \in Trail!Call
      BY <1>0 DEF Trail!Snapshots
    <3> QED
      BY <3>1, <3>2 DEF Trail!Call
  <2>6. r.old # c
    BY <1>0, <1>1, <2>4, <2>5 DEF Shaped
  <2>7. swallowed' \in BOOLEAN /\ (swallowed => swallowed')
    BY <2>1, Zenon
  <2> QED
    BY <1>3, <2>3, <2>4, <2>5, <2>6, <2>7
<1>6. ASSUME NEW c \in Slots, Trail!Handle(c) PROVE TrailInv'
  <2>1. /\ tracked[c].at = "handler" /\ ~Wrote(c) /\ UNCHANGED <<history, audit, pending, swallowed>>
    BY <1>6 DEF Trail!Handle, Wrote
  <2>2. CASE tracked' = [tracked EXCEPT ![c].at = "refused"] /\ UNCHANGED entity
    <3>1. PICK r : r = [tracked[c] EXCEPT !.at = "refused"]
      OBVIOUS
    <3>2. r \in Trail!Call /\ r.at = "refused" /\ r.old = tracked[c].old
      BY <1>0, <3>1 DEF Trail!Call
    <3>3. tracked' = [tracked EXCEPT ![c] = r]
      BY <1>0, <2>2, <3>1
    <3>4. r.old # c
      BY <1>1, <3>2 DEF Shaped
    <3> QED
      BY <1>0, <1>3, <2>1, <2>2, <3>2, <3>3, <3>4
  <2>3. CASE /\ entity' = IF tracked[c].method = "DELETE" THEN None ELSE c
             /\ tracked' = [tracked EXCEPT ![c].at = "after"]
    <3>1. PICK r : r = [tracked[c] EXCEPT !.at = "after"]
      OBVIOUS
    <3>2. /\ r \in Trail!Call /\ r.at = "after" /\ r.old = tracked[c].old
          /\ r.method = tracked[c].method
      BY <1>0, <3>1 DEF Trail!Call
    <3>3. tracked' = [tracked EXCEPT ![c] = r]
      BY <1>0, <2>3, <3>1
    <3>4. /\ tracked' \in [Slots -> Trail!Call] /\ tracked'[c] = r
          /\ \A d \in Slots : d # c => tracked'[d] = tracked[d]
      BY <1>2, <3>2, <3>3
    <3>5. Trail!TypeOK'
      BY <1>0, <2>1, <2>3, <3>4 DEF Trail!TypeOK, Trail!Snapshots
    <3>6. Shaped'
      BY <1>0, <1>1, <2>3, <3>2, <3>4 DEF Shaped, Wrote
    <3>7. AfterAnswers'
      BY <1>1, <2>1, <3>4 DEF AfterAnswers
    <3>8. ASSUME ~swallowed PROVE AuditHeard' /\ ValueHeard' /\ RemovalHeard'
      <4>1. AuditHeard'
        BY <1>1, <2>1, <3>2, <3>4, <3>8 DEF AuditHeard
      <4>2. ValueHeard'
        BY <1>0, <2>3, <3>2, <3>4 DEF ValueHeard, Told
      <4>3. RemovalHeard'
        BY <1>0, <2>3, <3>2, <3>4 DEF RemovalHeard, Told
      <4> QED
        BY <4>1, <4>2, <4>3
    <3> QED
      BY <2>1, <3>5, <3>6, <3>7, <3>8 DEF TrailInv
  <2> QED
    BY <1>6, <2>2, <2>3 DEF Trail!Handle
\* What was written is on its way to a record, or told no more.
<1>7. ASSUME NEW c \in Slots, NEW r \in Trail!Call, tracked' = [tracked EXCEPT ![c] = r],
             Wrote(c), r.at \in {"record", "answered"}, r.old = tracked[c].old,
             UNCHANGED <<entity, audit>>, history' \subseteq Trail!Record, swallowed' \in BOOLEAN,
             pending' = IF r.at = "answered" THEN pending \cup {c} ELSE pending,
             tracked[c].at # "answered",
             ~swallowed' => ~swallowed /\ ValueHeard' /\ RemovalHeard'
      PROVE  TrailInv'
  <2>1. /\ tracked' \in [Slots -> Trail!Call] /\ tracked'[c] = r
        /\ \A d \in Slots : d # c => tracked'[d] = tracked[d]
    BY <1>2, <1>7
  <2>2. Trail!TypeOK'
    BY <1>0, <1>7, <2>1 DEF Trail!TypeOK, Trail!Snapshots
  <2>3. Shaped'
    BY <1>1, <1>7, <2>1 DEF Shaped, Wrote
  <2>4. AfterAnswers'
    BY <1>1, <1>7, <2>1 DEF AfterAnswers
  <2>5. ASSUME ~swallowed' PROVE AuditHeard'
    BY <1>1, <1>7, <2>1, <2>5 DEF AuditHeard
  <2> QED
    BY <1>7, <2>2, <2>3, <2>4, <2>5 DEF TrailInv
<1>8. ASSUME NEW c \in Slots, Trail!TakeNew(c) PROVE TrailInv'
  <2>1. tracked[c].at = "after" /\ Wrote(c) /\ UNCHANGED <<entity, history, audit>>
    BY <1>8 DEF Trail!TakeNew, Wrote
  <2>2. CASE \E thrown \in BOOLEAN :
               /\ tracked' = [tracked EXCEPT ![c].at = "record",
                                ![c].new = IF thrown THEN None ELSE Trail!NewSnapshot(c)]
               /\ swallowed' = (swallowed \/ thrown)
               /\ UNCHANGED pending
    <3>1. PICK thrown \in BOOLEAN :
               /\ tracked' = [tracked EXCEPT ![c].at = "record",
                                ![c].new = IF thrown THEN None ELSE Trail!NewSnapshot(c)]
               /\ swallowed' = (swallowed \/ thrown)
               /\ UNCHANGED pending
      BY <2>2
    <3>2. PICK r : r = [tracked[c] EXCEPT !.at = "record",
                                !.new = IF thrown THEN None ELSE Trail!NewSnapshot(c)]
      OBVIOUS
    <3>3. /\ r \in Trail!Call /\ r.at = "record" /\ r.old = tracked[c].old
          /\ r.method = tracked[c].method /\ (~thrown => r.new = Trail!NewSnapshot(c))
      <4>1. PICK new : /\ r = [tracked[c] EXCEPT !.at = "record", !.new = new]
                       /\ new = IF thrown THEN None ELSE Trail!NewSnapshot(c)
        BY <3>2
      <4>2. new \in Trail!Snapshots /\ tracked[c] \in Trail!Call
        BY <1>0, <4>1 DEF Trail!Snapshots, Trail!NewSnapshot
      <4> QED
        BY <4>1, <4>2 DEF Trail!Call
    <3>4. tracked' = [tracked EXCEPT ![c] = r]
      BY <1>0, <3>1, <3>2
    <3>5. /\ tracked'[c] = r /\ \A d \in Slots : d # c => tracked'[d] = tracked[d]
      BY <1>2, <3>3, <3>4
    <3>6. swallowed' \in BOOLEAN /\ (~swallowed' => ~swallowed /\ ~thrown)
      BY <3>1, Zenon
    <3>7. r.method = "DELETE" <=> Trail!ActionOf(c) = "DELETE"
      BY <3>3 DEF Trail!ActionOf
    <3>8. ASSUME ~swallowed' PROVE ValueHeard' /\ RemovalHeard'
      <4>1. r.new = (IF r.method = "DELETE" THEN None ELSE entity) /\ ValueHeard /\ RemovalHeard
        BY <1>1, <3>3, <3>6, <3>7, <3>8 DEF Trail!NewSnapshot
      <4>2. ValueHeard'
        BY <2>1, <3>3, <3>5, <4>1 DEF ValueHeard, Told
      <4>3. RemovalHeard'
        BY <2>1, <3>3, <3>5, <4>1 DEF RemovalHeard, Told, Wrote
      <4> QED
        BY <4>2, <4>3
    <3> QED
      BY <1>0, <1>7, <2>1, <3>1, <3>3, <3>4, <3>6, <3>8
  <2>3. CASE /\ tracked' = [tracked EXCEPT ![c].at = "answered"]
             /\ swallowed' = TRUE /\ pending' = pending \cup {c}
    <3>1. PICK r : r = [tracked[c] EXCEPT !.at = "answered"]
      OBVIOUS
    <3>2. r \in Trail!Call /\ r.at = "answered" /\ r.old = tracked[c].old
      BY <1>0, <3>1 DEF Trail!Call
    <3>3. tracked' = [tracked EXCEPT ![c] = r]
      BY <1>0, <2>3, <3>1
    <3>4. swallowed' \in BOOLEAN /\ swallowed'
      BY <2>3, Zenon
    <3> QED
      BY <1>0, <1>7, <2>1, <2>3, <3>2, <3>3, <3>4
  <2> QED
    BY <1>8, <2>2, <2>3 DEF Trail!TakeNew
<1>9. ASSUME NEW c \in Slots, Trail!RecordChange(c) PROVE TrailInv'
  <2>1. /\ tracked[c].at = "record" /\ Wrote(c) /\ UNCHANGED <<entity, audit>>
        /\ tracked' = [tracked EXCEPT ![c].at = "answered"] /\ pending' = pending \cup {c}
    BY <1>9 DEF Trail!RecordChange, Wrote
  <2>2. PICK r : r = [tracked[c] EXCEPT !.at = "answered"]
    OBVIOUS
  <2>3. r \in Trail!Call /\ r.at = "answered" /\ r.old = tracked[c].old /\ r.method = tracked[c].method
    BY <1>0, <2>2 DEF Trail!Call
  <2>4. tracked' = [tracked EXCEPT ![c] = r]
    BY <1>0, <2>1, <2>2
  <2>5. CASE swallowed' = TRUE /\ UNCHANGED history
    <3>1. swallowed' \in BOOLEAN /\ swallowed'
      BY <2>5, Zenon
    <3> QED
      BY <1>0, <1>7, <2>1, <2>3, <2>4, <2>5, <3>1
  <2>6. CASE history' = history \cup Trail!Recorded(c) /\ UNCHANGED swallowed
    <3>1. /\ tracked'[c] = r /\ \A d \in Slots : d # c => tracked'[d] = tracked[d]
      BY <1>2, <2>3, <2>4
    <3>2. PICK change : change = [action |-> Trail!ActionOf(c), from |-> tracked[c].old, to |-> tracked[c].new]
      OBVIOUS
    <3>3. /\ change \in Trail!Record /\ change.to = tracked[c].new
          /\ change.action = Trail!ActionOf(c)
      <4>1. tracked[c] \in Trail!Call
        BY <1>0
      <4>2. Trail!ActionOf(c) \in Trail!Actions
        BY <4>1 DEF Trail!ActionOf, Trail!Actions, Trail!Call
      <4> QED
        BY <3>2, <4>1, <4>2 DEF Trail!Record, Trail!Call
    <3>4. /\ Trail!Recorded(c) \subseteq {change}
          /\ Trail!ActionOf(c) = "DELETE" \/ tracked[c].old # tracked[c].new => change \in history'
      BY <2>6, <3>2 DEF Trail!Recorded
    <3>5. history \subseteq history' /\ history' \subseteq Trail!Record
      BY <1>0, <2>6, <3>3, <3>4
    <3>6. ASSUME ~swallowed' PROVE ValueHeard' /\ RemovalHeard'
      <4>1. ValueHeard /\ RemovalHeard
        BY <1>1, <2>6, <3>6
      <4>2. ValueHeard'
        <5>1. ASSUME entity = c, Told(c, c) PROVE change \in history' /\ change.to = c
          BY <1>1, <2>1, <3>3, <3>4, <5>1 DEF Told, Shaped
        <5> QED
          BY <2>1, <3>1, <3>5, <4>1, <5>1 DEF ValueHeard, Told
      <4>3. RemovalHeard'
        <5>1. ASSUME tracked[c].method = "DELETE", Told(c, None)
              PROVE  change \in history' /\ change.to = None /\ change.action = "DELETE"
          BY <2>1, <3>3, <3>4, <5>1 DEF Told, Trail!ActionOf
        <5> QED
          BY <2>1, <3>1, <3>5, <4>1, <5>1 DEF RemovalHeard, Told, Wrote
      <4> QED
        BY <4>2, <4>3
    <3> QED
      BY <1>0, <1>7, <2>1, <2>3, <2>4, <2>6, <3>5, <3>6
  <2> QED
    BY <1>9, <2>5, <2>6 DEF Trail!RecordChange
<1>10. ASSUME NEW c \in Slots, Trail!Audit(c) PROVE TrailInv'
  <2>1. /\ c \in pending /\ pending' = pending \ {c} /\ UNCHANGED <<entity, tracked, history>>
        /\ (audit' = audit \cup {c} /\ UNCHANGED swallowed) \/ (swallowed' = TRUE /\ UNCHANGED audit)
    BY <1>10 DEF Trail!Audit
  <2>2. swallowed' \in BOOLEAN
    <3>1. CASE UNCHANGED swallowed
      BY <1>0, <3>1
    <3>2. CASE swallowed' = TRUE
      BY <3>2, Zenon
    <3> QED
      BY <2>1, <3>1, <3>2
  <2>3. Trail!TypeOK'
    BY <1>0, <2>1, <2>2 DEF Trail!TypeOK, Trail!Snapshots
  <2>4. Shaped' /\ AfterAnswers'
    BY <1>1, <2>1 DEF Shaped, AfterAnswers, Wrote
  <2>5. ASSUME ~swallowed' PROVE AuditHeard' /\ ValueHeard' /\ RemovalHeard'
    BY <1>1, <2>1, <2>5 DEF AuditHeard, ValueHeard, RemovalHeard, Wrote, Told
  <2> QED
    BY <2>3, <2>4, <2>5 DEF TrailInv
<1>11. CASE UNCHANGED trail
  BY <1>11 DEF trail, TrailInv, Trail!TypeOK, Shaped, AfterAnswers, AuditHeard, ValueHeard,
               RemovalHeard, Wrote, Told
<1> QED
  BY <1>4, <1>5, <1>6, <1>8, <1>9, <1>10, <1>11 DEF Trail!Next

\* When no request is under way and none has lost a record, the audit log and the history
\* are complete, however the requests overlapped (AuditInterceptor, ChangeHistoryInterceptor).
THEOREM TheTrailIsComplete == PlatformSpec => []TrailComplete
<1> DEFINE Inv == part = "trail" => TrailInv
<1>1. PlatformInit => Inv
  BY TrailInit DEF PlatformInit
<1>2. Inv /\ [PlatformNext]_platformVars => Inv'
  BY TrailNext, PlatformParts
<1>3. TrailInv => Trail!TrailComplete
  <2> SUFFICES ASSUME TrailInv, Trail!Quiet, ~swallowed
               PROVE  /\ audit = {c \in Slots : tracked[c].at = "answered"}
                      /\ entity \in Slots => \E r \in history : r.to = entity
                      /\ (entity = None /\ audit # {}) =>
                           \E r \in history : r.action = "DELETE" /\ r.to = None
    BY DEF Trail!TrailComplete
  <2>1. AfterAnswers /\ AuditHeard /\ ValueHeard /\ RemovalHeard /\ pending = {}
    BY DEF TrailInv, Trail!Quiet
  <2>2. audit = {c \in Slots : tracked[c].at = "answered"}
    BY <2>1 DEF AfterAnswers, AuditHeard
  <2>3. \A c \in Slots : tracked[c].at \notin {"after", "record"}
    BY DEF Trail!Quiet
  <2>4. entity \in Slots => \E r \in history : r.to = entity
    BY <2>1, <2>3 DEF ValueHeard, Told
  <2>5. audit # {} => \E c \in Slots : Wrote(c)
    BY <2>2 DEF Wrote
  <2> QED
    BY <2>1, <2>2, <2>3, <2>4, <2>5 DEF RemovalHeard, Told
<1>4. Inv => TrailComplete
  BY <1>3 DEF TrailComplete, TrailInv
<1> HIDE DEF Inv
<1> QED
  BY <1>1, <1>2, <1>4, PTL DEF PlatformSpec

-------------------------------------------------------------------------------
(* Where a sign-in ends *)

Kept(flow) == flow.kept => Return!Same(flow.to, flow.from)
External(flow) == flow.known => flow.to # "internalRequest"

\* A page, a one-time record and a landing that have lost nothing so far.
GoodPage(p) == p \in Return!Page /\ Kept(p.flow) /\ (p.ticket # None => Kept(p.ticket))
GoodRecord(r) ==
    /\ r \in [kind : Return!Record, flow : Return!Flow]
    /\ Kept(r.flow)
    /\ r.kind \in {"external", "ticket"} => External(r.flow)
    /\ r.kind = "sso" => r.flow.to \notin Return!Absolute
GoodEnd(l) ==
    /\ l \in [flow : Return!Flow, method : Return!Methods, realm : {"tenant", "provider"}]
    /\ Kept(l.flow)
    /\ l.method = "external" => External(l.flow)

ReturnInv ==
    /\ place = None \/ GoodPage(place)
    /\ IsFiniteSet(records) /\ Return!Cardinality(records) <= MaxRecords
    /\ \A r \in records : GoodRecord(r)
    /\ landed = None \/ GoodEnd(landed)

\* What the three safeReturnTo make of a destination, and of what is asked for.
LEMMA ReturnTos ==
    ASSUME NEW d \in Return!Destinations
    PROVE  /\ Return!SafeReturnTo(d) = d
           /\ d \notin Return!Absolute => Return!SsoReturnTo(d) = d
           /\ Return!OAuthReturnTo(d) = IF d = "root" THEN "home" ELSE IF d = "path" THEN "appPath" ELSE d
<1>1. d # None /\ d # "unknown"
  BY PlatformAssumption DEF Return!Destinations, Return!Paths, Return!Absolute
<1>2. Return!SafeReturnTo(d) = d
  BY <1>1 DEF Return!SafeReturnTo
<1>3. d \notin Return!Absolute => Return!SsoReturnTo(d) = d
  BY <1>1 DEF Return!SsoReturnTo
<1>4. Return!OAuthReturnTo(d) = IF d = "root" THEN "home" ELSE IF d = "path" THEN "appPath" ELSE d
  <2>1. CASE d = "root"
    BY <2>1, PlatformAssumption DEF Return!OAuthReturnTo
  <2>2. CASE d = "path"
    BY <2>2, <1>1 DEF Return!OAuthReturnTo
  <2>3. CASE d \notin {"root", "path"}
    BY <2>3, <1>1 DEF Return!OAuthReturnTo
  <2> QED
    BY <2>1, <2>2, <2>3
<1> QED
  BY <1>2, <1>3, <1>4

LEMMA AskedTos ==
    ASSUME NEW raw \in Return!Asked
    PROVE  /\ Return!SafeReturnTo(raw) \in Return!Destinations
           /\ Return!SsoReturnTo(raw) \in Return!Destinations \ Return!Absolute
<1>1. Return!SafeReturnTo(raw) \in Return!Destinations
  BY DEF Return!Asked, Return!SafeReturnTo, Return!Destinations, Return!Paths, Return!Absolute
<1>2. Return!SsoReturnTo(raw) \in Return!Destinations \ Return!Absolute
  BY DEF Return!Asked, Return!SsoReturnTo, Return!Destinations, Return!Paths, Return!Absolute
<1> QED
  BY <1>1, <1>2

LEMMA LinkEnds == \A link \in Return!Keeping \cup Return!Losing : link[2] \in Return!Pages
BY DEF Return!Keeping, Return!Losing, Return!LoginLinks, Return!MfaLinks, Return!RegisterLinks,
       Return!RecoveryLinks, Return!VerifyLinks, Return!SsoLinks, Return!PortalLinks,
       Return!MailedLinks, Return!Pages, Return!Entries

\* What a sign-in begins with, and what the steps on its way make of it.
LEMMA FlowBegins ==
    ASSUME NEW d \in Return!Destinations
    PROVE  /\ Return!Flowing(d) \in Return!Flow /\ Kept(Return!Flowing(d))
           /\ Return!Flowing(d).to = d
<1>1. Return!Same(d, d)
  BY DEF Return!Same
<1> QED
  BY <1>1 DEF Return!Flowing, Return!Flow, Kept

LEMMA FlowGoesOn ==
    ASSUME NEW flow \in Return!Flow, Kept(flow)
    PROVE  /\ [flow EXCEPT !.to = Return!SafeReturnTo(@)] = flow
           /\ flow.to \notin Return!Absolute => [flow EXCEPT !.to = Return!SsoReturnTo(@)] = flow
           /\ Return!Lost(flow) \in Return!Flow /\ Kept(Return!Lost(flow))
<1>1. flow.to \in Return!Destinations
  BY DEF Return!Flow
<1>2. Return!SafeReturnTo(flow.to) = flow.to
      /\ (flow.to \notin Return!Absolute => Return!SsoReturnTo(flow.to) = flow.to)
  BY <1>1, ReturnTos
<1>3. [flow EXCEPT !.to = flow.to] = flow
  BY DEF Return!Flow
<1>4. Return!Lost(flow) \in Return!Flow /\ Kept(Return!Lost(flow))
  BY DEF Return!Lost, Return!Flow, Return!Destinations, Return!Paths, Kept
<1> QED
  BY <1>2, <1>3, <1>4

LEMMA FlowLooks ==
    ASSUME NEW flow \in Return!Flow, Kept(flow), NEW look \in Return!Looks(flow)
    PROVE  /\ look.flow \in Return!Flow /\ Kept(look.flow)
           /\ ~look.internal => External(look.flow)
<1>1. CASE look = [internal |-> flow.to = "internalRequest", flow |-> flow]
  <2>1. look.flow = flow /\ look.internal = (flow.to = "internalRequest")
    BY <1>1
  <2> QED
    BY <2>1 DEF External
<1>2. CASE look = [internal |-> FALSE, flow |-> Return!Unread(flow)]
  <2>1. PICK unread : unread = [flow EXCEPT !.known = FALSE]
    OBVIOUS
  <2>2. unread \in Return!Flow /\ Kept(unread) /\ ~unread.known
    BY <2>1 DEF Return!Flow, Kept
  <2>3. look.flow = unread
    BY <1>2, <2>1 DEF Return!Unread
  <2> QED
    BY <2>2, <2>3 DEF External
<1> QED
  BY <1>1, <1>2 DEF Return!Looks

\* The tenant application's home is the root page, and its paths are this server's.
LEMMA OAuthKeeps ==
    ASSUME NEW flow \in Return!Flow, Kept(flow), External(flow)
    PROVE  LET sent == [flow EXCEPT !.to = Return!OAuthReturnTo(@)]
           IN  sent \in Return!Flow /\ Kept(sent) /\ External(sent)
<1>1. PICK to : to = Return!OAuthReturnTo(flow.to)
  OBVIOUS
<1>2. to = IF flow.to = "root" THEN "home" ELSE IF flow.to = "path" THEN "appPath" ELSE flow.to
  <2>1. flow.to \in Return!Destinations
    BY DEF Return!Flow
  <2> QED
    BY <1>1, <2>1, ReturnTos
<1>3. PICK sent : sent = [flow EXCEPT !.to = to]
  OBVIOUS
<1>4. to \in Return!Destinations
  BY <1>2 DEF Return!Flow, Return!Destinations, Return!Absolute
<1>5. /\ sent \in Return!Flow /\ sent.to = to /\ sent.from = flow.from /\ sent.kept = flow.kept
      /\ sent.known = flow.known
  BY <1>3, <1>4 DEF Return!Flow
<1>6. Return!Same(flow.to, flow.from) => Return!Same(to, flow.from)
  <2>1. CASE to = flow.to
    BY <2>1
  <2>2. CASE flow.to = "root" /\ to = "home"
    BY <2>2 DEF Return!Same
  <2>3. CASE flow.to = "path" /\ to = "appPath"
    BY <2>3 DEF Return!Same
  <2> QED
    BY <1>2, <2>1, <2>2, <2>3
<1>7. Kept(sent) /\ External(sent)
  BY <1>2, <1>5, <1>6 DEF Kept, External
<1> QED
  BY <1>1, <1>3, <1>5, <1>7

LEMMA ReturnInit == Return!Init => ReturnInv
<1>1. Return!Cardinality({}) <= MaxRecords /\ IsFiniteSet({})
  BY OneCardinality, FS_EmptySet, PlatformAssumption
<1> QED
  BY <1>1 DEF Return!Init, ReturnInv

LEMMA ReturnNext == ReturnInv /\ [Return!Next]_return => ReturnInv'
<1> SUFFICES ASSUME ReturnInv, [Return!Next]_return PROVE ReturnInv'
  OBVIOUS
<1>0. MaxRecords \in Nat /\ None \notin Return!Destinations
  BY PlatformAssumption
<1>1. /\ place = None \/ GoodPage(place)
      /\ IsFiniteSet(records) /\ Return!Cardinality(records) <= MaxRecords
      /\ \A r \in records : GoodRecord(r)
      /\ landed = None \/ GoodEnd(landed)
  BY DEF ReturnInv
\* A page is shown, a session is opened, records are stored and consumed.
<1>2. ASSUME NEW page \in Return!Pages, NEW flow \in Return!Flow, Kept(flow), Return!Show(page, flow)
      PROVE  GoodPage(place')
  <2>1. PICK p : p = [page |-> page, flow |-> flow, ticket |-> None]
    OBVIOUS
  <2>2. p \in Return!Page /\ p.flow = flow /\ p.ticket = None
    BY <2>1 DEF Return!Page
  <2> QED
    BY <1>2, <2>1, <2>2 DEF Return!Show, GoodPage
<1>3. ASSUME NEW flow \in Return!Flow, Kept(flow), NEW method \in Return!Methods,
             NEW realm \in {"tenant", "provider"}, method = "external" => External(flow),
             Return!Land(flow, method, realm)
      PROVE  GoodEnd(landed') /\ place' = None
  <2>1. PICK l : l = [flow |-> flow, method |-> method, realm |-> realm]
    OBVIOUS
  <2>2. /\ l \in [flow : Return!Flow, method : Return!Methods, realm : {"tenant", "provider"}]
        /\ l.flow = flow /\ l.method = method
    BY <2>1
  <2> QED
    BY <1>3, <2>1, <2>2 DEF Return!Land, GoodEnd
<1>4. ASSUME NEW kind \in Return!Record, NEW flow \in Return!Flow, Kept(flow),
             kind \in {"external", "ticket"} => External(flow),
             kind = "sso" => flow.to \notin Return!Absolute
      PROVE  GoodRecord([kind |-> kind, flow |-> flow])
  BY <1>4 DEF GoodRecord
<1>5. ASSUME NEW r, r \in records
      PROVE  /\ IsFiniteSet(records \ {r}) /\ Cardinality(records \ {r}) = Cardinality(records) - 1
             /\ Return!Cardinality(records \ {r}) <= MaxRecords /\ Cardinality(records) \in Nat
  <2>1. /\ IsFiniteSet(records \ {r}) /\ Cardinality(records \ {r}) = Cardinality(records) - 1
        /\ Cardinality(records) \in Nat
    BY <1>1, <1>5, FS_RemoveElement, FS_CardinalityType
  <2>2. Return!Cardinality(records \ {r}) = Cardinality(records \ {r})
        /\ Return!Cardinality(records) = Cardinality(records)
    BY OneCardinality
  <2> QED
    BY <1>0, <1>1, <2>1, <2>2
<1>6. ASSUME NEW S, IsFiniteSet(S), Cardinality(S) < MaxRecords, NEW r
      PROVE  IsFiniteSet(S \cup {r}) /\ Return!Cardinality(S \cup {r}) <= MaxRecords
  <2>1. /\ IsFiniteSet(S \cup {r}) /\ Cardinality(S) \in Nat
        /\ Cardinality(S \cup {r}) = IF r \in S THEN Cardinality(S) ELSE Cardinality(S) + 1
    BY <1>6, FS_AddElement, FS_CardinalityType
  <2>2. Return!Cardinality(S \cup {r}) = Cardinality(S \cup {r})
    BY OneCardinality
  <2> QED
    BY <1>0, <1>6, <2>1, <2>2
<1>7. ASSUME NEW kind, NEW flow, Return!Store(kind, flow), GoodRecord([kind |-> kind, flow |-> flow]),
             UNCHANGED <<place, landed>>
      PROVE  ReturnInv'
  <2>1. Cardinality(records) < MaxRecords /\ records' = records \cup {[kind |-> kind, flow |-> flow]}
    BY <1>7, OneCardinality DEF Return!Store
  <2>2. IsFiniteSet(records') /\ Return!Cardinality(records') <= MaxRecords
    BY <1>1, <1>6, <2>1
  <2>3. \A r \in records' : GoodRecord(r)
    BY <1>1, <1>7, <2>1
  <2> QED
    BY <1>1, <1>7, <2>2, <2>3 DEF ReturnInv
<1>8. ASSUME NEW r \in records, records' = records \ {r}, place' = None \/ GoodPage(place'),
             landed' = None \/ GoodEnd(landed')
      PROVE  ReturnInv'
  <2>1. IsFiniteSet(records') /\ Return!Cardinality(records') <= MaxRecords
    BY <1>5, <1>8
  <2> QED
    BY <1>1, <1>8, <2>1 DEF ReturnInv
<1>9. ASSUME UNCHANGED records, place' = None \/ GoodPage(place'), landed' = None \/ GoodEnd(landed')
      PROVE  ReturnInv'
  BY <1>1, <1>9 DEF ReturnInv
<1>10. GoodPage(place) => place.flow \in Return!Flow /\ Kept(place.flow)
  BY DEF GoodPage, Return!Page
<1>11. \A p \in Return!Entries \cup {"mfa", "success"} : p \in Return!Pages
  BY DEF Return!Pages
<1>12. \A m \in {"password", "mfa", "passkey", "external", "register", "sso", "link"} : m \in Return!Methods
  BY DEF Return!Methods
<1>13. ASSUME NEW page, Return!At(page) PROVE place # None /\ place.flow \in Return!Flow /\ Kept(place.flow)
  BY <1>1, <1>10, <1>13 DEF Return!At
<1>14. CASE Return!Open
  <2>1. PICK raw \in Return!Asked, page \in Return!Entries :
          Return!Show(page, Return!Flowing(Return!SafeReturnTo(raw)))
    BY <1>14 DEF Return!Open
  <2>2. PICK to \in Return!Destinations : to = Return!SafeReturnTo(raw)
    BY AskedTos
  <2>3. GoodPage(place')
    BY <1>2, <1>11, <2>1, <2>2, FlowBegins
  <2> QED
    BY <1>1, <1>9, <1>14, <2>3 DEF Return!Open
<1>15. CASE Return!FollowLink
  <2>1. place # None /\ place.flow \in Return!Flow /\ Kept(place.flow) /\ UNCHANGED <<records, landed>>
    BY <1>1, <1>10, <1>15 DEF Return!FollowLink
  <2>2. CASE \E link \in Return!Keeping : Return!Show(link[2], Return!Through(link, place.flow))
    <3>1. PICK link \in Return!Keeping : Return!Show(link[2], Return!Through(link, place.flow))
      BY <2>2
    <3>2. Return!Through(link, place.flow) = place.flow
      BY <2>1, FlowGoesOn DEF Return!Through
    <3>3. link[2] \in Return!Pages
      BY LinkEnds
    <3> QED
      BY <1>1, <1>2, <1>9, <2>1, <3>1, <3>2, <3>3
  <2>3. CASE \E link \in Return!Losing : Return!Show(link[2], Return!Lost(place.flow))
    <3>1. PICK link \in Return!Losing : Return!Show(link[2], Return!Lost(place.flow))
      BY <2>3
    <3>2. Return!Lost(place.flow) \in Return!Flow /\ Kept(Return!Lost(place.flow))
      BY <2>1, FlowGoesOn
    <3>3. link[2] \in Return!Pages
      BY LinkEnds
    <3> QED
      BY <1>1, <1>2, <1>9, <2>1, <3>1, <3>2, <3>3
  <2> QED
    BY <1>15, <2>2, <2>3 DEF Return!FollowLink
<1>16. CASE Return!SubmitLogin
  <2>1. place.flow \in Return!Flow /\ Kept(place.flow) /\ UNCHANGED records
    BY <1>13, <1>16 DEF Return!SubmitLogin
  <2>2. PICK look \in Return!Looks(place.flow) :
          \/ Return!Land(look.flow, "password", Return!RealmOf(look))
          \/ Return!Show("mfa", look.flow) /\ UNCHANGED landed
    BY <1>16 DEF Return!SubmitLogin
  <2>3. look.flow \in Return!Flow /\ Kept(look.flow) /\ Return!RealmOf(look) \in {"tenant", "provider"}
    BY <2>1, FlowLooks DEF Return!RealmOf
  <2>4. CASE Return!Land(look.flow, "password", Return!RealmOf(look))
    BY <1>3, <1>9, <1>12, <2>1, <2>3, <2>4
  <2>5. CASE Return!Show("mfa", look.flow) /\ UNCHANGED landed
    BY <1>1, <1>2, <1>9, <1>11, <2>1, <2>3, <2>5
  <2> QED
    BY <2>2, <2>4, <2>5
<1>17. CASE Return!SubmitMfa
  BY <1>3, <1>9, <1>12, <1>13, <1>17 DEF Return!SubmitMfa
<1>18. CASE Return!SubmitRegister
  <2>1. place # None /\ place.flow \in Return!Flow /\ Kept(place.flow)
    BY <1>13, <1>18 DEF Return!SubmitRegister
  <2>2. CASE place.ticket = None
    <3>1. Return!Show("success", place.flow) /\ UNCHANGED <<records, landed>>
      BY <1>18, <2>2 DEF Return!SubmitRegister
    <3> QED
      BY <1>1, <1>2, <1>9, <1>11, <2>1, <3>1
  <2>3. CASE place.ticket # None
    <3>1. PICK record1 : record1 = [kind |-> "ticket", flow |-> place.ticket]
      OBVIOUS
    <3>2. /\ record1 \in records /\ records' = records \ {record1}
          /\ Return!Land(place.ticket, "external", "tenant")
      BY <1>18, <2>3, <3>1 DEF Return!SubmitRegister
    <3>3. record1.kind = "ticket" /\ record1.flow = place.ticket /\ GoodRecord(record1)
      BY <1>1, <3>1, <3>2
    <3>4. place.ticket \in Return!Flow /\ Kept(place.ticket) /\ External(place.ticket)
      BY <3>3 DEF GoodRecord
    <3> QED
      BY <1>3, <1>8, <1>12, <3>2, <3>4
  <2> QED
    BY <2>2, <2>3
<1>19. CASE Return!Continue
  <2>1. /\ place.flow \in Return!Flow /\ Kept(place.flow) /\ UNCHANGED records
        /\ Return!Land(place.flow, "register", "tenant") \/ Return!Land(place.flow, "link", "tenant")
    BY <1>13, <1>19 DEF Return!Continue
  <2> QED
    BY <1>3, <1>9, <1>12, <2>1
<1>20. CASE Return!StartExternal
  <2>1. place.flow \in Return!Flow /\ Kept(place.flow) /\ UNCHANGED <<place, landed>>
    BY <1>13, <1>20 DEF Return!StartExternal, Return!Buttons
  <2>2. PICK look \in Return!Looks(place.flow) :
          ~look.internal /\ Return!Store("external", [look.flow EXCEPT !.to = Return!OAuthReturnTo(@)])
    BY <1>20 DEF Return!StartExternal, Return!Admits
  <2>3. PICK sent : sent = [look.flow EXCEPT !.to = Return!OAuthReturnTo(@)]
    OBVIOUS
  <2>4. sent \in Return!Flow /\ Kept(sent) /\ External(sent)
    BY <2>1, <2>2, <2>3, FlowLooks, OAuthKeeps
  <2>5. GoodRecord([kind |-> "external", flow |-> sent])
    BY <1>4, <2>4 DEF Return!Record
  <2> QED
    BY <1>7, <2>1, <2>2, <2>3, <2>5
<1>21. CASE Return!StartLink
  <2>1. PICK flow : flow = Return!Flowing("account")
    OBVIOUS
  <2>2. flow \in Return!Flow /\ Kept(flow) /\ flow.to = "account"
    <3>1. "account" \in Return!Destinations
      BY DEF Return!Destinations, Return!Paths
    <3> QED
      BY <2>1, <3>1, FlowBegins
  <2>3. GoodRecord([kind |-> "external", flow |-> flow])
    BY <1>4, <2>2 DEF Return!Record, External
  <2> QED
    BY <1>7, <1>21, <2>1, <2>3 DEF Return!StartLink
<1>22. CASE Return!Callback
  <2>1. PICK r \in {q \in records : q.kind = "external"} :
        \/ Return!Land(r.flow, "external", "tenant") /\ records' = records \ {r}
        \/ /\ records' = (records \ {r}) \cup {[kind |-> "ticket", flow |-> r.flow]}
           /\ Return!ShowTicket(r.flow) /\ UNCHANGED landed
        \/ /\ records' = records \ {r}
           /\ Return!Show("login", Return!Lost(r.flow)) /\ UNCHANGED landed
    BY <1>22 DEF Return!Callback
  <2>2. r.flow \in Return!Flow /\ Kept(r.flow) /\ External(r.flow)
    BY <1>1, <2>1 DEF GoodRecord
  <2>3. CASE Return!Land(r.flow, "external", "tenant") /\ records' = records \ {r}
    BY <1>3, <1>8, <1>12, <2>1, <2>2, <2>3
  <2>4. CASE /\ records' = (records \ {r}) \cup {[kind |-> "ticket", flow |-> r.flow]}
             /\ Return!ShowTicket(r.flow) /\ UNCHANGED landed
    <3>1. IsFiniteSet(records') /\ Return!Cardinality(records') <= MaxRecords
      <4>1. IsFiniteSet(records \ {r}) /\ Cardinality(records \ {r}) = Cardinality(records) - 1
            /\ Cardinality(records) \in Nat /\ Cardinality(records) <= MaxRecords
        BY <1>1, <1>5, <2>1, OneCardinality
      <4>2. Cardinality(records \ {r}) < MaxRecords
        BY <1>0, <4>1
      <4> QED
        BY <1>6, <2>4, <4>1, <4>2
    <3>2. \A q \in records' : GoodRecord(q)
      BY <1>1, <1>4, <2>2, <2>4 DEF Return!Record
    <3>3. GoodPage(place')
      <4>1. PICK p : p = [page |-> "register", flow |-> r.flow, ticket |-> r.flow]
        OBVIOUS
      <4>2. p \in Return!Page /\ p.flow = r.flow /\ p.ticket = r.flow
        BY <2>2, <4>1 DEF Return!Page, Return!Pages, Return!Entries
      <4> QED
        BY <2>2, <2>4, <4>1, <4>2 DEF Return!ShowTicket, GoodPage
    <3> QED
      BY <1>1, <2>4, <3>1, <3>2, <3>3 DEF ReturnInv
  <2>5. CASE /\ records' = records \ {r}
             /\ Return!Show("login", Return!Lost(r.flow)) /\ UNCHANGED landed
    <3>1. Return!Lost(r.flow) \in Return!Flow /\ Kept(Return!Lost(r.flow))
      BY <2>2, FlowGoesOn
    <3>2. "login" \in Return!Pages
      BY DEF Return!Pages, Return!Entries
    <3> QED
      BY <1>1, <1>2, <1>8, <2>1, <2>5, <3>1, <3>2
  <2> QED
    BY <2>1, <2>3, <2>4, <2>5
<1>23. CASE Return!StartPasskey
  <2>1. /\ place.flow \in Return!Flow /\ Kept(place.flow) /\ Return!Store("passkey", place.flow)
        /\ UNCHANGED <<place, landed>>
    BY <1>13, <1>23 DEF Return!StartPasskey
  <2>2. GoodRecord([kind |-> "passkey", flow |-> place.flow])
    BY <1>4, <2>1 DEF Return!Record
  <2> QED
    BY <1>7, <2>1, <2>2
<1>24. CASE Return!StartSso
  <2>1. PICK raw \in Return!Asked : Return!Store("sso", Return!Flowing(Return!SsoReturnTo(raw)))
    BY <1>24 DEF Return!StartSso
  <2>2. PICK to \in Return!Destinations \ Return!Absolute : to = Return!SsoReturnTo(raw)
    BY AskedTos
  <2>3. Return!Flowing(to) \in Return!Flow /\ Kept(Return!Flowing(to)) /\ Return!Flowing(to).to = to
    BY FlowBegins
  <2>4. GoodRecord([kind |-> "sso", flow |-> Return!Flowing(to)])
    BY <1>4, <2>2, <2>3 DEF Return!Record
  <2> QED
    BY <1>7, <1>24, <2>1, <2>2, <2>4 DEF Return!StartSso
<1>25. CASE Return!FinishPasskey
  <2>1. PICK r \in {q \in records : q.kind = "passkey"} :
          /\ records' = records \ {r}
          /\ Return!Land([r.flow EXCEPT !.to = Return!SafeReturnTo(@)], "passkey", "tenant")
    BY <1>25 DEF Return!FinishPasskey
  <2>2. r.flow \in Return!Flow /\ Kept(r.flow)
    BY <1>1, <2>1 DEF GoodRecord
  <2>3. [r.flow EXCEPT !.to = Return!SafeReturnTo(@)] = r.flow
    BY <2>2, FlowGoesOn
  <2> QED
    BY <1>3, <1>8, <1>12, <2>1, <2>2, <2>3
<1>26. CASE Return!FinishSso
  <2>1. PICK r \in {q \in records : q.kind = "sso"} :
          /\ records' = records \ {r}
          /\ Return!Land([r.flow EXCEPT !.to = Return!SsoReturnTo(@)], "sso", "tenant")
    BY <1>26 DEF Return!FinishSso
  <2>2. r.flow \in Return!Flow /\ Kept(r.flow) /\ r.flow.to \notin Return!Absolute
    BY <1>1, <2>1 DEF GoodRecord
  <2>3. [r.flow EXCEPT !.to = Return!SsoReturnTo(@)] = r.flow
    BY <2>2, FlowGoesOn
  <2> QED
    BY <1>3, <1>8, <1>12, <2>1, <2>2, <2>3
<1>27. CASE Return!Drop
  BY <1>1, <1>8, <1>27 DEF Return!Drop
<1>28. CASE UNCHANGED return
  BY <1>1, <1>9, <1>28 DEF return
<1> QED
  BY <1>14, <1>15, <1>16, <1>17, <1>18, <1>19, <1>20, <1>21, <1>22, <1>23, <1>24, <1>25, <1>26,
     <1>27, <1>28 DEF Return!Next

\* Whatever pages, records and redirects a sign-in goes through, it ends where it was meant
\* to unless one of them is known to lose return_to, and no external account goes on with
\* the request of an internal platform (safeReturnTo, assertExternalAuthAllowed).
THEOREM SignInsReturn == PlatformSpec => []ReturnKept
<1> DEFINE Inv == part = "return" => ReturnInv
<1>1. PlatformInit => Inv
  BY ReturnInit DEF PlatformInit
<1>2. Inv /\ [PlatformNext]_platformVars => Inv'
  BY ReturnNext, PlatformParts
<1>3. ReturnInv => Return!TypeOK /\ Return!ReturnKept
  <2> SUFFICES ASSUME ReturnInv PROVE Return!TypeOK /\ Return!ReturnKept
    OBVIOUS
  <2>1. Return!TypeOK
    BY DEF ReturnInv, GoodPage, GoodRecord, GoodEnd, Return!TypeOK
  <2>2. Return!ReturnKept
    BY DEF ReturnInv, GoodEnd, Kept, External, Return!ReturnKept
  <2> QED
    BY <2>1, <2>2
<1>4. Inv => ReturnKept
  BY <1>3 DEF ReturnKept
<1> HIDE DEF Inv
<1> QED
  BY <1>1, <1>2, <1>4, PTL DEF PlatformSpec

-------------------------------------------------------------------------------
(* Account and login pages *)

\* The token of a page is the cookie's, unless it is lost or comes with a cookie of its own.
Shown(p) ==
    /\ p.at = "asked" /\ p.first => p.token # None /\ p.sets = p.token
    /\ p.at = "asked" /\ ~p.first => p.sets = None
    /\ p.at = "shown" => ~p.first
Holds(p) == p.at # "blank" /\ ~p.first => csrf # None /\ csrf = p.token

PagesInv ==
    /\ Pages!TypeOK
    /\ ~refused
    /\ \A t \in Slots : Shown(tab[t]) /\ (t \notin lost => Holds(tab[t]))

LEMMA PagesInit == Pages!Init => PagesInv
<1> SUFFICES ASSUME Pages!Init PROVE PagesInv
  OBVIOUS
<1>1. /\ csrf = None /\ auth = None /\ root = None /\ scoped = None /\ opened = {} /\ usable = {}
      /\ tab = [t \in Slots |-> Pages!Blank] /\ lost = {} /\ refused = FALSE
  BY DEF Pages!Init
<1>2. Pages!Blank \in Pages!Page /\ Pages!Blank.at = "blank"
  BY DEF Pages!Blank, Pages!Page, Pages!Forms, Pages!PublicForms, Pages!SignInForms
<1>3. refused \in BOOLEAN /\ ~refused
  BY <1>1, Zenon
<1>4. tab \in [Slots -> Pages!Page] /\ \A t \in Slots : tab[t] = Pages!Blank
  BY <1>1, <1>2
<1> QED
  BY <1>1, <1>2, <1>3, <1>4 DEF PagesInv, Pages!TypeOK, Shown, Holds

LEMMA PagesNext == PagesInv /\ [Pages!Next]_pages => PagesInv'
<1> SUFFICES ASSUME PagesInv, [Pages!Next]_pages PROVE PagesInv'
  OBVIOUS
<1>0. /\ csrf \in Things \cup {None} /\ auth \in Sids \cup {None}
      /\ root \in Sids \cup {None, Dead} /\ scoped \in Sids \cup {None, Dead}
      /\ usable \subseteq opened /\ opened \subseteq Sids /\ lost \subseteq Slots
      /\ tab \in [Slots -> Pages!Page] /\ refused \in BOOLEAN /\ None \notin Things
  BY PlatformAssumption DEF PagesInv, Pages!TypeOK
<1>1. ~refused /\ \A t \in Slots : Shown(tab[t]) /\ (t \notin lost => Holds(tab[t]))
  BY DEF PagesInv
\* One tab moves, and the cookie of the token stays.
<1>2. ASSUME NEW t \in Slots, NEW p \in Pages!Page, tab' = [tab EXCEPT ![t] = p],
             Shown(p), t \notin lost' => Holds(p), lost' \subseteq Slots, lost \ {t} \subseteq lost',
             UNCHANGED <<csrf, auth, root, scoped, refused>>,
             usable' \subseteq opened', opened' \subseteq Sids
      PROVE  PagesInv'
  <2>1. tab' \in [Slots -> Pages!Page] /\ tab'[t] = p /\ \A u \in Slots : u # t => tab'[u] = tab[u]
    BY <1>0, <1>2
  <2>2. Pages!TypeOK'
    BY <1>0, <1>2, <2>1 DEF Pages!TypeOK
  <2>3. ASSUME NEW u \in Slots PROVE Shown(tab[u])' /\ (u \notin lost => Holds(tab[u]))'
    BY <1>1, <1>2, <2>1 DEF Shown, Holds
  <2> QED
    BY <1>1, <1>2, <2>2, <2>3 DEF PagesInv
\* The cookie of the token, the pages and what is lost stay.
<1>3. ASSUME UNCHANGED <<csrf, tab, lost, refused>>, auth' \in Sids \cup {None},
             root' \in Sids \cup {None, Dead}, scoped' \in Sids \cup {None, Dead},
             usable' \subseteq opened', opened' \subseteq Sids
      PROVE  PagesInv'
  <2>1. Pages!TypeOK'
    BY <1>0, <1>3 DEF Pages!TypeOK
  <2> QED
    BY <1>1, <1>3, <2>1 DEF PagesInv, Shown, Holds
\* The answer of a page for a tab, with the token of the cookie or one of its own.
<1>4. ASSUME NEW t \in Slots, NEW form \in Pages!Forms, Pages!Ask(t, form, None)
      PROVE  \E p \in Pages!Page : tab' = [tab EXCEPT ![t] = p] /\ Shown(p) /\ Holds(p)
  <2>1. PICK c \in Pages!GetOrSetCsrf :
          tab' = [tab EXCEPT ![t] = [at |-> "asked", form |-> form, token |-> c.token,
                                     sets |-> c.sets, sid |-> None, first |-> csrf = None]]
    BY <1>4 DEF Pages!Ask
  <2>2. CASE csrf # None
    <3>1. c.token = csrf /\ c.sets = None
      BY <2>1, <2>2 DEF Pages!GetOrSetCsrf
    <3>2. (csrf = None) = FALSE
      BY <2>2
    <3>3. PICK p : p = [at |-> "asked", form |-> form, token |-> csrf, sets |-> None,
                        sid |-> None, first |-> FALSE]
      OBVIOUS
    <3>4. p \in Pages!Page /\ p.at = "asked" /\ p.token = csrf /\ p.sets = None /\ ~p.first
      BY <1>0, <3>3 DEF Pages!Page
    <3>5. tab' = [tab EXCEPT ![t] = p]
      BY <2>1, <3>1, <3>2, <3>3
    <3> QED
      BY <2>2, <3>4, <3>5 DEF Shown, Holds
  <2>3. CASE csrf = None
    <3>1. PICK k \in Things : c = [token |-> k, sets |-> k]
      BY <2>1, <2>3 DEF Pages!GetOrSetCsrf, Pages!Fresh, Pages!Unused
    <3>2. (csrf = None) = TRUE
      BY <2>3
    <3>3. PICK p : p = [at |-> "asked", form |-> form, token |-> k, sets |-> k,
                        sid |-> None, first |-> TRUE]
      OBVIOUS
    <3>4. p \in Pages!Page /\ p.at = "asked" /\ p.token = k /\ p.sets = k /\ p.first
      BY <1>0, <3>3 DEF Pages!Page
    <3>5. tab' = [tab EXCEPT ![t] = p]
      BY <2>1, <3>1, <3>2, <3>3
    <3> QED
      BY <1>0, <3>4, <3>5 DEF Shown, Holds
  <2> QED
    BY <2>2, <2>3
<1>5. Pages!PublicForms \subseteq Pages!Forms /\ Pages!PortalForms \subseteq Pages!Forms
      /\ Pages!AccountForms \subseteq Pages!Forms
  BY DEF Pages!Forms
<1>6. ASSUME NEW t \in Slots, Pages!GetPage(t) PROVE PagesInv'
  <2>1. PICK form \in Pages!Forms : Pages!Ask(t, form, None)
    BY <1>5, <1>6 DEF Pages!GetPage
  <2>2. lost' = lost \ {t} /\ UNCHANGED <<csrf, auth, root, scoped, opened, usable, refused>>
    BY <1>6 DEF Pages!GetPage, Pages!cookies
  <2> QED
    BY <1>0, <1>2, <1>4, <2>1, <2>2
<1>7. ASSUME NEW t \in Slots, Pages!GetAccount(t) PROVE PagesInv'
  <2>1. PICK form \in Pages!Forms : Pages!Ask(t, form, None)
    BY <1>5, <1>7 DEF Pages!GetAccount
  <2>2. lost' = lost \ {t} /\ UNCHANGED <<csrf, auth, root, scoped, opened, usable, refused>>
    BY <1>7 DEF Pages!GetAccount, Pages!cookies
  <2> QED
    BY <1>0, <1>2, <1>4, <2>1, <2>2
<1>8. ASSUME NEW t \in Slots, Pages!GetPortalPage(t) PROVE PagesInv'
  <2>1. PICK k \in Things :
          tab' = [tab EXCEPT ![t] = [at |-> "asked", form |-> "portal", token |-> k, sets |-> k,
                                     sid |-> None, first |-> TRUE]]
    BY <1>8 DEF Pages!GetPortalPage
  <2>2. PICK p : p = [at |-> "asked", form |-> "portal", token |-> k, sets |-> k,
                      sid |-> None, first |-> TRUE]
    OBVIOUS
  <2>3. p \in Pages!Page /\ p.at = "asked" /\ p.token = k /\ p.sets = k /\ p.first
    BY <2>2 DEF Pages!Page, Pages!Forms, Pages!PortalForms
  <2>4. Shown(p) /\ Holds(p)
    BY <1>0, <2>3 DEF Shown, Holds
  <2>5. lost' = lost \ {t} /\ UNCHANGED <<csrf, auth, root, scoped, opened, usable, refused>>
    BY <1>8 DEF Pages!GetPortalPage, Pages!cookies
  <2> QED
    BY <1>0, <1>2, <2>1, <2>2, <2>3, <2>4, <2>5
<1>9. ASSUME NEW t \in Slots, Pages!Arrive(t) PROVE PagesInv'
  <2>1. /\ tab[t].at = "asked"
        /\ tab' = [tab EXCEPT ![t] = IF tab[t].sid = None
                                     THEN [tab[t] EXCEPT !.at = "shown", !.sets = None, !.first = FALSE]
                                     ELSE Pages!Blank]
        /\ csrf' = IF tab[t].sets = None THEN csrf ELSE tab[t].sets
        /\ lost' = lost \cup {u \in Slots \ {t} : tab[t].first /\ tab[u].token # tab[t].token}
        /\ IF tab[t].sid = None THEN UNCHANGED <<auth, root>>
           ELSE auth' = tab[t].sid /\ root' = tab[t].sid
        /\ UNCHANGED <<scoped, opened, usable, refused>>
    BY <1>9 DEF Pages!Arrive
  <2>2. tab[t] \in Pages!Page /\ Shown(tab[t])
    BY <1>0, <1>1
  <2>3. PICK p : p = IF tab[t].sid = None
                     THEN [tab[t] EXCEPT !.at = "shown", !.sets = None, !.first = FALSE]
                     ELSE Pages!Blank
    OBVIOUS
  <2>4. /\ p \in Pages!Page
        /\ p.at = "blank" \/ (p.at = "shown" /\ ~p.first /\ p.token = tab[t].token)
    <3>1. CASE tab[t].sid = None
      BY <2>2, <2>3, <3>1 DEF Pages!Page
    <3>2. CASE tab[t].sid # None
      <4>1. Pages!Blank \in Pages!Page /\ Pages!Blank.at = "blank"
        BY DEF Pages!Blank, Pages!Page, Pages!Forms, Pages!PublicForms, Pages!SignInForms
      <4>2. p = Pages!Blank
        BY <2>3, <3>2
      <4> QED
        BY <4>1, <4>2
    <3> QED
      BY <3>1, <3>2
  <2>5. tab' \in [Slots -> Pages!Page] /\ tab'[t] = p /\ \A u \in Slots : u # t => tab'[u] = tab[u]
    BY <1>0, <2>1, <2>3, <2>4
  <2>6. Pages!TypeOK'
    <3>1. tab[t].sid \in Sids \cup {None} /\ tab[t].sets \in Things \cup {None}
      BY <2>2 DEF Pages!Page
    <3>2. csrf' \in Things \cup {None} /\ auth' \in Sids \cup {None} /\ root' \in Sids \cup {None, Dead}
      BY <1>0, <2>1, <3>1
    <3>3. lost' \subseteq Slots
      BY <1>0, <2>1
    <3> QED
      BY <1>0, <2>1, <2>5, <3>2, <3>3 DEF Pages!TypeOK
  <2>7. ASSUME NEW u \in Slots PROVE Shown(tab[u])'
    BY <1>1, <2>4, <2>5 DEF Shown
  <2>8. ASSUME NEW u \in Slots, u \notin lost' PROVE Holds(tab[u])'
    <3>1. CASE tab[t].first
      <4>1. tab[t].token # None /\ csrf' = tab[t].token
        BY <2>1, <2>2, <3>1 DEF Shown
      <4>2. u # t => tab[u].token = tab[t].token
        BY <2>1, <2>8, <3>1
      <4> QED
        BY <2>4, <2>5, <4>1, <4>2 DEF Holds
    <3>2. CASE ~tab[t].first
      <4>1. csrf' = csrf /\ u \notin lost
        BY <2>1, <2>2, <2>8, <3>2 DEF Shown
      <4>2. Holds(tab[u])
        BY <1>1, <4>1
      <4> QED
        BY <2>1, <2>4, <2>5, <3>2, <4>1, <4>2 DEF Holds
    <3> QED
      BY <3>1, <3>2
  <2> QED
    BY <1>1, <2>1, <2>6, <2>7, <2>8 DEF PagesInv
<1>10. ASSUME NEW t \in Slots, Pages!SubmitUnserved(t) PROVE PagesInv'
  <2>1. /\ tab' = [tab EXCEPT ![t] = Pages!Blank]
        /\ UNCHANGED <<csrf, auth, root, scoped, opened, usable, lost, refused>>
    BY <1>10 DEF Pages!SubmitUnserved, Pages!cookies
  <2>2. Pages!Blank \in Pages!Page /\ Shown(Pages!Blank) /\ Holds(Pages!Blank)
    BY DEF Pages!Blank, Pages!Page, Pages!Forms, Pages!PublicForms, Pages!SignInForms, Shown, Holds
  <2> QED
    BY <1>0, <1>2, <2>1, <2>2
<1>11. ASSUME NEW t \in Slots, Pages!Submit(t) PROVE PagesInv'
  <2>1. /\ tab[t].at = "shown" /\ tab[t].form \in Pages!Served
        /\ \E f \in Pages!After(tab[t].form, Pages!VerifyCsrf(t)) : Pages!Ask(t, f, None)
        /\ refused' = (refused \/ (~Pages!VerifyCsrf(t) /\ t \notin lost))
        /\ lost' = lost \ {t} /\ UNCHANGED <<csrf, auth, root, scoped, opened, usable>>
    BY <1>11 DEF Pages!Submit, Pages!cookies
  <2>2. t \notin lost => Pages!VerifyCsrf(t)
    BY <1>1, <2>1 DEF Shown, Holds, Pages!VerifyCsrf
  <2>3. UNCHANGED refused
    BY <1>0, <1>1, <2>1, <2>2
  <2>4. \A a \in BOOLEAN : Pages!After(tab[t].form, a) \subseteq Pages!Forms
    BY <2>1 DEF Pages!After, Pages!Served, Pages!Forms, Pages!PublicForms, Pages!SignInForms,
                Pages!AccountForms
  <2>5. Pages!VerifyCsrf(t) \in BOOLEAN
    BY DEF Pages!VerifyCsrf
  <2>6. PICK form \in Pages!Forms : Pages!Ask(t, form, None)
    BY <2>1, <2>4, <2>5
  <2> QED
    BY <1>0, <1>2, <1>4, <2>1, <2>3, <2>6
<1>12. ASSUME NEW t \in Slots, Pages!SubmitSignsIn(t) PROVE PagesInv'
  <2>1. PICK s \in Sids \ opened :
          /\ opened' = opened \cup {s} /\ usable' = usable \cup {s}
          /\ tab' = [tab EXCEPT ![t] = [at |-> "asked", form |-> tab[t].form, token |-> tab[t].token,
                                        sets |-> None, sid |-> s, first |-> FALSE]]
    BY <1>12 DEF Pages!SubmitSignsIn
  <2>2. Pages!VerifyCsrf(t) /\ UNCHANGED <<csrf, auth, root, scoped, lost, refused>>
    BY <1>12 DEF Pages!SubmitSignsIn, Pages!cookies
  <2>3. PICK p : p = [at |-> "asked", form |-> tab[t].form, token |-> tab[t].token,
                      sets |-> None, sid |-> s, first |-> FALSE]
    OBVIOUS
  <2>4. p \in Pages!Page /\ p.at = "asked" /\ p.token = tab[t].token /\ p.sets = None /\ ~p.first
    <3>1. tab[t] \in Pages!Page
      BY <1>0
    <3> QED
      BY <2>3, <3>1 DEF Pages!Page
  <2>5. Shown(p) /\ Holds(p)
    BY <2>2, <2>4 DEF Shown, Holds, Pages!VerifyCsrf
  <2>6. usable' \subseteq opened' /\ opened' \subseteq Sids
    BY <1>0, <2>1
  <2> QED
    BY <1>0, <1>2, <2>1, <2>2, <2>3, <2>4, <2>5, <2>6
<1>13. CASE Pages!ExpireCsrf
  <2>1. /\ csrf' = None /\ lost' = {t \in Slots : tab[t].at # "blank"}
        /\ UNCHANGED <<auth, root, scoped, opened, usable, tab, refused>>
    BY <1>13 DEF Pages!ExpireCsrf
  <2>2. Pages!TypeOK'
    BY <1>0, <2>1 DEF Pages!TypeOK
  <2>3. ASSUME NEW t \in Slots PROVE Shown(tab[t])' /\ (t \notin lost => Holds(tab[t]))'
    BY <1>1, <2>1 DEF Shown, Holds
  <2> QED
    BY <1>1, <2>1, <2>2, <2>3 DEF PagesInv
<1>14. CASE Pages!ApiSignIn
  BY <1>0, <1>3, <1>14 DEF Pages!ApiSignIn
<1>15. CASE Pages!Refresh
  BY <1>0, <1>3, <1>15 DEF Pages!Refresh
<1>16. CASE Pages!Logout
  BY <1>0, <1>3, <1>16 DEF Pages!Logout
<1>17. CASE Pages!EndSession
  BY <1>0, <1>3, <1>17 DEF Pages!EndSession
<1>18. CASE Pages!SessionEnds
  BY <1>0, <1>3, <1>18 DEF Pages!SessionEnds, Pages!cookies
<1>19. CASE UNCHANGED pages
  BY <1>0, <1>3, <1>19 DEF pages
<1> QED
  BY <1>6, <1>7, <1>8, <1>9, <1>10, <1>11, <1>12, <1>13, <1>14, <1>15, <1>16, <1>17, <1>18, <1>19
     DEF Pages!Next

\* For any number of tabs, no form is refused for its token unless that token was
\* overtaken or has expired (getOrSetCsrf).
THEOREM TabsKeepWorking == PlatformSpec => []TabsStayValid
<1> DEFINE Inv == part = "pages" => PagesInv
<1>1. PlatformInit => Inv
  BY PagesInit DEF PlatformInit
<1>2. Inv /\ [PlatformNext]_platformVars => Inv'
  BY PagesNext, PlatformParts
<1>3. Inv => TabsStayValid
  BY DEF TabsStayValid, PagesInv, Pages!TabsStayValid
<1> HIDE DEF Inv
<1> QED
  BY <1>1, <1>2, <1>3, PTL DEF PlatformSpec

-------------------------------------------------------------------------------
(* Email queue, delivery ledger and webhooks *)

\* A job that is not finished has attempts left, and one at a provider has it configured.
JobInv(r) ==
    /\ r.pc \in {"absent", "waiting", "send", "ledger"} => r.made < Attempts
    /\ r.pc \in {"send", "ledger"} => r.next <= Len(config)
    /\ r.pc = "failed" => r.made = Attempts

MailInv ==
    /\ Mail!TypeOK
    /\ IsFiniteSet(reserved)
    /\ \A j \in Slots : JobInv(job[j])
    /\ \A j \in Slots : job[j].pc = "ledger" => <<j, config[job[j].next]>> \in accepted
    /\ Mail!JobAccounted
    /\ Mail!HardBounceSuppresses

MailJob == [pc : {"absent", "waiting", "send", "ledger", "done", "failed"},
            next : 1..(Mail!Cardinality(Providers) + 1), made : 0..Attempts]

LEMMA MailProviders == Mail!Cardinality(Providers) \in Nat
BY OneCardinality, FS_CardinalityType, PlatformAssumption

\* The configured providers are a sequence of no more than there are.
LEMMA MailOrders ==
    ASSUME config \in Mail!Orders
    PROVE  /\ config \in Seq(Providers) /\ Len(config) \in 0..Mail!Cardinality(Providers)
           /\ config # <<>> => Len(config) >= 1
<1>1. PICK n \in 0..Mail!Cardinality(Providers) : config \in [1..n -> Providers]
  BY DEF Mail!Orders
<1>2. n \in Nat
  BY MailProviders
<1>3. config \in Seq(Providers) /\ Len(config) = n
  BY <1>1, <1>2
<1>4. config # <<>> => Len(config) # 0
  BY <1>3, EmptySeq
<1> QED
  BY <1>1, <1>2, <1>3, <1>4

LEMMA MailInit == Mail!Init => MailInv
<1> SUFFICES ASSUME Mail!Init PROVE MailInv
  OBVIOUS
<1>1. /\ config \in Mail!Orders /\ job = [j \in Slots |-> [pc |-> "absent", next |-> 1, made |-> 0]]
      /\ reserved = {} /\ accepted = {} /\ lastEventAt = <<>> /\ events = {}
      /\ suppressed = FALSE /\ hook = None /\ dead = {}
      /\ Attempts \in Nat \ {0} /\ Quota \in Nat
  BY PlatformAssumption DEF Mail!Init
<1>2. PICK new : new = [pc |-> "absent", next |-> 1, made |-> 0]
  OBVIOUS
<1>3. new \in MailJob /\ new.pc = "absent" /\ new.made = 0
  BY <1>1, <1>2, MailProviders DEF MailJob
<1>4. job \in [Slots -> MailJob] /\ \A j \in Slots : job[j] = new
  BY <1>1, <1>2, <1>3
<1>5. IsFiniteSet(reserved) /\ Mail!Cardinality(reserved) <= Quota
  BY <1>1, FS_EmptySet, OneCardinality
<1>6. DOMAIN lastEventAt = {}
  BY <1>1
<1>7. suppressed \in BOOLEAN
  BY <1>1, Zenon
<1>8. lastEventAt \in [DOMAIN lastEventAt -> {0} \cup {e.at : e \in Reports}]
  <2>1. lastEventAt = [m \in DOMAIN lastEventAt |-> lastEventAt[m]]
    BY <1>1
  <2> QED
    BY <1>6, <2>1
<1>9. Mail!TypeOK
  BY <1>1, <1>4, <1>5, <1>6, <1>7, <1>8 DEF Mail!TypeOK, Mail!Recorded, MailJob
<1> QED
  BY <1>1, <1>3, <1>4, <1>5, <1>9
     DEF MailInv, JobInv, Mail!JobAccounted, Mail!HardBounceSuppresses

LEMMA MailNext == MailInv /\ [Mail!Next]_mail => MailInv'
<1> SUFFICES ASSUME MailInv, [Mail!Next]_mail PROVE MailInv'
  OBVIOUS
<1> DEFINE Times == {0} \cup {e.at : e \in Reports}
<1>0. /\ config \in Mail!Orders /\ job \in [Slots -> MailJob]
      /\ reserved \subseteq Slots /\ Mail!Cardinality(reserved) <= Quota
      /\ DOMAIN lastEventAt \subseteq accepted /\ accepted \subseteq Slots \X Providers
      /\ lastEventAt \in [DOMAIN lastEventAt -> Times]
      /\ events \subseteq (DOMAIN lastEventAt) \X Reports
      /\ suppressed \in BOOLEAN
      /\ hook # None => hook.msg \in DOMAIN lastEventAt /\ hook.event \in Reports
      /\ dead \subseteq Slots
      /\ Attempts \in Nat \ {0} /\ Quota \in Nat
  BY PlatformAssumption DEF MailInv, Mail!TypeOK, Mail!Recorded, Mail!Messages, MailJob
<1>1. /\ IsFiniteSet(reserved) /\ \A j \in Slots : JobInv(job[j])
      /\ Mail!JobAccounted /\ Mail!HardBounceSuppresses
  BY DEF MailInv
<1>11. \A j \in Slots : job[j].pc = "ledger" => <<j, config[job[j].next]>> \in accepted
  BY DEF MailInv
<1>2. /\ config \in Seq(Providers) /\ Len(config) \in 0..Mail!Cardinality(Providers)
      /\ Mail!Cardinality(Providers) \in Nat /\ (config # <<>> => Len(config) >= 1)
  BY <1>0, MailOrders, MailProviders
\* One job moves, and is not done; what is reserved is set apart.
<1>3. ASSUME NEW j \in Slots, NEW r \in MailJob, job' = [job EXCEPT ![j] = r], JobInv(r),
             r.pc # "done", job[j].pc # "failed", reserved' \subseteq Slots, IsFiniteSet(reserved'),
             Mail!Cardinality(reserved') <= Quota,
             accepted \subseteq accepted', accepted' \subseteq Slots \X Providers,
             r.pc = "ledger" => <<j, config[r.next]>> \in accepted',
             UNCHANGED <<config, lastEventAt, events, suppressed, hook, dead>>
      PROVE  MailInv'
  <2>1. job' \in [Slots -> MailJob] /\ job'[j] = r /\ \A k \in Slots : k # j => job'[k] = job[k]
    BY <1>0, <1>3
  <2>2. Mail!TypeOK'
    BY <1>0, <1>3, <2>1 DEF Mail!TypeOK, Mail!Recorded, Mail!Messages, MailJob
  <2>3. \A k \in Slots : JobInv(job[k])'
    BY <1>1, <1>3, <2>1 DEF JobInv
  <2>4. Mail!JobAccounted'
    BY <1>1, <1>3, <2>1 DEF Mail!JobAccounted, Mail!Recorded
  <2>5. Mail!HardBounceSuppresses'
    BY <1>1, <1>3 DEF Mail!HardBounceSuppresses
  <2>6. \A k \in Slots : (job[k].pc = "ledger" => <<k, config[job[k].next]>> \in accepted)'
    BY <1>3, <1>11, <2>1
  <2> QED
    BY <1>3, <2>2, <2>3, <2>4, <2>5, <2>6 DEF MailInv
\* An attempt is used up.
<1>4. ASSUME NEW j \in Slots, Mail!Throw(j), job[j].pc \in {"waiting", "send", "ledger"}
      PROVE  \E r \in MailJob : /\ job' = [job EXCEPT ![j] = r] /\ JobInv(r)
                                /\ r.pc \in {"waiting", "failed"}
  <2>1. job[j] \in MailJob /\ job[j].made < Attempts
    BY <1>0, <1>1, <1>4 DEF JobInv
  <2>2. PICK made : made = job[j].made + 1
    OBVIOUS
  <2>3. made \in 0..Attempts /\ (~(made < Attempts) => made = Attempts)
    BY <1>0, <2>1, <2>2 DEF MailJob
  <2>4. PICK pc \in {"waiting", "failed"} : pc = IF made < Attempts THEN "waiting" ELSE "failed"
    OBVIOUS
  <2>5. PICK r : r = [pc |-> pc, next |-> 1, made |-> made]
    OBVIOUS
  <2>6. r \in MailJob /\ r.pc = pc /\ r.made = made
    BY <1>2, <2>3, <2>5 DEF MailJob
  <2>7. JobInv(r)
    BY <2>3, <2>4, <2>6 DEF JobInv
  <2>8. job' = [job EXCEPT ![j] = r]
    BY <1>4, <2>2, <2>4, <2>5 DEF Mail!Throw
  <2> QED
    BY <2>4, <2>6, <2>7, <2>8
<1>5. ASSUME NEW j \in Slots, Mail!Enqueue(j) PROVE MailInv'
  <2>1. /\ job[j].pc = "absent" /\ job' = [job EXCEPT ![j].pc = "waiting"]
        /\ UNCHANGED <<config, reserved, accepted, lastEventAt, events, suppressed, hook, dead>>
    BY <1>5 DEF Mail!Enqueue
  <2>2. PICK r : r = [job[j] EXCEPT !.pc = "waiting"]
    OBVIOUS
  <2>3. r \in MailJob /\ r.pc = "waiting" /\ r.made = job[j].made
    <3>1. job[j] \in MailJob
      BY <1>0
    <3> QED
      BY <2>2, <3>1 DEF MailJob
  <2>4. JobInv(r)
    BY <1>1, <2>1, <2>3 DEF JobInv
  <2>5. job' = [job EXCEPT ![j] = r]
    BY <1>0, <2>1, <2>2
  <2> QED
    BY <1>0, <1>1, <1>3, <2>1, <2>3, <2>4, <2>5
<1>6. ASSUME NEW j \in Slots, Mail!Reserve(j) PROVE MailInv'
  <2>1. /\ job[j].pc = "waiting"
        /\ UNCHANGED <<config, accepted, lastEventAt, events, suppressed, hook, dead>>
    BY <1>6 DEF Mail!Reserve
  <2>2. CASE Mail!Refused(j)
    <3>1. Mail!Throw(j) /\ UNCHANGED reserved
      BY <1>6, <2>2 DEF Mail!Reserve
    <3>2. PICK r \in MailJob : job' = [job EXCEPT ![j] = r] /\ JobInv(r) /\ r.pc \in {"waiting", "failed"}
      BY <1>4, <2>1, <3>1
    <3> QED
      BY <1>0, <1>1, <1>3, <2>1, <3>1, <3>2
  <2>3. CASE ~Mail!Refused(j)
    <3>1. job' = [job EXCEPT ![j].pc = "send", ![j].next = 1] /\ reserved' = reserved \cup {j}
      BY <1>6, <2>3 DEF Mail!Reserve
    <3>2. config # <<>> /\ (j \notin reserved => Mail!Cardinality(reserved) # Quota)
      BY <2>3 DEF Mail!Refused
    <3>3. PICK r : r = [job[j] EXCEPT !.pc = "send", !.next = 1]
      OBVIOUS
    <3>4. r \in MailJob /\ r.pc = "send" /\ r.next = 1 /\ r.made = job[j].made
      <4>1. job[j] \in MailJob
        BY <1>0
      <4>2. 1 \in 1..(Mail!Cardinality(Providers) + 1)
        BY <1>2
      <4> QED
        BY <3>3, <4>1, <4>2 DEF MailJob
    <3>5. JobInv(r)
      BY <1>1, <1>2, <2>1, <3>2, <3>4 DEF JobInv
    <3>6. job' = [job EXCEPT ![j] = r]
      BY <1>0, <3>1, <3>3
    <3>7. IsFiniteSet(reserved') /\ Mail!Cardinality(reserved') <= Quota
      <4>1. /\ IsFiniteSet(reserved \cup {j}) /\ Cardinality(reserved) \in Nat
            /\ Cardinality(reserved \cup {j}) = IF j \in reserved THEN Cardinality(reserved)
                                                ELSE Cardinality(reserved) + 1
        BY <1>1, FS_AddElement, FS_CardinalityType
      <4>2. /\ Mail!Cardinality(reserved) = Cardinality(reserved)
            /\ Mail!Cardinality(reserved \cup {j}) = Cardinality(reserved \cup {j})
        BY OneCardinality
      <4>3. Cardinality(reserved \cup {j}) <= Quota
        BY <1>0, <3>2, <4>1, <4>2
      <4> QED
        BY <3>1, <4>1, <4>2, <4>3
    <3> QED
      BY <1>0, <1>3, <2>1, <3>1, <3>4, <3>5, <3>6, <3>7
  <2> QED
    BY <2>2, <2>3
<1>7. ASSUME NEW j \in Slots, Mail!TryNext(j) PROVE MailInv'
  <2>1. /\ job[j].pc = "send"
        /\ UNCHANGED <<config, reserved, accepted, lastEventAt, events, suppressed, hook, dead>>
    BY <1>7 DEF Mail!TryNext
  <2>2. CASE job[j].next < Len(config)
    <3>1. job' = [job EXCEPT ![j].next = @ + 1]
      BY <1>7, <2>2 DEF Mail!TryNext
    <3>2. PICK next : next = job[j].next + 1
      OBVIOUS
    <3>3. job[j] \in MailJob /\ next \in 1..(Mail!Cardinality(Providers) + 1) /\ next <= Len(config)
      BY <1>0, <1>2, <2>2, <3>2 DEF MailJob
    <3>4. PICK r : r = [job[j] EXCEPT !.next = next]
      OBVIOUS
    <3>5. r \in MailJob /\ r.pc = "send" /\ r.next = next /\ r.made = job[j].made
      BY <2>1, <3>3, <3>4 DEF MailJob
    <3>6. JobInv(r)
      BY <1>1, <2>1, <3>3, <3>5 DEF JobInv
    <3>7. job' = [job EXCEPT ![j] = r]
      BY <1>0, <3>1, <3>2, <3>4
    <3> QED
      BY <1>0, <1>1, <1>3, <2>1, <3>5, <3>6, <3>7
  <2>3. CASE ~(job[j].next < Len(config))
    <3>1. PICK r \in MailJob : job' = [job EXCEPT ![j] = r] /\ JobInv(r) /\ r.pc \in {"waiting", "failed"}
      BY <1>4, <1>7, <2>1, <2>3 DEF Mail!TryNext
    <3> QED
      BY <1>0, <1>1, <1>3, <2>1, <3>1
  <2> QED
    BY <2>2, <2>3
<1>8. ASSUME NEW j \in Slots, job[j].pc \in {"send", "ledger"} PROVE <<j, config[job[j].next]>> \in Slots \X Providers
  <2>1. job[j].next \in 1..Len(config)
    BY <1>0, <1>1, <1>2, <1>8 DEF JobInv, MailJob
  <2> QED
    BY <1>2, <2>1
<1>9. ASSUME NEW j \in Slots, Mail!Deliver(j) PROVE MailInv'
  <2>1. /\ job[j].pc = "send" /\ job' = [job EXCEPT ![j].pc = "ledger"]
        /\ accepted' = accepted \cup {<<j, config[job[j].next]>>}
        /\ UNCHANGED <<config, reserved, lastEventAt, events, suppressed, hook, dead>>
    BY <1>9 DEF Mail!Deliver
  <2>2. PICK r : r = [job[j] EXCEPT !.pc = "ledger"]
    OBVIOUS
  <2>3. r \in MailJob /\ r.pc = "ledger" /\ r.made = job[j].made /\ r.next = job[j].next
    <3>1. job[j] \in MailJob
      BY <1>0
    <3> QED
      BY <2>2, <3>1 DEF MailJob
  <2>4. JobInv(r)
    BY <1>1, <2>1, <2>3 DEF JobInv
  <2>5. job' = [job EXCEPT ![j] = r]
    BY <1>0, <2>1, <2>2
  <2>6. /\ accepted \subseteq accepted' /\ accepted' \subseteq Slots \X Providers
        /\ <<j, config[r.next]>> \in accepted'
    BY <1>0, <1>8, <2>1, <2>3
  <2> QED
    BY <1>0, <1>1, <1>3, <2>1, <2>3, <2>4, <2>5, <2>6
<1>10. ASSUME NEW j \in Slots, Mail!Stall(j) PROVE MailInv'
  <2>1. /\ job[j].pc \in {"send", "ledger"} /\ job' = [job EXCEPT ![j].pc = "waiting"]
        /\ UNCHANGED <<config, reserved, accepted, lastEventAt, events, suppressed, hook, dead>>
    BY <1>10 DEF Mail!Stall
  <2>2. PICK r : r = [job[j] EXCEPT !.pc = "waiting"]
    OBVIOUS
  <2>3. r \in MailJob /\ r.pc = "waiting" /\ r.made = job[j].made
    <3>1. job[j] \in MailJob
      BY <1>0
    <3> QED
      BY <2>2, <3>1 DEF MailJob
  <2>4. JobInv(r)
    BY <1>1, <2>1, <2>3 DEF JobInv
  <2>5. job' = [job EXCEPT ![j] = r]
    BY <1>0, <2>1, <2>2
  <2> QED
    BY <1>0, <1>1, <1>3, <2>1, <2>3, <2>4, <2>5
<1>12. ASSUME NEW j \in Slots, Mail!RecordAccepted(j) PROVE MailInv'
  <2>1. /\ job[j].pc = "ledger"
        /\ UNCHANGED <<config, reserved, accepted, events, suppressed, hook, dead>>
    BY <1>12 DEF Mail!RecordAccepted
  <2>2. CASE Mail!Throw(j) /\ UNCHANGED lastEventAt
    <3>1. PICK r \in MailJob : job' = [job EXCEPT ![j] = r] /\ JobInv(r) /\ r.pc \in {"waiting", "failed"}
      BY <1>4, <2>1, <2>2
    <3> QED
      BY <1>0, <1>1, <1>3, <2>1, <2>2, <3>1
  <2>3. CASE /\ lastEventAt' = [n \in Mail!Recorded \cup {<<j, config[job[j].next]>>} |->
                                  IF n \in Mail!Recorded THEN lastEventAt[n] ELSE 0]
             /\ job' = [job EXCEPT ![j].pc = "done"]
    <3>1. PICK m \in accepted : m = <<j, config[job[j].next]>>
      BY <1>11, <2>1
    <3>2. PICK r : r = [job[j] EXCEPT !.pc = "done"]
      OBVIOUS
    <3>3. r \in MailJob /\ r.pc = "done"
      <4>1. job[j] \in MailJob
        BY <1>0
      <4> QED
        BY <3>2, <4>1 DEF MailJob
    <3>4. job' = [job EXCEPT ![j] = r]
      BY <1>0, <2>3, <3>2
    <3>5. job' \in [Slots -> MailJob] /\ job'[j] = r /\ \A k \in Slots : k # j => job'[k] = job[k]
      BY <1>0, <3>3, <3>4
    <3>6. /\ DOMAIN lastEventAt' = (DOMAIN lastEventAt) \cup {m}
          /\ lastEventAt' \in [(DOMAIN lastEventAt) \cup {m} -> Times]
      BY <1>0, <2>3, <3>1 DEF Mail!Recorded
    <3>7. Mail!TypeOK'
      BY <1>0, <2>1, <3>1, <3>5, <3>6 DEF Mail!TypeOK, Mail!Recorded, Mail!Messages, MailJob
    <3>8. \A k \in Slots : JobInv(job[k])'
      BY <1>1, <2>1, <3>3, <3>5 DEF JobInv
    <3>9. \A k \in Slots : (job[k].pc = "ledger" => <<k, config[job[k].next]>> \in accepted)'
      BY <1>11, <2>1, <3>3, <3>5
    <3>10. Mail!JobAccounted'
      <4>1. \E p \in Providers : <<j, p>> \in (DOMAIN lastEventAt)'
        <5>1. PICK i \in Slots, p \in Providers : m = <<i, p>>
          BY <1>0, <3>1
        <5> QED
          BY <3>1, <3>6, <5>1
      <4>2. j \notin dead
        BY <1>1, <2>1 DEF Mail!JobAccounted
      <4> QED
        BY <1>1, <2>1, <3>5, <3>6, <4>1, <4>2 DEF Mail!JobAccounted, Mail!Recorded
    <3>11. Mail!HardBounceSuppresses'
      BY <1>1, <2>1 DEF Mail!HardBounceSuppresses
    <3> QED
      BY <1>1, <2>1, <3>7, <3>8, <3>9, <3>10, <3>11 DEF MailInv
  <2> QED
    BY <1>12, <2>2, <2>3 DEF Mail!RecordAccepted
<1>13. ASSUME NEW j \in Slots, Mail!OnFailed(j) PROVE MailInv'
  <2>1. /\ job[j].pc = "failed" /\ job[j].made = Attempts /\ dead' = dead \cup {j}
        /\ UNCHANGED <<config, job, reserved, accepted, lastEventAt, events, suppressed, hook>>
    BY <1>13 DEF Mail!OnFailed
  <2>2. Mail!TypeOK'
    BY <1>0, <2>1 DEF Mail!TypeOK, Mail!Recorded, Mail!Messages, MailJob
  <2>3. Mail!JobAccounted'
    BY <1>1, <2>1 DEF Mail!JobAccounted, Mail!Recorded
  <2>4. \A k \in Slots : JobInv(job[k])'
    BY <1>1, <2>1 DEF JobInv
  <2> QED
    BY <1>1, <1>11, <2>1, <2>2, <2>3, <2>4 DEF MailInv, Mail!HardBounceSuppresses
\* Only what the webhooks write moves.
<1>14. ASSUME UNCHANGED <<config, job, reserved, accepted, dead>>,
              lastEventAt' \in [DOMAIN lastEventAt -> Times],
              events' \subseteq (DOMAIN lastEventAt) \X Reports, suppressed' \in BOOLEAN,
              hook' # None => hook'.msg \in DOMAIN lastEventAt /\ hook'.event \in Reports,
              \A e \in events' : e[2].hard => suppressed'
       PROVE  MailInv'
  <2>1. DOMAIN lastEventAt' = DOMAIN lastEventAt
    BY <1>14
  <2>2. Mail!TypeOK'
    BY <1>0, <1>14, <2>1 DEF Mail!TypeOK, Mail!Recorded, Mail!Messages, MailJob
  <2>3. Mail!JobAccounted'
    BY <1>1, <1>14, <2>1 DEF Mail!JobAccounted, Mail!Recorded
  <2>4. \A k \in Slots : JobInv(job[k])'
    BY <1>1, <1>14 DEF JobInv
  <2>5. Mail!HardBounceSuppresses'
    BY <1>14 DEF Mail!HardBounceSuppresses
  <2> QED
    BY <1>1, <1>11, <1>14, <2>2, <2>3, <2>4, <2>5 DEF MailInv
<1>15. \A e \in events : e[2].hard => suppressed
  BY <1>1 DEF Mail!HardBounceSuppresses
<1>16. \A e \in Reports : e.at \in Times
  OBVIOUS
<1>17. ASSUME NEW m \in Mail!Messages, NEW e \in Reports, Mail!Ingest(m, e) PROVE MailInv'
  <2>1. /\ m \in DOMAIN lastEventAt
        /\ hook' = [msg |-> m, event |-> e, newest |-> lastEventAt[m] <= e.at]
        /\ UNCHANGED <<config, job, reserved, accepted, lastEventAt, events, suppressed, dead>>
    BY <1>17 DEF Mail!Ingest, Mail!Recorded
  <2>2. hook'.msg = m /\ hook'.event = e
    BY <2>1
  <2> QED
    BY <1>0, <1>14, <1>15, <2>1, <2>2
\* An event is recorded, and suppresses if it is hard.
<1>18. ASSUME NEW m \in DOMAIN lastEventAt, NEW e \in Reports, NEW at \in Times,
              events' = events \cup {<<m, e>>}, lastEventAt' = [lastEventAt EXCEPT ![m] = at],
              suppressed' = (suppressed \/ e.hard), UNCHANGED <<config, job, reserved, accepted, dead>>,
              hook' = hook \/ hook' = None
       PROVE  MailInv'
  <2>1. lastEventAt' \in [DOMAIN lastEventAt -> Times]
    BY <1>0, <1>18
  <2>2. events' \subseteq (DOMAIN lastEventAt) \X Reports
    BY <1>0, <1>18
  <2>3. suppressed' \in BOOLEAN /\ (suppressed => suppressed') /\ (e.hard => suppressed')
    BY <1>18, Zenon
  <2>4. \A q \in events' : q[2].hard => suppressed'
    BY <1>15, <1>18, <2>3
  <2> QED
    BY <1>0, <1>14, <1>18, <2>1, <2>2, <2>3, <2>4
<1>19. ASSUME NEW m \in Mail!Messages, NEW e \in Reports, Mail!IngestMeanwhile(m, e) PROVE MailInv'
  <2>1. /\ m \in DOMAIN lastEventAt /\ events' = events \cup {<<m, e>>}
        /\ lastEventAt' = [lastEventAt EXCEPT ![m] = IF @ <= e.at THEN e.at ELSE @]
        /\ suppressed' = (suppressed \/ e.hard) /\ UNCHANGED <<config, job, reserved, accepted, hook, dead>>
    BY <1>19 DEF Mail!IngestMeanwhile, Mail!Recorded
  <2>2. PICK at : at = IF lastEventAt[m] <= e.at THEN e.at ELSE lastEventAt[m]
    OBVIOUS
  <2>3. at \in Times
    BY <1>0, <1>16, <2>1, <2>2
  <2>4. lastEventAt' = [lastEventAt EXCEPT ![m] = at]
    BY <2>1, <2>2
  <2> QED
    BY <1>18, <2>1, <2>3, <2>4
<1>20. CASE Mail!CommitEvent
  <2>1. /\ hook # None /\ events' = events \cup {<<hook.msg, hook.event>>}
        /\ lastEventAt' = [lastEventAt EXCEPT ![hook.msg] = IF hook.newest THEN hook.event.at ELSE @]
        /\ suppressed' = (suppressed \/ hook.event.hard) /\ hook' = None
        /\ UNCHANGED <<config, job, reserved, accepted, dead>>
    BY <1>20 DEF Mail!CommitEvent
  <2>2. hook.msg \in DOMAIN lastEventAt /\ hook.event \in Reports
    BY <1>0, <2>1
  <2>3. PICK at : at = IF hook.newest THEN hook.event.at ELSE lastEventAt[hook.msg]
    OBVIOUS
  <2>4. at \in Times
    BY <1>0, <1>16, <2>2, <2>3
  <2>5. lastEventAt' = [lastEventAt EXCEPT ![hook.msg] = at]
    BY <2>1, <2>3
  <2> QED
    BY <1>18, <2>1, <2>2, <2>4, <2>5
<1>21. CASE Mail!Rollback
  <2>1. hook' = None /\ UNCHANGED <<config, job, reserved, accepted, lastEventAt, events, suppressed, dead>>
    BY <1>21 DEF Mail!Rollback
  <2> QED
    BY <1>0, <1>14, <1>15, <2>1
<1>22. CASE UNCHANGED mail
  <2>1. UNCHANGED <<config, job, reserved, accepted, lastEventAt, events, suppressed, hook, dead>>
    BY <1>22 DEF mail
  <2> QED
    BY <1>0, <1>14, <1>15, <2>1
<1> QED
  BY <1>5, <1>6, <1>7, <1>9, <1>10, <1>12, <1>13, <1>17, <1>19, <1>20, <1>21, <1>22 DEF Mail!Next

\* A job that is completed is in the ledger, one that is in the dead-letter queue has used up
\* its attempts, and a hard bounce that is recorded suppresses the recipient, in whatever
\* order the webhooks come in (process, ingest).
THEOREM MailIsAccountedFor == PlatformSpec => []MailAccounted
<1> DEFINE Inv == part = "mail" => MailInv
<1>1. PlatformInit => Inv
  BY MailInit DEF PlatformInit
<1>2. Inv /\ [PlatformNext]_platformVars => Inv'
  BY MailNext, PlatformParts
<1>3. Inv => MailAccounted
  BY DEF MailAccounted, MailInv
<1> HIDE DEF Inv
<1> QED
  BY <1>1, <1>2, <1>3, PTL DEF PlatformSpec

===============================================================================
