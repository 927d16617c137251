----------------------------- MODULE SignIn_proofs -----------------------------
(***************************************************************************)
(* Proofs about signing in through somebody else (Federation) and about    *)
(* the ways into one account (SignInMethods), for any number of people,    *)
(* accounts, handles, passkeys, providers and calls: every session is      *)
(* earned, no account is left without a role, signature counters never go  *)
(* back, and a removal takes no more than it should.                       *)
(*                                                                         *)
(* The theorems are about SignInSpec, which the runs check; a component is *)
(* proved about on its own, and SignInParts says that the others leave it  *)
(* alone.                                                                  *)
(***************************************************************************)
EXTENDS MCSignIn, FiniteSetTheorems, TLAPS

LEMMA SignInParts ==
    ASSUME [SignInNext]_signInVars
    PROVE  /\ UNCHANGED part
           /\ part = "federation" => [Provider!Next]_federated
           /\ part = "methods" => [Method!Next]_methods
<1>1. CASE UNCHANGED signInVars
  BY <1>1 DEF signInVars
<1>2. CASE SignInNext
  BY <1>2 DEF SignInNext
<1> QED
  BY <1>1, <1>2

-------------------------------------------------------------------------------
(* Ways into an account *)

\* Where a passkey that was removed is signed in, or about to be, that is excused or
\* somebody is about to end it.
Ending(calls, k) == \E c \in Reqs : calls[c].pc = "signout" /\ calls[c].what = k

\* What a handler knows: an assertion raises the counter that was read, and a removal
\* was decided on with another way in at hand.
MethodCall(call1) ==
    /\ call1.pc \in {"create", "accept", "session", "delete", "signout"} => call1.what \in Things
    /\ call1.pc = "unlink" => call1.what \in Names
    /\ call1.pc = "accept" => call1.count >= call1.old
    /\ call1.pc \in {"delete", "unlink"} => \E w \in call1.ways : w # call1.what

MethodInv ==
    /\ Method!TypeOK
    /\ \A c \in Reqs : MethodCall(ceremony[c])
    /\ \A k \in Things : passkey[k].on => k \notin removed
    /\ \A c \in Reqs : ceremony[c].pc = "session" /\ ceremony[c].what \in removed
         => ceremony[c].what \in outlives \/ Ending(ceremony, ceremony[c].what)
    /\ \A k \in session \cap removed : k \in outlives \/ Ending(ceremony, k)
    /\ removed # {} /\ ~crossed => Method!Ways # {}

MethodCalls ==
    [pc : {"idle", "create", "accept", "session", "delete", "signout", "unlink"},
     what : Things \cup Names \cup {None}, old : 0..MaxCount, count : 0..MaxCount,
     ways : SUBSET (Things \cup Names)]

LEMMA IdleMethod ==
    /\ Method!Idle \in MethodCalls /\ MethodCall(Method!Idle) /\ Method!Idle.pc = "idle"
<1>1. Method!Idle \in MethodCalls
  BY SignInAssumption DEF Method!Idle, MethodCalls
<1> QED
  BY <1>1 DEF Method!Idle, MethodCall

LEMMA MethodInit == Method!Init => MethodInv
<1> SUFFICES ASSUME Method!Init PROVE MethodInv
  OBVIOUS
<1>1. /\ passkey = [k \in Things |-> Method!NoRow] /\ session = {} /\ removed = {}
      /\ ceremony = [c \in Reqs |-> Method!Idle] /\ outlives = {} /\ crossed = FALSE
      /\ identity \subseteq Names
  BY DEF Method!Init
<1>2. Method!NoRow \in [on : BOOLEAN, count : 0..MaxCount] /\ ~Method!NoRow.on
  BY SignInAssumption DEF Method!NoRow
<1>3. /\ ceremony \in [Reqs -> MethodCalls] /\ passkey \in [Things -> [on : BOOLEAN, count : 0..MaxCount]]
      /\ \A c \in Reqs : ceremony[c].pc = "idle" /\ MethodCall(ceremony[c])
  BY <1>1, <1>2, IdleMethod
<1>4. Method!TypeOK
  BY <1>1, <1>3 DEF Method!TypeOK, MethodCalls
<1> QED
  BY <1>1, <1>3, <1>4 DEF MethodInv

\* One call moves: what it removes it goes on to sign out of, and a sign-out that ends
\* has ended what it was for.
LEMMA MethodMoves ==
    ASSUME MethodInv, NEW c \in Reqs, NEW new \in MethodCalls, MethodCall(new),
           ceremony' = [ceremony EXCEPT ![c] = new],
           passkey' \in [Things -> [on : BOOLEAN, count : 0..MaxCount]], identity' \subseteq Names,
           session' \subseteq Things, removed' \subseteq Things \cup Names,
           outlives' \subseteq Things, crossed' \in BOOLEAN, outlives \subseteq outlives',
           \A k \in Things : passkey'[k].on => k \notin removed',
           \A k \in Things \cap removed' :
             k \in removed \/ (new.pc = "signout" /\ new.what = k),
           ceremony[c].pc = "signout" =>
             \/ ceremony[c].what \in outlives'
             \/ /\ session' = {}
                /\ \A d \in Reqs : ceremony[d].pc = "session" => ceremony[d].what \in outlives',
           \A k \in session' :
             k \in session \/ (ceremony[c].pc = "session" /\ ceremony[c].what = k),
           new.pc = "session" => new.what \notin removed',
           removed' # {} /\ ~crossed' => Method!Ways' # {}
    PROVE  MethodInv'
<1>0. /\ ceremony \in [Reqs -> MethodCalls] /\ \A d \in Reqs : MethodCall(ceremony[d])
      /\ removed \subseteq Things \cup Names /\ session \subseteq Things
  BY DEF MethodInv, Method!TypeOK, MethodCalls
<1>1. /\ ceremony' \in [Reqs -> MethodCalls] /\ ceremony'[c] = new
      /\ \A d \in Reqs \ {c} : ceremony'[d] = ceremony[d]
  BY <1>0
<1>2. Method!TypeOK'
  BY <1>1 DEF Method!TypeOK, MethodCalls
<1>3. \A d \in Reqs : MethodCall(ceremony'[d])
  BY <1>0, <1>1
<1>4. ASSUME NEW k \in Things \cap removed', NEW d \in Reqs,
             k \in session' \/ (ceremony'[d].pc = "session" /\ ceremony'[d].what = k)
      PROVE  k \in outlives' \/ Ending(ceremony', k)
  <2>1. CASE k \notin removed
    BY <1>1, <2>1 DEF Ending
  <2>2. CASE k \in removed
    <3>1. \/ k \in session'
          \/ d # c /\ ceremony[d].pc = "session" /\ ceremony[d].what = k
      BY <1>1, <1>4
    <3>2. \/ k \in session
          \/ \E e \in Reqs : ceremony[e].pc = "session" /\ ceremony[e].what = k
      BY <3>1
    <3>3. k \in outlives \/ Ending(ceremony, k)
      BY <2>2, <3>2 DEF MethodInv
    <3>4. CASE k \in outlives
      BY <3>4
    <3>5. CASE Ending(ceremony, k)
      <4>1. PICK e \in Reqs : ceremony[e].pc = "signout" /\ ceremony[e].what = k
        BY <3>5 DEF Ending
      <4>2. CASE e = c
        BY <3>1, <4>1, <4>2
      <4>3. CASE e # c
        BY <1>1, <4>1, <4>3 DEF Ending
      <4> QED
        BY <4>2, <4>3
    <3> QED
      BY <3>3, <3>4, <3>5
  <2> QED
    BY <2>1, <2>2
<1>5. \A d \in Reqs : ceremony'[d].pc = "session" => ceremony'[d].what \in Things
  BY <1>3 DEF MethodCall
<1>6. \A d \in Reqs : ceremony'[d].pc = "session" /\ ceremony'[d].what \in removed'
        => ceremony'[d].what \in outlives' \/ Ending(ceremony', ceremony'[d].what)
  BY <1>4, <1>5
<1>7. \A k \in session' \cap removed' : k \in outlives' \/ Ending(ceremony', k)
  BY <1>4
<1> QED
  BY <1>2, <1>3, <1>6, <1>7 DEF MethodInv

\* Two passkeys, or a provider, leave another way in beside any one.
LEMMA AnotherWay ==
    ASSUME NEW S, NEW x, Method!Cardinality(S) > 1
    PROVE  \E w \in S : w # x
<1>1. Cardinality(S) > 1
  BY DEF Method!Cardinality, Cardinality
<1>2. ASSUME S \subseteq {x} PROVE FALSE
  <2>1. IsFiniteSet({x}) /\ Cardinality({x}) = 1
    BY FS_Singleton
  <2>2. Cardinality(S) \in Nat /\ Cardinality(S) <= 1
    BY <1>2, <2>1, FS_Subset, FS_CardinalityType
  <2> QED
    BY <1>1, <2>2
<1> QED
  BY <1>2

LEMMA MethodNext ==
    ASSUME MethodInv, [Method!Next]_methods
    PROVE  /\ MethodInv'
           /\ \A k \in Things : passkey[k].on /\ passkey'[k].on => passkey'[k].count >= passkey[k].count
<1> DEFINE Forward ==
      \A k \in Things : passkey[k].on /\ passkey'[k].on => passkey'[k].count >= passkey[k].count
<1>0. /\ passkey \in [Things -> [on : BOOLEAN, count : 0..MaxCount]] /\ identity \subseteq Names
      /\ session \subseteq Things /\ ceremony \in [Reqs -> MethodCalls]
      /\ removed \subseteq Things \cup Names /\ outlives \subseteq Things /\ crossed \in BOOLEAN
      /\ MaxCount \in Nat
  BY SignInAssumption DEF MethodInv, Method!TypeOK, MethodCalls
<1>c. \A c \in Reqs : MethodCall(ceremony[c])
  BY DEF MethodInv
<1>k. /\ \A k \in Things : passkey[k].on => k \notin removed
      /\ removed # {} /\ ~crossed => Method!Ways # {}
  BY DEF MethodInv
<1>w. /\ Method!Registered = {k \in Things : passkey[k].on}
      /\ Method!Ways = Method!Registered \cup identity
      /\ Method!Registered' = {k \in Things : passkey'[k].on}
      /\ Method!Ways' = Method!Registered' \cup identity'
  BY DEF Method!Registered, Method!Ways
<1>i. PICK idle \in MethodCalls : idle = Method!Idle /\ MethodCall(idle) /\ idle.pc = "idle"
  BY IdleMethod
<1>f. ASSUME UNCHANGED passkey PROVE Forward
  BY <1>0, <1>f
\* A call that has nothing to sign out of ends, or moves on.
<1>m. ASSUME NEW c \in Reqs, NEW new \in MethodCalls, MethodCall(new),
             ceremony' = [ceremony EXCEPT ![c] = new],
             new.pc = "session" => new.what \notin removed,
             ceremony[c].pc = "signout" => ceremony[c].what \in outlives',
             outlives \subseteq outlives', outlives' \subseteq Things,
             UNCHANGED <<passkey, identity, session, removed, crossed>>
      PROVE  MethodInv' /\ Forward
  <2>1. MethodInv'
    BY <1>0, <1>k, <1>w, <1>m, MethodMoves
  <2> QED
    BY <2>1, <1>f, <1>m
<1>e. ASSUME NEW c \in Reqs, NEW pc \in {"create", "delete", "unlink"}, NEW x \in Things \cup Names,
             Method!Enter(c, pc, x), UNCHANGED <<passkey, identity, session, removed, crossed, outlives>>,
             pc \in {"create", "delete"} => x \in Things, pc = "unlink" => x \in Names,
             pc # "create" => \E w \in Method!Ways : w # x
      PROVE  MethodInv' /\ Forward
  <2>1. PICK ways \in SUBSET (Things \cup Names) : ways = IF pc = "create" THEN {} ELSE Method!Ways
    BY <1>0, <1>w
  <2>2. PICK new : new = [idle EXCEPT !.pc = pc, !.what = x, !.ways = ways]
    OBVIOUS
  <2>3. ceremony' = [ceremony EXCEPT ![c] = new] /\ ceremony[c].pc = "idle"
    BY <1>e, <1>i, <2>1, <2>2 DEF Method!Enter
  <2>4. new \in MethodCalls /\ new.pc = pc /\ new.what = x /\ new.ways = ways
    BY <1>i, <2>2 DEF MethodCalls
  <2>5. MethodCall(new)
    BY <1>e, <2>1, <2>4 DEF MethodCall
  <2> QED
    BY <1>0, <1>e, <1>m, <2>3, <2>4, <2>5
<1>a. ASSUME NEW c \in Reqs, Method!Answer(c), UNCHANGED <<passkey, identity, session, removed, crossed, outlives>>,
             ceremony[c].pc # "signout"
      PROVE  MethodInv' /\ Forward
  BY <1>0, <1>a, <1>i, <1>m DEF Method!Answer
<1>1. ASSUME NEW c \in Reqs, NEW k \in Things, Method!RegistrationOptions(c, k)
      PROVE  MethodInv' /\ Forward
  BY <1>1, <1>e DEF Method!RegistrationOptions
<1>2. ASSUME NEW c \in Reqs, Method!VerifyRegistration(c) PROVE MethodInv' /\ Forward
  <2>1. /\ ceremony[c].pc = "create" /\ Method!Answer(c)
        /\ UNCHANGED <<identity, session, removed, crossed, outlives>>
    BY <1>2 DEF Method!VerifyRegistration
  <2>2. CASE UNCHANGED passkey
    BY <1>a, <2>1, <2>2
  <2>3. CASE ~UNCHANGED passkey
    <3>1. PICK k \in Things, n \in 0..MaxCount :
            /\ k \notin Method!Registered \cup removed
            /\ passkey' = [passkey EXCEPT ![k] = [on |-> TRUE, count |-> n]]
      BY <1>2, <1>c, <2>1, <2>3 DEF Method!VerifyRegistration, MethodCall
    <3>2. PICK fresh \in [on : BOOLEAN, count : 0..MaxCount] : fresh = [on |-> TRUE, count |-> n]
      OBVIOUS
    <3>3. /\ passkey' \in [Things -> [on : BOOLEAN, count : 0..MaxCount]]
          /\ \A l \in Things \ {k} : passkey'[l] = passkey[l]
      BY <1>0, <3>1, <3>2
    <3>4. ~passkey[k].on /\ k \notin removed
      BY <1>w, <3>1
    <3>5. \A l \in Things : passkey'[l].on => l \notin removed'
      BY <1>k, <2>1, <3>3, <3>4
    <3>6. Method!Ways \subseteq Method!Ways'
      BY <1>w, <2>1, <3>3, <3>4
    <3>7. ceremony' = [ceremony EXCEPT ![c] = idle]
      BY <1>i, <2>1 DEF Method!Answer
    <3>8. MethodInv'
      BY <1>0, <1>i, <1>k, <2>1, <3>3, <3>5, <3>6, <3>7, MethodMoves
    <3>9. Forward
      BY <1>0, <3>3, <3>4
    <3> QED
      BY <3>8, <3>9
  <2> QED
    BY <2>2, <2>3
<1>3. ASSUME NEW p \in Names, Method!LinkProvider(p) PROVE MethodInv' /\ Forward
  <2>1. identity' = identity \cup {p} /\ UNCHANGED <<passkey, session, ceremony, removed, crossed, outlives>>
    BY <1>3 DEF Method!LinkProvider
  <2>2. Method!TypeOK'
    BY <2>1 DEF MethodInv, Method!TypeOK
  <2>3. Method!Ways \subseteq Method!Ways'
    BY <1>w, <2>1
  <2>4. \A k : Ending(ceremony', k) <=> Ending(ceremony, k)
    BY <2>1
  <2>5. MethodInv'
    BY <2>1, <2>2, <2>3, <2>4 DEF MethodInv
  <2> QED
    BY <1>f, <2>1, <2>5
<1>4. ASSUME NEW c \in Reqs, NEW k \in Things, NEW n \in 0..MaxCount, Method!Assert(c, k, n)
      PROVE  MethodInv' /\ Forward
  <2>1. /\ k \in Things /\ n >= passkey[k].count /\ ceremony[c].pc = "idle"
        /\ UNCHANGED <<passkey, identity, session, removed, crossed, outlives>>
    BY <1>0, <1>4 DEF Method!Assert
  <2>2. PICK new : new = [idle EXCEPT !.pc = "accept", !.what = k, !.count = n, !.old = passkey[k].count]
    OBVIOUS
  <2>3. ceremony' = [ceremony EXCEPT ![c] = new]
    BY <1>4, <1>i, <2>2 DEF Method!Assert
  <2>4. /\ new \in MethodCalls /\ new.pc = "accept" /\ new.what = k /\ new.count = n
        /\ new.old = passkey[k].count
    BY <1>0, <1>i, <2>2 DEF MethodCalls
  <2>5. MethodCall(new)
    BY <2>1, <2>4 DEF MethodCall
  <2> QED
    BY <1>0, <1>m, <2>1, <2>3, <2>4, <2>5
<1>5. ASSUME NEW c \in Reqs, Method!AcceptAssertion(c) PROVE MethodInv' /\ Forward
  <2>1. /\ ceremony[c].pc = "accept" /\ UNCHANGED <<identity, session, removed, crossed, outlives>>
    BY <1>5 DEF Method!AcceptAssertion
  <2>2. PICK k \in Things : k = ceremony[c].what
    BY <1>c, <2>1 DEF MethodCall
  <2>3. CASE passkey[k].on /\ passkey[k].count = ceremony[c].old
    <3>1. PICK n \in 0..MaxCount : n = ceremony[c].count /\ n >= passkey[k].count
      BY <1>0, <1>c, <2>1, <2>3 DEF MethodCall, MethodCalls
    <3>2. PICK new : new = [ceremony[c] EXCEPT !.pc = "session"]
      OBVIOUS
    <3>3. /\ passkey' = [passkey EXCEPT ![k].count = n]
          /\ ceremony' = [ceremony EXCEPT ![c] = new]
      BY <1>5, <2>2, <2>3, <3>1, <3>2 DEF Method!AcceptAssertion
    <3>4. new \in MethodCalls /\ new.pc = "session" /\ new.what = k
      BY <1>0, <2>2, <3>2 DEF MethodCalls
    <3>5. MethodCall(new)
      BY <3>4 DEF MethodCall
    <3>6. /\ passkey' \in [Things -> [on : BOOLEAN, count : 0..MaxCount]]
          /\ \A l \in Things : passkey'[l].on = passkey[l].on
          /\ \A l \in Things \ {k} : passkey'[l] = passkey[l]
          /\ passkey'[k].count = n
      BY <1>0, <3>3
    <3>7. Method!Ways' = Method!Ways
      BY <1>w, <2>1, <3>6
    <3>8. MethodInv'
      BY <1>0, <1>k, <2>1, <2>3, <3>3, <3>4, <3>5, <3>6, <3>7, MethodMoves
    <3>9. Forward
      BY <1>0, <3>1, <3>6
    <3> QED
      BY <3>8, <3>9
  <2>4. CASE ~(passkey[k].on /\ passkey[k].count = ceremony[c].old)
    BY <1>5, <1>a, <2>1, <2>2, <2>4 DEF Method!AcceptAssertion
  <2> QED
    BY <2>3, <2>4
<1>6. ASSUME NEW c \in Reqs, Method!IssueSession(c) PROVE MethodInv' /\ Forward
  <2>1. /\ ceremony[c].pc = "session" /\ session' = session \cup {ceremony[c].what}
        /\ ceremony' = [ceremony EXCEPT ![c] = idle]
        /\ UNCHANGED <<passkey, identity, removed, crossed, outlives>>
    BY <1>6, <1>i DEF Method!IssueSession, Method!Answer
  <2>2. ceremony[c].what \in Things
    BY <1>c, <2>1 DEF MethodCall
  <2>3. Method!Ways' = Method!Ways
    BY <1>w, <2>1
  <2>4. MethodInv'
    BY <1>0, <1>i, <1>k, <2>1, <2>2, <2>3, MethodMoves
  <2> QED
    BY <1>f, <2>1, <2>4
<1>7. ASSUME NEW c \in Reqs, NEW k \in Things, Method!CountMethods(c, k) PROVE MethodInv' /\ Forward
  <2>1. /\ identity # {} \/ Method!Cardinality(Method!Registered) > 1
        /\ Method!Enter(c, "delete", k)
        /\ UNCHANGED <<passkey, identity, session, removed, crossed, outlives>>
    BY <1>7 DEF Method!CountMethods
  <2>2. \E w \in Method!Ways : w # k
    <3>1. CASE identity # {}
      BY <1>0, <1>w, <3>1, SignInAssumption
    <3>2. CASE Method!Cardinality(Method!Registered) > 1
      <4>1. PICK S : S = Method!Registered /\ Method!Cardinality(S) > 1
        BY <3>2
      <4>2. \E w \in S : w # k
        BY <4>1, AnotherWay
      <4> QED
        BY <1>w, <4>1, <4>2
    <3> QED
      BY <2>1, <3>1, <3>2
  <2> QED
    BY <1>e, <2>1, <2>2
<1>8. ASSUME NEW c \in Reqs, Method!DeletePasskey(c) PROVE MethodInv' /\ Forward
  <2>1. /\ ceremony[c].pc = "delete" /\ UNCHANGED <<identity, session, outlives>>
    BY <1>8 DEF Method!DeletePasskey
  <2>2. PICK k \in Things : k = ceremony[c].what /\ \E w \in ceremony[c].ways : w # k
    BY <1>c, <2>1 DEF MethodCall
  <2>3. CASE passkey[k].on
    <3>1. PICK new : new = [ceremony[c] EXCEPT !.pc = "signout"]
      OBVIOUS
    <3>2. /\ passkey' = [passkey EXCEPT ![k] = Method!NoRow] /\ removed' = removed \cup {k}
          /\ crossed' = (crossed \/ ceremony[c].ways # Method!Ways)
          /\ ceremony' = [ceremony EXCEPT ![c] = new]
      BY <1>8, <2>2, <2>3, <3>1 DEF Method!DeletePasskey
    <3>3. new \in MethodCalls /\ new.pc = "signout" /\ new.what = k
      BY <1>0, <2>2, <3>1 DEF MethodCalls
    <3>4. MethodCall(new)
      BY <3>3 DEF MethodCall
    <3>5. Method!NoRow \in [on : BOOLEAN, count : 0..MaxCount] /\ ~Method!NoRow.on
      BY <1>0 DEF Method!NoRow
    <3>6. /\ passkey' \in [Things -> [on : BOOLEAN, count : 0..MaxCount]] /\ ~passkey'[k].on
          /\ \A l \in Things \ {k} : passkey'[l] = passkey[l]
      BY <1>0, <3>2, <3>5
    <3>7. \A l \in Things : passkey'[l].on => l \notin removed'
      BY <1>k, <3>2, <3>6
    <3>8. Method!Ways' = Method!Ways \ {k}
      BY <1>0, <1>w, <2>1, <3>6, SignInAssumption
    <3>9. ~crossed' => Method!Ways' # {}
      BY <2>2, <3>2, <3>8
    <3>10. crossed' \in BOOLEAN
      BY <3>2
    <3>11. MethodInv'
      BY <1>0, <2>1, <3>2, <3>3, <3>4, <3>6, <3>7, <3>9, <3>10, MethodMoves
    <3>12. Forward
      BY <1>0, <3>6
    <3> QED
      BY <3>11, <3>12
  <2>4. CASE ~passkey[k].on
    BY <1>8, <1>a, <2>1, <2>2, <2>4 DEF Method!DeletePasskey
  <2> QED
    BY <2>3, <2>4
<1>9. ASSUME NEW c \in Reqs, Method!EndOtherSessions(c) PROVE MethodInv' /\ Forward
  <2>1. /\ ceremony[c].pc = "signout" /\ session' = {}
        /\ ceremony' = [ceremony EXCEPT ![c] = idle]
        /\ UNCHANGED <<passkey, identity, removed, crossed>>
        /\ outlives' = outlives \cup {ceremony[d].what : d \in {d \in Reqs : ceremony[d].pc = "session"}}
    BY <1>9, <1>i DEF Method!EndOtherSessions, Method!Answer
  <2>2. \A d \in Reqs : ceremony[d].pc = "session" => ceremony[d].what \in Things /\ ceremony[d].what \in outlives'
    BY <1>c, <2>1 DEF MethodCall
  <2>3. outlives' \subseteq Things /\ outlives \subseteq outlives'
    BY <1>0, <2>1, <2>2
  <2>4. Method!Ways' = Method!Ways
    BY <1>w, <2>1
  <2>5. MethodInv'
    BY <1>0, <1>i, <1>k, <2>1, <2>2, <2>3, <2>4, MethodMoves
  <2> QED
    BY <1>f, <2>1, <2>5
<1>10. ASSUME NEW c \in Reqs, NEW p \in Names, Method!CountIdentities(c, p) PROVE MethodInv' /\ Forward
  <2>1. /\ Method!Cardinality(identity) > 1 /\ Method!Enter(c, "unlink", p)
        /\ UNCHANGED <<passkey, identity, session, removed, crossed, outlives>>
    BY <1>10 DEF Method!CountIdentities
  <2>2. \E w \in Method!Ways : w # p
    <3>1. PICK S : S = identity /\ Method!Cardinality(S) > 1
      BY <2>1
    <3>2. \E w \in S : w # p
      BY <3>1, AnotherWay
    <3> QED
      BY <1>w, <3>1, <3>2
  <2> QED
    BY <1>e, <2>1, <2>2
<1>11. ASSUME NEW c \in Reqs, Method!UnlinkProvider(c) PROVE MethodInv' /\ Forward
  <2>1. /\ ceremony[c].pc = "unlink" /\ UNCHANGED <<passkey, session, outlives>>
        /\ ceremony' = [ceremony EXCEPT ![c] = idle]
        /\ crossed' = (crossed \/ ceremony[c].ways # Method!Ways)
    BY <1>11, <1>i DEF Method!UnlinkProvider, Method!Answer
  <2>2. PICK p \in Names : p = ceremony[c].what /\ \E w \in ceremony[c].ways : w # p
    BY <1>c, <2>1 DEF MethodCall
  <2>3. identity' = identity \ {p} /\ removed' = removed \cup {p}
    BY <1>11, <2>2 DEF Method!UnlinkProvider
  <2>4. ~crossed' => Method!Ways' # {}
    BY <1>w, <2>1, <2>2, <2>3
  <2>5. \A k \in Things : k # p
    BY <2>2, SignInAssumption
  <2>6. crossed' \in BOOLEAN
    BY <2>1
  <2>7. MethodInv'
    BY <1>0, <1>i, <1>k, <2>1, <2>3, <2>4, <2>5, <2>6, MethodMoves
  <2> QED
    BY <1>f, <2>1, <2>7
<1>12. ASSUME NEW c \in Reqs, Method!Abort(c) PROVE MethodInv' /\ Forward
  <2>1. /\ ceremony' = [ceremony EXCEPT ![c] = idle]
        /\ UNCHANGED <<passkey, identity, session, removed, crossed>>
        /\ outlives' = outlives \cup IF ceremony[c].pc = "signout" THEN {ceremony[c].what} ELSE {}
    BY <1>12, <1>i DEF Method!Abort, Method!Answer
  <2>2. ceremony[c].pc = "signout" => ceremony[c].what \in Things
    BY <1>c DEF MethodCall
  <2> QED
    BY <1>0, <1>i, <1>m, <2>1, <2>2
<1>13. CASE UNCHANGED methods
  <2>1. \A k : Ending(ceremony', k) <=> Ending(ceremony, k)
    BY <1>13 DEF methods
  <2>2. MethodInv'
    BY <1>13, <2>1, <1>w DEF methods, MethodInv, Method!TypeOK
  <2> QED
    BY <1>13, <1>f, <2>2 DEF methods
<1> QED
  BY <1>1, <1>2, <1>3, <1>4, <1>5, <1>6, <1>7, <1>8, <1>9, <1>10, <1>11, <1>12, <1>13 DEF Method!Next

\* A removal takes what it removes and no more: an account without a password keeps a
\* way in, and the sessions of a removed passkey end with it (deletePasskey,
\* unlinkProvider), unless calls crossed as RemovalInStep says.
THEOREM RemovalsTakeNoMore == SignInSpec => []RemovalInStep
<1> DEFINE Inv == part = "methods" => MethodInv
<1>1. SignInInit => Inv
  BY MethodInit DEF SignInInit
<1>2. Inv /\ [SignInNext]_signInVars => Inv'
  BY MethodNext, SignInParts
<1>3. Inv => RemovalInStep
  BY DEF RemovalInStep, MethodInv, Method!RemovalInStep, Ending
<1> HIDE DEF Inv
<1> QED
  BY <1>1, <1>2, <1>3, PTL DEF SignInSpec

\* The signature counter of a passkey never goes back, however assertions overlap
\* (verifyAuthentication updates on the counter it has read).
THEOREM CountersNeverGoBack == SignInSpec => CounterNeverBack
<1> DEFINE Inv == part = "methods" => MethodInv
           Rises == part = "methods" =>
                     \A k \in Things : passkey[k].on /\ passkey'[k].on
                                         => passkey'[k].count >= passkey[k].count
<1>1. SignInInit => Inv
  BY MethodInit DEF SignInInit
<1>2. Inv /\ [SignInNext]_signInVars => Inv' /\ Rises
  BY MethodNext, SignInParts
<1>3. [][Rises]_signInVars <=> CounterNeverBack
  BY DEF CounterNeverBack
<1> HIDE DEF Inv, Rises
<1>4. Inv /\ [SignInNext]_signInVars => [Rises]_signInVars
  BY <1>2
<1> QED
  BY <1>1, <1>2, <1>3, <1>4, PTL DEF SignInSpec

-------------------------------------------------------------------------------
(* Sign-in through somebody else *)

Social == {"login", "link", "ticket"}
Tenants == {"saml", "oidc"}

\* What is so of a handle that was created.
Made(h) == h.state # "unused" => h.kind \in Provider!Journeys /\ (h.kind = "link" => h.user \in Names)

\* What a callback that runs may rely on: its handle is gone and has led to nothing yet,
\* it has seen whomever the identity belongs to, and when a session is due, the account
\* is one that the kind of handle may sign in to.
Vouched(k, handles, users, owners, done) ==
    k.pc # "idle" =>
      /\ k.handle \in Handles /\ k.person \in Things
      /\ handles[k.handle].state = "gone" /\ k.handle \notin done
      /\ owners[k.person] # None => owners[k.person] \in k.owners
      /\ handles[k.handle].kind = "link" => k.user \in Names
      /\ k.pc \in {"link", "create"} => handles[k.handle].kind = "link"
      /\ k.pc \in {"resolve", "match"} => handles[k.handle].kind = "login"
      /\ k.pc = "register" => handles[k.handle].kind = "ticket"
      /\ k.pc = "replay" => handles[k.handle].kind = "saml"
      /\ k.pc \in {"find", "role"} => handles[k.handle].kind \in Tenants
      /\ k.pc \in {"role", "session"} /\ handles[k.handle].kind \in Tenants =>
           k.user \in Names /\ users[k.user].sso /\ users[k.user].mail = k.person
      /\ k.pc = "session" /\ handles[k.handle].kind \notin Tenants => k.user \in k.owners

FedInv ==
    /\ Provider!TypeOK
    /\ \A h \in Handles : Made(handle[h])
    /\ \A c \in Reqs : Vouched(callback[c], handle, user, owner, used)
    /\ \A c, d \in Reqs : callback[c].pc # "idle" /\ callback[d].pc # "idle"
                            /\ callback[c].handle = callback[d].handle => c = d
    /\ \A h \in used : handle[h].state = "gone"
    /\ Provider!SessionsEarned
    /\ Provider!NoAccountWithoutRole

HandleRow ==
    [state : {"unused", "live", "gone"}, kind : Provider!Journeys \cup {None},
     person : Things \cup {None}, user : Names \cup {None}]

UserRow == [mail : Things \cup {None}, sso : BOOLEAN, active : BOOLEAN, role : BOOLEAN]

FedCalls ==
    [pc : {"idle", "fetch", "link", "create", "resolve", "match", "register", "replay", "find",
           "role", "session"},
     handle : Handles \cup {None}, person : Things \cup {None}, user : Names \cup {None},
     owners : SUBSET (Names \cup {None})]

LEMMA FedTypes ==
    /\ Provider!TypeOK <=>
         /\ handle \in [Handles -> HandleRow] /\ user \in [Names -> UserRow]
         /\ owner \in [Things -> Names \cup {None}] /\ seen \subseteq Things
         /\ callback \in [Reqs -> FedCalls]
         /\ used \subseteq Handles /\ again \subseteq used
         /\ stranger \in BOOLEAN /\ died \in BOOLEAN
    /\ Provider!TypeOK' <=>
         /\ handle' \in [Handles -> HandleRow] /\ user' \in [Names -> UserRow]
         /\ owner' \in [Things -> Names \cup {None}] /\ seen' \subseteq Things
         /\ callback' \in [Reqs -> FedCalls]
         /\ used' \subseteq Handles /\ again' \subseteq used'
         /\ stranger' \in BOOLEAN /\ died' \in BOOLEAN
BY DEF Provider!TypeOK, HandleRow, UserRow, FedCalls

LEMMA FedConstants ==
    /\ Provider!Idle \in FedCalls /\ Provider!Idle.pc = "idle"
    /\ Provider!Fresh \in HandleRow /\ Provider!Fresh.state = "unused"
    /\ Provider!NoUser \in UserRow /\ Provider!NoUser.mail = None
<1>1. Provider!Idle \in FedCalls /\ Provider!Idle.pc = "idle"
  BY DEF Provider!Idle, FedCalls
<1>2. Provider!Fresh \in HandleRow /\ Provider!Fresh.state = "unused"
  BY DEF Provider!Fresh, HandleRow
<1>3. Provider!NoUser \in UserRow /\ Provider!NoUser.mail = None
  BY DEF Provider!NoUser, UserRow
<1> QED
  BY <1>1, <1>2, <1>3

LEMMA FedInit == Provider!Init => FedInv
<1> SUFFICES ASSUME Provider!Init PROVE FedInv
  OBVIOUS
<1>1. PICK u \in Names, p \in Things, linked \in BOOLEAN :
        /\ user = [v \in Names |-> IF v = u THEN [mail |-> p, sso |-> TRUE, active |-> TRUE, role |-> TRUE]
                                   ELSE Provider!NoUser]
        /\ owner = [q \in Things |-> IF q = p /\ linked THEN u ELSE None]
  BY DEF Provider!Init
<1>2. /\ handle = [h \in Handles |-> Provider!Fresh] /\ seen = {}
      /\ callback = [c \in Reqs |-> Provider!Idle]
      /\ used = {} /\ again = {} /\ stranger = FALSE /\ died = FALSE
  BY DEF Provider!Init
<1>3. PICK account : account = [mail |-> p, sso |-> TRUE, active |-> TRUE, role |-> TRUE]
  OBVIOUS
<1>4. account \in UserRow /\ account.role
  BY <1>3 DEF UserRow
<1>5. user = [v \in Names |-> IF v = u THEN account ELSE Provider!NoUser]
  BY <1>1, <1>3
<1>6. /\ user \in [Names -> UserRow] /\ \A v \in Names : user[v].mail # None => user[v].role
      /\ handle \in [Handles -> HandleRow] /\ \A h \in Handles : handle[h].state = "unused"
      /\ callback \in [Reqs -> FedCalls] /\ \A c \in Reqs : callback[c].pc = "idle"
  BY <1>2, <1>4, <1>5, FedConstants
<1>7. owner \in [Things -> Names \cup {None}]
  BY <1>1
<1>8. Provider!TypeOK
  BY <1>2, <1>6, <1>7, FedTypes
<1>9. Provider!SessionsEarned /\ Provider!NoAccountWithoutRole
  BY <1>2, <1>6 DEF Provider!SessionsEarned, Provider!NoAccountWithoutRole
<1> QED
  BY <1>2, <1>6, <1>8, <1>9 DEF FedInv, Made, Vouched

\* What a callback relies on stays so while others move.
LEMMA OthersVouched ==
    ASSUME NEW k, NEW l, NEW handles, NEW users, NEW owners, NEW done,
           NEW handles1, NEW users1, NEW owners1, NEW done1,
           Vouched(k, handles, users, owners, done),
           l.pc = k.pc, l.handle = k.handle, l.person = k.person, l.user = k.user,
           \A x \in k.owners : x \in l.owners,
           \A h \in Handles : handles[h].state = "gone" => handles1[h] = handles[h],
           \A u \in Names : users[u].mail # None =>
             users1[u].mail = users[u].mail /\ users1[u].sso = users[u].sso,
           k.pc # "idle" => /\ k.handle \notin done1
                            /\ \/ owners1[k.person] = None \/ owners1[k.person] = owners[k.person]
                               \/ owners1[k.person] \in l.owners
    PROVE  Vouched(l, handles1, users1, owners1, done1)
BY SignInAssumption DEF Vouched

\* One callback moves, and nothing that others rely on changes.
FedStep(c, new) ==
    /\ handle' \in [Handles -> HandleRow] /\ user' \in [Names -> UserRow]
    /\ owner' \in [Things -> Names \cup {None}] /\ seen' \subseteq Things
    /\ callback' \in [Reqs -> FedCalls] /\ callback'[c] = new
    /\ used' \subseteq Handles /\ again' = {} /\ ~stranger' /\ stranger' \in BOOLEAN
    /\ died' \in BOOLEAN /\ (died => died')
    /\ \A d \in Reqs \ {c} :
         /\ callback'[d].pc = callback[d].pc /\ callback'[d].handle = callback[d].handle
         /\ callback'[d].person = callback[d].person /\ callback'[d].user = callback[d].user
         /\ \A x \in callback[d].owners : x \in callback'[d].owners
         /\ callback[d].pc # "idle" =>
              \/ owner'[callback[d].person] = None
              \/ owner'[callback[d].person] = owner[callback[d].person]
              \/ owner'[callback[d].person] \in callback'[d].owners
    /\ \A h \in Handles : (handle[h].state = "gone" => handle'[h] = handle[h]) /\ Made(handle'[h])
    /\ \A u \in Names : user[u].mail # None =>
         user'[u].mail = user[u].mail /\ user'[u].sso = user[u].sso
    /\ \A h \in used' :
         h \in used \/ (callback[c].pc # "idle" /\ h = callback[c].handle /\ new.pc = "idle")
    /\ new.pc # "idle" =>
         \/ callback[c].pc # "idle" /\ new.handle = callback[c].handle
         \/ handle[new.handle].state # "gone"
    /\ \A u \in Names : user'[u].mail # None /\ ~user'[u].role /\ ~died' =>
         \/ new.pc = "role" /\ new.user = u
         \/ /\ user[u].mail # None /\ ~user[u].role
            /\ ~(callback[c].pc = "role" /\ callback[c].user = u)

LEMMA FedMoves ==
    ASSUME FedInv, NEW c \in Reqs, NEW new, FedStep(c, new),
           Vouched(new, handle', user', owner', used')
    PROVE  FedInv'
<1>1. Provider!TypeOK'
  BY FedTypes DEF FedStep
<1>2. /\ callback \in [Reqs -> FedCalls]
      /\ \A d \in Reqs : Vouched(callback[d], handle, user, owner, used)
      /\ \A d, e \in Reqs : callback[d].pc # "idle" /\ callback[e].pc # "idle"
                              /\ callback[d].handle = callback[e].handle => d = e
      /\ \A h \in used : handle[h].state = "gone"
  BY FedTypes DEF FedInv
<1>3. ASSUME NEW d \in Reqs PROVE Vouched(callback'[d], handle', user', owner', used')
  <2>1. CASE d = c
    BY <2>1 DEF FedStep
  <2>2. CASE d # c
    <3>1. callback[d].pc # "idle" => callback[d].handle \notin used /\ callback[d].handle \in Handles
      BY <1>2 DEF Vouched
    <3>2. callback[d].pc # "idle" => callback[d].handle \notin used'
      BY <1>2, <2>2, <3>1 DEF FedStep
    <3>3. /\ callback'[d].pc = callback[d].pc /\ callback'[d].handle = callback[d].handle
          /\ callback'[d].person = callback[d].person /\ callback'[d].user = callback[d].user
          /\ \A x \in callback[d].owners : x \in callback'[d].owners
          /\ callback[d].pc # "idle" =>
               \/ owner'[callback[d].person] = None
               \/ owner'[callback[d].person] = owner[callback[d].person]
               \/ owner'[callback[d].person] \in callback'[d].owners
      BY <2>2 DEF FedStep
    <3>4. /\ \A h \in Handles : handle[h].state = "gone" => handle'[h] = handle[h]
          /\ \A u \in Names : user[u].mail # None =>
               user'[u].mail = user[u].mail /\ user'[u].sso = user[u].sso
      BY DEF FedStep
    <3> QED
      BY <1>2, <3>2, <3>3, <3>4, OthersVouched
  <2> QED
    BY <2>1, <2>2
<1>4. ASSUME NEW d \in Reqs, NEW e \in Reqs, callback'[d].pc # "idle", callback'[e].pc # "idle",
             callback'[d].handle = callback'[e].handle
      PROVE  d = e
  <2>1. \A g \in Reqs \ {c} : callback'[g].pc # "idle" =>
          /\ callback[g].pc # "idle" /\ callback[g].handle = callback'[g].handle
          /\ handle[callback[g].handle].state = "gone"
    BY <1>2 DEF FedStep, Vouched
  <2>2. \A g \in Reqs \ {c} : callback'[c].pc # "idle" /\ callback'[g].pc # "idle"
          => callback'[g].handle # callback'[c].handle
    BY <1>2, <2>1 DEF FedStep
  <2> QED
    BY <1>2, <1>4, <2>1, <2>2
<1>5. \A h \in used' : handle'[h].state = "gone"
  <2>1. callback[c].pc # "idle" => /\ callback[c].handle \in Handles
                                   /\ handle[callback[c].handle].state = "gone"
    BY <1>2 DEF Vouched
  <2>2. \A h \in used' : h \in Handles /\ handle[h].state = "gone"
    BY <1>2, <2>1 DEF FedStep
  <2> QED
    BY <2>2 DEF FedStep
<1>6. Provider!SessionsEarned'
  BY DEF FedStep, Provider!SessionsEarned
<1>7. Provider!NoAccountWithoutRole'
  <2>1. SUFFICES ASSUME ~died', NEW u \in Names, user'[u].mail # None, ~user'[u].role
                 PROVE  \E d \in Reqs : callback'[d].pc = "role" /\ callback'[d].user = u
    BY DEF Provider!NoAccountWithoutRole
  <2>2. CASE new.pc = "role" /\ new.user = u
    BY <2>2 DEF FedStep
  <2>3. CASE ~(new.pc = "role" /\ new.user = u)
    <3>1. /\ ~died /\ user[u].mail # None /\ ~user[u].role
          /\ ~(callback[c].pc = "role" /\ callback[c].user = u)
      BY <2>1, <2>3 DEF FedStep
    <3>2. PICK d \in Reqs : callback[d].pc = "role" /\ callback[d].user = u
      BY <3>1 DEF FedInv, Provider!NoAccountWithoutRole
    <3> QED
      BY <3>1, <3>2 DEF FedStep
  <2> QED
    BY <2>2, <2>3
<1> QED
  BY <1>1, <1>3, <1>4, <1>5, <1>6, <1>7 DEF FedInv, FedStep

\* No callback moves.
LEMMA FedRests ==
    ASSUME FedInv, UNCHANGED <<callback, used, again, stranger, died>>,
           handle' \in [Handles -> HandleRow], user' \in [Names -> UserRow],
           owner' \in [Things -> Names \cup {None}], seen' \subseteq Things,
           \A p \in Things : owner'[p] = None \/ owner'[p] = owner[p],
           \A h \in Handles : (handle[h].state = "gone" => handle'[h] = handle[h]) /\ Made(handle'[h]),
           \A u \in Names : /\ user'[u].mail = user[u].mail /\ user'[u].sso = user[u].sso
                            /\ user'[u].role = user[u].role
    PROVE  FedInv'
<1>1. Provider!TypeOK'
  BY FedTypes DEF FedInv
<1>2. ASSUME NEW d \in Reqs PROVE Vouched(callback'[d], handle', user', owner', used')
  <2>1. Vouched(callback[d], handle, user, owner, used)
    BY DEF FedInv
  <2>2. callback[d].pc # "idle" => callback[d].handle \notin used /\ callback[d].person \in Things
    BY <2>1 DEF Vouched
  <2>3. Vouched(callback[d], handle', user', owner', used')
    BY <2>1, <2>2, OthersVouched
  <2> QED
    BY <2>3
<1>3. \A h \in used' : handle'[h].state = "gone"
  BY FedTypes DEF FedInv
<1>4. Provider!SessionsEarned' /\ Provider!NoAccountWithoutRole'
  BY DEF FedInv, Provider!SessionsEarned, Provider!NoAccountWithoutRole
<1> QED
  BY <1>1, <1>2, <1>3, <1>4 DEF FedInv

LEMMA FedNext == FedInv /\ [Provider!Next]_federated => FedInv'
<1> SUFFICES ASSUME FedInv, [Provider!Next]_federated PROVE FedInv'
  OBVIOUS
<1>0. /\ handle \in [Handles -> HandleRow] /\ user \in [Names -> UserRow]
      /\ owner \in [Things -> Names \cup {None}] /\ seen \subseteq Things
      /\ callback \in [Reqs -> FedCalls]
      /\ used \subseteq Handles /\ again = {} /\ ~stranger /\ stranger \in BOOLEAN
      /\ died \in BOOLEAN
  BY FedTypes DEF FedInv, Provider!SessionsEarned
<1>v. \A c \in Reqs : Vouched(callback[c], handle, user, owner, used)
  BY DEF FedInv
<1>h. /\ \A h \in Handles : Made(handle[h])
      /\ \A h \in used : handle[h].state = "gone"
  BY DEF FedInv
<1>i. PICK idle \in FedCalls : idle = Provider!Idle /\ idle.pc = "idle"
  BY FedConstants
\* What a callback knows as it runs.
<1>k. ASSUME NEW c \in Reqs, callback[c].pc # "idle"
      PROVE  /\ callback[c] \in FedCalls /\ callback[c].handle \in Handles /\ callback[c].person \in Things
             /\ handle[callback[c].handle].state = "gone"
             /\ handle[callback[c].handle].kind \in Provider!Journeys
             /\ callback[c].handle \notin used
  BY <1>0, <1>v, <1>h, <1>k DEF Vouched, Made
\* A callback goes on or ends, and writes no row but that an assertion was seen.
<1>m. ASSUME NEW c \in Reqs, NEW new \in FedCalls, callback' = [callback EXCEPT ![c] = new],
             UNCHANGED <<handle, user, owner, used, again, stranger>>, seen' \subseteq Things,
             died' \in BOOLEAN, died => died', callback[c].pc = "role" => died',
             new.pc # "idle" => callback[c].pc # "idle" /\ new.handle = callback[c].handle,
             Vouched(new, handle, user, owner, used)
      PROVE  FedInv'
  <2>1. /\ callback' \in [Reqs -> FedCalls] /\ callback'[c] = new
        /\ \A d \in Reqs \ {c} : callback'[d] = callback[d]
    BY <1>0, <1>m
  <2>2. FedStep(c, new)
    BY <1>0, <1>h, <1>m, <2>1 DEF FedStep
  <2> QED
    BY <1>m, <2>2, FedMoves
<1>e. ASSUME NEW c \in Reqs, Provider!Answer(c),
             UNCHANGED <<handle, user, owner, used, again, stranger>>, seen' \subseteq Things,
             died' \in BOOLEAN, died => died', callback[c].pc = "role" => died'
      PROVE  FedInv'
  <2>1. callback' = [callback EXCEPT ![c] = idle]
    BY <1>e, <1>i DEF Provider!Answer
  <2>2. Vouched(idle, handle, user, owner, used)
    BY <1>i DEF Vouched
  <2> QED
    BY <1>e, <1>i, <1>m, <2>1, <2>2
<1>g. ASSUME NEW c \in Reqs, NEW pc \in {"link", "create", "resolve", "match", "register", "replay", "find",
                                         "session"},
             Provider!Goto(c, pc), callback[c].pc \notin {"idle", "role"},
             UNCHANGED <<handle, user, owner, used, again, stranger, died>>, seen' \subseteq Things,
             pc \in {"link", "create"} => handle[callback[c].handle].kind = "link",
             pc \in {"resolve", "match"} => handle[callback[c].handle].kind = "login",
             pc = "register" => handle[callback[c].handle].kind = "ticket",
             pc = "replay" => handle[callback[c].handle].kind = "saml",
             pc = "find" => handle[callback[c].handle].kind \in Tenants,
             pc = "session" => /\ handle[callback[c].handle].kind = "link"
                               /\ callback[c].user \in callback[c].owners
      PROVE  FedInv'
  <2>1. PICK new : new = [callback[c] EXCEPT !.pc = pc]
    OBVIOUS
  <2>2. callback' = [callback EXCEPT ![c] = new]
    BY <1>g, <2>1 DEF Provider!Goto
  <2>3. /\ new \in FedCalls /\ new.pc = pc /\ new.handle = callback[c].handle
        /\ new.person = callback[c].person /\ new.user = callback[c].user
        /\ new.owners = callback[c].owners
    BY <1>0, <2>1 DEF FedCalls
  <2>4. Vouched(new, handle, user, owner, used)
    BY <1>g, <1>v, <2>3 DEF Vouched, Tenants
  <2> QED
    BY <1>0, <1>g, <1>m, <2>2, <2>3, <2>4
\* Handles
<1>r. ASSUME NEW h \in Handles, NEW made \in HandleRow, handle' = [handle EXCEPT ![h] = made],
             handle[h].state # "gone", Made(made)
      PROVE  /\ handle' \in [Handles -> HandleRow] /\ handle'[h] = made
             /\ \A l \in Handles : (handle[l].state = "gone" => handle'[l] = handle[l]) /\ Made(handle'[l])
  BY <1>0, <1>h, <1>r
<1>n. ASSUME NEW h \in Handles, NEW kind \in Provider!Journeys, NEW p \in Things \cup {None},
             NEW u \in Names \cup {None}, Provider!Create(h, kind, p, u), kind = "link" => u \in Names
      PROVE  /\ handle' \in [Handles -> HandleRow]
             /\ \A l \in Handles : (handle[l].state = "gone" => handle'[l] = handle[l]) /\ Made(handle'[l])
  <2>1. PICK made : made = [state |-> "live", kind |-> kind, person |-> p, user |-> u]
    OBVIOUS
  <2>2. made \in HandleRow /\ Made(made)
    BY <1>n, <2>1 DEF HandleRow, Made
  <2>3. handle' = [handle EXCEPT ![h] = made] /\ handle[h].state = "unused"
    BY <1>n, <2>1 DEF Provider!Create
  <2> QED
    BY <1>r, <2>2, <2>3
<1>x. ASSUME NEW h \in Handles, handle[h].state = "live", handle' = [handle EXCEPT ![h].state = "gone"]
      PROVE  /\ handle' \in [Handles -> HandleRow]
             /\ handle'[h].state = "gone" /\ handle'[h].kind = handle[h].kind
             /\ \A l \in Handles : (handle[l].state = "gone" => handle'[l] = handle[l]) /\ Made(handle'[l])
  <2>1. PICK made : made = [handle[h] EXCEPT !.state = "gone"]
    OBVIOUS
  <2>2. made \in HandleRow /\ made.state = "gone" /\ made.kind = handle[h].kind /\ made.user = handle[h].user
    BY <1>0, <2>1 DEF HandleRow
  <2>3. Made(made)
    BY <1>h, <1>x, <2>2 DEF Made
  <2> QED
    BY <1>r, <1>x, <2>1, <2>2, <2>3
<1>1. ASSUME NEW h \in Handles, NEW kind \in Provider!Journeys, NEW u \in Names \cup {None},
             Provider!Start(h, kind, u)
      PROVE  FedInv'
  <2>1. /\ Provider!Create(h, kind, None, u)
        /\ kind = "link" => u \in Names
        /\ UNCHANGED <<user, owner, seen, callback, used, again, stranger, died>>
    BY <1>1 DEF Provider!Start
  <2>2. /\ handle' \in [Handles -> HandleRow]
        /\ \A l \in Handles : (handle[l].state = "gone" => handle'[l] = handle[l]) /\ Made(handle'[l])
    <3>1. None \in Things \cup {None}
      OBVIOUS
    <3> QED
      BY <1>n, <2>1, <3>1
  <2>3. /\ user' = user /\ owner' = owner /\ seen' = seen
        /\ UNCHANGED <<callback, used, again, stranger, died>>
    BY <2>1
  <2> QED
    BY <1>0, <2>2, <2>3, FedRests
<1>2. ASSUME NEW h \in Handles, Provider!Expire(h) PROVE FedInv'
  <2>1. /\ handle[h].state = "live" /\ handle' = [handle EXCEPT ![h].state = "gone"]
        /\ UNCHANGED <<user, owner, seen, callback, used, again, stranger, died>>
    BY <1>2 DEF Provider!Expire
  <2> QED
    BY <1>0, <1>x, <2>1, FedRests
<1>3. ASSUME NEW h \in Handles, NEW c \in Reqs, Provider!Consume(c, h) PROVE FedInv'
  <2>1. /\ callback[c].pc = "idle" /\ handle[h].state = "live"
        /\ handle' = [handle EXCEPT ![h].state = "gone"]
        /\ UNCHANGED <<user, owner, seen, used, again, stranger, died>>
    BY <1>3 DEF Provider!Consume
  <2>2. PICK p \in Things :
          callback' = [callback EXCEPT ![c] = [pc |-> "fetch", handle |-> h, person |-> p,
                                               user |-> handle[h].user, owners |-> {owner[p]}]]
    BY <1>3 DEF Provider!Consume
  <2>3. PICK new : new = [pc |-> "fetch", handle |-> h, person |-> p, user |-> handle[h].user,
                          owners |-> {owner[p]}]
    OBVIOUS
  <2>4. /\ handle[h].user \in Names \cup {None} /\ owner[p] \in Names \cup {None}
        /\ handle[h].kind = "link" => handle[h].user \in Names
        /\ h \notin used
    BY <1>0, <1>h, <2>1 DEF HandleRow, Made
  <2>5. new \in FedCalls
    BY <2>3, <2>4 DEF FedCalls
  <2>6. Vouched(new, handle', user', owner', used')
    BY <1>x, <2>1, <2>3, <2>4 DEF Vouched
  <2>7. /\ callback' \in [Reqs -> FedCalls] /\ callback'[c] = new
        /\ \A d \in Reqs \ {c} : callback'[d] = callback[d]
    BY <1>0, <2>2, <2>3, <2>5
  <2>8. new.handle = h /\ new.pc = "fetch"
    BY <2>3
  <2>9. FedStep(c, new)
    BY <1>0, <1>x, <2>1, <2>7, <2>8 DEF FedStep
  <2> QED
    BY <2>6, <2>9, FedMoves
<1>4. ASSUME NEW c \in Reqs, Provider!Dispatch(c) PROVE FedInv'
  <2>1. callback[c].pc = "fetch" /\ UNCHANGED <<handle, user, owner, seen, used, again, stranger, died>>
    BY <1>4 DEF Provider!Dispatch
  <2>2. PICK kind \in Provider!Journeys : kind = handle[callback[c].handle].kind
    BY <1>k, <2>1
  <2>3. Provider!Goto(c, CASE kind = "link" -> "link" [] kind = "login" -> "resolve"
                           [] kind = "ticket" -> "register" [] kind = "saml" -> "replay"
                           [] kind = "oidc" -> "find")
    BY <1>4, <2>2 DEF Provider!Dispatch
  <2>4. \/ kind = "link" /\ Provider!Goto(c, "link")
        \/ kind = "login" /\ Provider!Goto(c, "resolve")
        \/ kind = "ticket" /\ Provider!Goto(c, "register")
        \/ kind = "saml" /\ Provider!Goto(c, "replay")
        \/ kind = "oidc" /\ Provider!Goto(c, "find")
    BY <2>2, <2>3 DEF Provider!Journeys
  <2> QED
    BY <1>0, <1>g, <2>1, <2>2, <2>4 DEF Tenants
\* Social providers
<1>5. ASSUME NEW c \in Reqs, Provider!LookupIdentity(c) PROVE FedInv'
  <2>1. callback[c].pc = "link" /\ UNCHANGED <<handle, user, owner, seen, used, again, stranger, died>>
    BY <1>5 DEF Provider!LookupIdentity
  <2>2. PICK u : u = owner[callback[c].person]
    OBVIOUS
  <2>3. /\ handle[callback[c].handle].kind = "link" /\ callback[c].user \in Names
        /\ u # None => u \in callback[c].owners
    BY <1>v, <2>1, <2>2 DEF Vouched
  <2>4. \/ Provider!Answer(c)
        \/ u = None /\ Provider!Goto(c, "create")
        \/ u # None /\ u = callback[c].user /\ Provider!Goto(c, "session")
    BY <1>5, <2>2 DEF Provider!LookupIdentity
  <2> QED
    BY <1>0, <1>e, <1>g, <2>1, <2>3, <2>4
\* An identity is bound: whoever of that person runs has seen it.
<1>b. ASSUME NEW c \in Reqs, NEW p \in Things, NEW u \in Names, Provider!Bind(p, u, c, "session"),
             callback[c].pc \in {"create", "register"}, p = callback[c].person,
             user' \in [Names -> UserRow],
             \A x \in Names : user[x].mail # None =>
               user'[x].mail = user[x].mail /\ user'[x].sso = user[x].sso,
             \A x \in Names : user'[x].mail # None /\ ~user'[x].role =>
               user[x].mail # None /\ ~user[x].role,
             UNCHANGED <<handle, seen, used, again, stranger, died>>
      PROVE  FedInv'
  <2>1. PICK new : new = [callback[c] EXCEPT !.pc = "session", !.user = u, !.owners = @ \cup {u}]
    OBVIOUS
  <2>2. /\ new \in FedCalls /\ new.pc = "session" /\ new.handle = callback[c].handle
        /\ new.person = p /\ new.user = u /\ new.owners = callback[c].owners \cup {u}
    BY <1>0, <1>b, <2>1 DEF FedCalls
  <2>3. /\ owner' = [owner EXCEPT ![p] = u]
        /\ callback' = [d \in Reqs |->
             IF d = c THEN new
             ELSE IF callback[d].person = p THEN [callback[d] EXCEPT !.owners = @ \cup {u}]
                  ELSE callback[d]]
    BY <1>b, <2>1 DEF Provider!Bind
  <2>4. ASSUME NEW d \in Reqs \ {c}
        PROVE  /\ callback'[d] \in FedCalls
               /\ callback'[d].pc = callback[d].pc /\ callback'[d].handle = callback[d].handle
               /\ callback'[d].person = callback[d].person /\ callback'[d].user = callback[d].user
               /\ \A x \in callback[d].owners : x \in callback'[d].owners
               /\ callback[d].person = p => u \in callback'[d].owners
    <3>1. CASE callback[d].person = p
      <4>1. PICK k : k = [callback[d] EXCEPT !.owners = @ \cup {u}]
        OBVIOUS
      <4>2. /\ k \in FedCalls /\ k.pc = callback[d].pc /\ k.handle = callback[d].handle
            /\ k.person = callback[d].person /\ k.user = callback[d].user
            /\ k.owners = callback[d].owners \cup {u}
        BY <1>0, <4>1 DEF FedCalls
      <4>3. callback'[d] = k
        BY <2>3, <3>1, <4>1
      <4> QED
        BY <4>2, <4>3
    <3>2. CASE callback[d].person # p
      BY <1>0, <2>3, <3>2
    <3> QED
      BY <3>1, <3>2
  <2>5. owner' \in [Things -> Names \cup {None}]
    BY <1>0, <2>3
  <2>6. /\ callback' \in [Reqs -> FedCalls] /\ callback'[c] = new
    <3>1. \A d \in Reqs : callback'[d] \in FedCalls
      BY <2>2, <2>3, <2>4
    <3> QED
      BY <2>3, <3>1
  <2>7. ASSUME NEW d \in Reqs \ {c}, callback[d].pc # "idle"
        PROVE  \/ owner'[callback[d].person] = owner[callback[d].person]
               \/ owner'[callback[d].person] \in callback'[d].owners
    BY <1>0, <1>k, <2>3, <2>4, <2>7
  <2>8. handle[callback[c].handle].kind \notin Tenants
    BY <1>b, <1>v DEF Vouched, Tenants
  <2>9. Vouched(new, handle', user', owner', used')
    BY <1>0, <1>b, <1>v, <2>2, <2>3, <2>8 DEF Vouched
  <2>10. FedStep(c, new)
    BY <1>0, <1>h, <1>b, <2>2, <2>4, <2>5, <2>6, <2>7 DEF FedStep
  <2> QED
    BY <2>9, <2>10, FedMoves
<1>6. ASSUME NEW c \in Reqs, Provider!CreateIdentity(c) PROVE FedInv'
  <2>1. callback[c].pc = "create" /\ UNCHANGED <<handle, user, seen, used, again, stranger, died>>
    BY <1>6 DEF Provider!CreateIdentity
  <2>2. callback[c].user \in Names /\ callback[c].person \in Things
    BY <1>v, <2>1 DEF Vouched
  <2>3. \/ Provider!Bind(callback[c].person, callback[c].user, c, "session")
        \/ Provider!Answer(c) /\ UNCHANGED owner
    BY <1>6 DEF Provider!CreateIdentity
  <2> QED
    BY <1>0, <1>b, <1>e, <2>1, <2>2, <2>3
<1>7. ASSUME NEW c \in Reqs, Provider!ResolveLinkedUser(c) PROVE FedInv'
  <2>1. callback[c].pc = "resolve" /\ UNCHANGED <<handle, user, owner, seen, used, again, stranger, died>>
    BY <1>7 DEF Provider!ResolveLinkedUser
  <2>2. PICK u : u = owner[callback[c].person]
    OBVIOUS
  <2>3. /\ handle[callback[c].handle].kind = "login" /\ u \in Names \cup {None}
        /\ u # None => u \in callback[c].owners
    BY <1>0, <1>v, <2>1, <2>2 DEF Vouched
  <2>4. \/ Provider!Answer(c)
        \/ Provider!Goto(c, "match")
        \/ u # None /\ callback' = [callback EXCEPT ![c].pc = "session", ![c].user = u]
    BY <1>7, <2>2 DEF Provider!ResolveLinkedUser
  <2>5. CASE u # None /\ callback' = [callback EXCEPT ![c].pc = "session", ![c].user = u]
    <3>1. PICK new : new = [callback[c] EXCEPT !.pc = "session", !.user = u]
      OBVIOUS
    <3>2. /\ new \in FedCalls /\ new.pc = "session" /\ new.handle = callback[c].handle
          /\ new.person = callback[c].person /\ new.user = u /\ new.owners = callback[c].owners
      BY <1>0, <2>3, <3>1 DEF FedCalls
    <3>3. callback' = [callback EXCEPT ![c] = new]
      BY <1>0, <2>5, <3>1 DEF FedCalls
    <3>4. Vouched(new, handle, user, owner, used)
      BY <1>v, <2>1, <2>3, <2>5, <3>2 DEF Vouched, Tenants
    <3> QED
      BY <1>0, <1>m, <2>1, <3>2, <3>3, <3>4
  <2> QED
    BY <1>0, <1>e, <1>g, <2>1, <2>3, <2>4, <2>5
<1>8. ASSUME NEW c \in Reqs, Provider!MatchEmail(c) PROVE FedInv'
  <2>1. /\ callback[c].pc = "match" /\ Provider!Answer(c)
        /\ UNCHANGED <<user, owner, seen, used, again, stranger, died>>
    BY <1>8 DEF Provider!MatchEmail
  <2>2. CASE UNCHANGED handle
    BY <1>0, <1>e, <2>1, <2>2
  <2>3. CASE ~UNCHANGED handle
    <3>1. PICK h \in Handles : Provider!Create(h, "ticket", callback[c].person, None)
      BY <1>8, <2>3 DEF Provider!MatchEmail
    <3>2. callback[c].person \in Things /\ "ticket" \in Provider!Journeys
      BY <1>k, <2>1 DEF Provider!Journeys
    <3>3. /\ handle' \in [Handles -> HandleRow]
          /\ \A l \in Handles : (handle[l].state = "gone" => handle'[l] = handle[l]) /\ Made(handle'[l])
      BY <1>n, <3>1, <3>2
    <3>4. callback' = [callback EXCEPT ![c] = idle]
      BY <1>i, <2>1 DEF Provider!Answer
    <3>5. /\ callback' \in [Reqs -> FedCalls] /\ callback'[c] = idle
          /\ \A d \in Reqs \ {c} : callback'[d] = callback[d]
      BY <1>0, <3>4
    <3>6. FedStep(c, idle)
      BY <1>0, <1>i, <2>1, <3>3, <3>5 DEF FedStep
    <3>7. Vouched(idle, handle', user', owner', used')
      BY <1>i DEF Vouched
    <3> QED
      BY <3>6, <3>7, FedMoves
  <2> QED
    BY <2>2, <2>3
\* An account is made.
<1>a. ASSUME NEW u \in Names, NEW made \in UserRow, made.mail # None, user[u] = Provider!NoUser,
             user' = [user EXCEPT ![u] = made]
      PROVE  /\ user' \in [Names -> UserRow] /\ user'[u] = made
             /\ user[u].mail = None
             /\ \A x \in Names \ {u} : user'[x] = user[x]
  BY <1>0, <1>a, FedConstants
<1>9. ASSUME NEW c \in Reqs, Provider!Register(c) PROVE FedInv'
  <2>1. callback[c].pc = "register" /\ UNCHANGED <<handle, seen, used, again, stranger, died>>
    BY <1>9 DEF Provider!Register
  <2>2. PICK p \in Things : p = callback[c].person
    BY <1>k, <2>1
  <2>3. CASE Provider!Answer(c) /\ UNCHANGED <<user, owner>>
    BY <1>0, <1>e, <2>1, <2>3
  <2>4. CASE ~(Provider!Answer(c) /\ UNCHANGED <<user, owner>>)
    <3>1. PICK u \in Names :
            /\ user[u] = Provider!NoUser
            /\ user' = [user EXCEPT ![u] = [mail |-> p, sso |-> FALSE, active |-> TRUE, role |-> TRUE]]
            /\ Provider!Bind(p, u, c, "session")
      BY <1>9, <2>2, <2>4 DEF Provider!Register
    <3>2. PICK made : made = [mail |-> p, sso |-> FALSE, active |-> TRUE, role |-> TRUE]
      OBVIOUS
    <3>3. made \in UserRow /\ made.mail # None /\ made.role
      BY <3>2, SignInAssumption DEF UserRow
    <3>4. /\ user' \in [Names -> UserRow] /\ user'[u] = made
          /\ user[u].mail = None
          /\ \A x \in Names \ {u} : user'[x] = user[x]
      BY <1>a, <3>1, <3>2, <3>3
    <3> QED
      BY <1>b, <2>1, <2>2, <3>1, <3>3, <3>4
  <2> QED
    BY <2>3, <2>4
<1>10. ASSUME NEW p \in Things, Provider!Unlink(p) PROVE FedInv'
  <2>1. owner' = [owner EXCEPT ![p] = None] /\ UNCHANGED <<handle, user, seen, callback, used, again, stranger, died>>
    BY <1>10 DEF Provider!Unlink
  <2>2. owner' \in [Things -> Names \cup {None}] /\ \A q \in Things : owner'[q] = None \/ owner'[q] = owner[q]
    BY <1>0, <2>1
  <2> QED
    BY <1>0, <1>h, <2>1, <2>2, FedRests
\* The provider of a tenant
<1>11. ASSUME NEW c \in Reqs, Provider!RecordSamlAssertion(c) PROVE FedInv'
  <2>1. /\ callback[c].pc = "replay" /\ UNCHANGED <<handle, user, owner, used, again, stranger, died>>
        /\ seen' = seen \cup {callback[c].person}
        /\ Provider!Answer(c) \/ Provider!Goto(c, "find")
    BY <1>11 DEF Provider!RecordSamlAssertion
  <2>2. seen' \subseteq Things
    BY <1>0, <1>k, <2>1
  <2>3. handle[callback[c].handle].kind \in Tenants
    BY <1>v, <2>1 DEF Vouched, Tenants
  <2> QED
    BY <1>0, <1>e, <1>g, <2>1, <2>2, <2>3
<1>12. ASSUME NEW c \in Reqs, Provider!FindOrCreateUser(c) PROVE FedInv'
  <2>1. callback[c].pc = "find" /\ UNCHANGED <<handle, owner, seen, used, again, stranger, died>>
    BY <1>12 DEF Provider!FindOrCreateUser
  <2>2. PICK p \in Things : p = callback[c].person
    BY <1>k, <2>1
  <2>3. handle[callback[c].handle].kind \in Tenants
    BY <1>v, <2>1 DEF Vouched
  <2>4. ASSUME NEW u \in Names, NEW pc \in {"session", "role"}, NEW users,
               users[u].sso, users[u].mail = p
        PROVE  /\ [callback[c] EXCEPT !.pc = pc, !.user = u] \in FedCalls
               /\ [callback[c] EXCEPT !.pc = pc, !.user = u].pc = pc
               /\ [callback[c] EXCEPT !.pc = pc, !.user = u].user = u
               /\ [callback[c] EXCEPT !.pc = pc, !.user = u].handle = callback[c].handle
               /\ Vouched([callback[c] EXCEPT !.pc = pc, !.user = u], handle, users, owner, used)
    <3>1. PICK new : new = [callback[c] EXCEPT !.pc = pc, !.user = u]
      OBVIOUS
    <3>2. /\ new \in FedCalls /\ new.pc = pc /\ new.handle = callback[c].handle
          /\ new.person = p /\ new.user = u /\ new.owners = callback[c].owners
      BY <1>0, <2>2, <3>1 DEF FedCalls
    <3>3. Vouched(new, handle, users, owner, used)
      BY <1>v, <2>1, <2>2, <2>3, <2>4, <3>2 DEF Vouched, Tenants
    <3> QED
      BY <3>1, <3>2, <3>3
  <2>5. ASSUME NEW u \in Names, user[u].sso, user[u].mail = p, UNCHANGED user,
               callback' = [callback EXCEPT ![c] = IF user[u].active
                                                   THEN [@ EXCEPT !.pc = "session", !.user = u]
                                                   ELSE Provider!Idle]
        PROVE  FedInv'
    <3>1. CASE user[u].active
      <4>1. PICK new \in FedCalls : /\ new = [callback[c] EXCEPT !.pc = "session", !.user = u]
                                    /\ new.pc = "session" /\ new.handle = callback[c].handle
                                    /\ Vouched(new, handle, user, owner, used)
        BY <2>4, <2>5
      <4>2. callback' = [callback EXCEPT ![c] = new]
        BY <2>5, <3>1, <4>1
      <4> QED
        BY <1>0, <1>m, <2>1, <2>5, <4>1, <4>2
    <3>2. CASE ~user[u].active
      <4>1. Provider!Answer(c)
        BY <2>5, <3>2 DEF Provider!Answer
      <4> QED
        BY <1>0, <1>e, <2>1, <2>5, <4>1
    <3> QED
      BY <3>1, <3>2
  <2>6. ASSUME NEW u \in Names, user[u] = Provider!NoUser,
               user' = [user EXCEPT ![u] = [mail |-> p, sso |-> TRUE, active |-> TRUE, role |-> FALSE]],
               callback' = [callback EXCEPT ![c].pc = "role", ![c].user = u]
        PROVE  FedInv'
    <3>2. PICK made : made = [mail |-> p, sso |-> TRUE, active |-> TRUE, role |-> FALSE]
      OBVIOUS
    <3>3. made \in UserRow /\ made.mail = p /\ p # None /\ made.sso
      BY <3>2, SignInAssumption DEF UserRow
    <3>4. /\ user' \in [Names -> UserRow] /\ user'[u] = made
          /\ user[u].mail = None
          /\ \A x \in Names \ {u} : user'[x] = user[x]
      BY <1>a, <2>6, <3>2, <3>3
    <3>5. PICK new \in FedCalls : /\ new = [callback[c] EXCEPT !.pc = "role", !.user = u]
                                  /\ new.pc = "role" /\ new.handle = callback[c].handle /\ new.user = u
                                  /\ Vouched(new, handle, user', owner, used)
      BY <2>4, <3>3, <3>4
    <3>6. callback' = [callback EXCEPT ![c] = new]
      BY <1>0, <2>6, <3>5 DEF FedCalls
    <3>7. /\ callback' \in [Reqs -> FedCalls] /\ callback'[c] = new
          /\ \A d \in Reqs \ {c} : callback'[d] = callback[d]
      BY <1>0, <3>6
    <3>8. FedStep(c, new)
      BY <1>0, <1>h, <2>1, <3>4, <3>5, <3>7 DEF FedStep
    <3>9. Vouched(new, handle', user', owner', used')
      BY <2>1, <3>5
    <3> QED
      BY <3>8, <3>9, FedMoves
  <2> QED
    BY <1>12, <2>2, <2>5, <2>6 DEF Provider!FindOrCreateUser, Provider!Rows
<1>13. ASSUME NEW c \in Reqs, Provider!AssignViewer(c) PROVE FedInv'
  <2>1. /\ callback[c].pc = "role" /\ UNCHANGED <<handle, owner, seen, used, again, stranger, died>>
        /\ callback' = [callback EXCEPT ![c].pc = "session"]
    BY <1>13 DEF Provider!AssignViewer, Provider!Goto
  <2>2. PICK u \in Names : u = callback[c].user
    BY <1>v, <2>1 DEF Vouched, Tenants
  <2>3. user' = [user EXCEPT ![u].role = TRUE]
    BY <1>13, <2>2 DEF Provider!AssignViewer
  <2>4. /\ user' \in [Names -> UserRow] /\ user'[u].role
        /\ \A x \in Names : user'[x].mail = user[x].mail /\ user'[x].sso = user[x].sso
        /\ \A x \in Names \ {u} : user'[x] = user[x]
    BY <1>0, <2>3 DEF UserRow
  <2>5. PICK new : new = [callback[c] EXCEPT !.pc = "session"]
    OBVIOUS
  <2>6. callback' = [callback EXCEPT ![c] = new]
    BY <2>1, <2>5
  <2>7. /\ new \in FedCalls /\ new.pc = "session" /\ new.handle = callback[c].handle
        /\ new.person = callback[c].person /\ new.user = u /\ new.owners = callback[c].owners
    BY <1>0, <2>2, <2>5 DEF FedCalls
  <2>8. Vouched(new, handle', user', owner', used')
    BY <1>v, <2>1, <2>2, <2>4, <2>7 DEF Vouched
  <2>9. /\ callback' \in [Reqs -> FedCalls] /\ callback'[c] = new
        /\ \A d \in Reqs \ {c} : callback'[d] = callback[d]
    BY <1>0, <2>6, <2>7
  <2>10. FedStep(c, new)
    BY <1>0, <1>h, <2>1, <2>2, <2>4, <2>7, <2>9 DEF FedStep
  <2> QED
    BY <2>8, <2>10, FedMoves
<1>14. ASSUME NEW c \in Reqs, Provider!IssueSession(c) PROVE FedInv'
  <2>1. /\ callback[c].pc = "session" /\ Provider!Answer(c)
        /\ UNCHANGED <<handle, user, owner, seen, died>>
        /\ used' = used \cup {callback[c].handle} /\ again' = again \cup ({callback[c].handle} \cap used)
    BY <1>14 DEF Provider!IssueSession
  <2>2. callback[c].handle \notin used /\ callback[c].handle \in Handles
    BY <1>k, <2>1
  <2>3. used' \subseteq Handles /\ again' = {}
    BY <1>0, <2>1, <2>2
  <2>4. stranger' = FALSE
    <3>1. CASE handle[callback[c].handle].kind \in {"saml", "oidc"}
      BY <1>0, <1>v, <1>14, <2>1, <3>1 DEF Vouched, Tenants, Provider!IssueSession
    <3>2. CASE handle[callback[c].handle].kind \notin {"saml", "oidc"}
      BY <1>0, <1>v, <1>14, <2>1, <3>2 DEF Vouched, Tenants, Provider!IssueSession
    <3> QED
      BY <3>1, <3>2
  <2>5. callback' = [callback EXCEPT ![c] = idle]
    BY <1>i, <2>1 DEF Provider!Answer
  <2>6. /\ callback' \in [Reqs -> FedCalls] /\ callback'[c] = idle
        /\ \A d \in Reqs \ {c} : callback'[d] = callback[d]
    BY <1>0, <2>5
  <2>7. FedStep(c, idle)
    BY <1>0, <1>h, <1>i, <2>1, <2>3, <2>4, <2>6 DEF FedStep
  <2>8. Vouched(idle, handle', user', owner', used')
    BY <1>i DEF Vouched
  <2> QED
    BY <2>7, <2>8, FedMoves
<1>15. ASSUME NEW u \in Names, Provider!Suspend(u) PROVE FedInv'
  <2>1. /\ user' = [user EXCEPT ![u].active = FALSE]
        /\ UNCHANGED <<handle, owner, seen, callback, used, again, stranger, died>>
    BY <1>15 DEF Provider!Suspend
  <2>2. /\ user' \in [Names -> UserRow]
        /\ \A x \in Names : /\ user'[x].mail = user[x].mail /\ user'[x].sso = user[x].sso
                             /\ user'[x].role = user[x].role
    BY <1>0, <2>1 DEF UserRow
  <2> QED
    BY <1>0, <1>h, <2>1, <2>2, FedRests
<1>16. ASSUME NEW c \in Reqs, Provider!Abort(c) PROVE FedInv'
  <2>1. /\ Provider!Answer(c) /\ UNCHANGED <<handle, user, owner, seen, used, again, stranger>>
        /\ died' = (died \/ callback[c].pc = "role")
    BY <1>16 DEF Provider!Abort
  <2>2. died' \in BOOLEAN
    BY <2>1
  <2> QED
    BY <1>0, <1>e, <2>1, <2>2
<1>17. CASE UNCHANGED federated
  <2>1. UNCHANGED <<handle, user, owner, seen, callback, used, again, stranger, died>>
    BY <1>17 DEF federated
  <2> QED
    BY <1>0, <1>h, <2>1, FedRests
<1> QED
  BY <1>1, <1>2, <1>3, <1>4, <1>5, <1>6, <1>7, <1>8, <1>9, <1>10, <1>11, <1>12, <1>13, <1>14, <1>15,
     <1>16, <1>17 DEF Provider!Next

\* One session for one handle, however many callbacks carry it; a social provider signs a
\* person into an account only if its identity belonged to that account at some moment of
\* the callback, a tenant's provider into its tenant only (ExternalAuthStore, OAuthService,
\* SsoService).
THEOREM EverySessionIsEarned == SignInSpec => []SessionsEarned
<1> DEFINE Inv == part = "federation" => FedInv
<1>1. SignInInit => Inv
  BY FedInit DEF SignInInit
<1>2. Inv /\ [SignInNext]_signInVars => Inv'
  BY FedNext, SignInParts
<1>3. Inv => SessionsEarned
  BY DEF SessionsEarned, FedInv
<1> HIDE DEF Inv
<1> QED
  BY <1>1, <1>2, <1>3, PTL DEF SignInSpec

\* An account made at a first sign-in has its role as soon as the call that made it is
\* done, unless that call stopped half-way (resolveOrCreateUser).
THEOREM AccountsGetTheirRole == SignInSpec => []NoAccountWithoutRole
<1> DEFINE Inv == part = "federation" => FedInv
<1>1. SignInInit => Inv
  BY FedInit DEF SignInInit
<1>2. Inv /\ [SignInNext]_signInVars => Inv'
  BY FedNext, SignInParts
<1>3. Inv => NoAccountWithoutRole
  BY DEF NoAccountWithoutRole, FedInv
<1> HIDE DEF Inv
<1> QED
  BY <1>1, <1>2, <1>3, PTL DEF SignInSpec

===============================================================================
