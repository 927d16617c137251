----------------------------- MODULE SigningKeys -----------------------------
(***************************************************************************)
(* The RS256 signing keys of the authorization server: oidc_signing_keys,  *)
(* shared by all replicas, and the calls of SigningKeyService on it.       *)
(*                                                                         *)
(* Every boot and every token minted is a call of ensureCurrentKey, one    *)
(* action per database statement.  The replicas have one encryption key,   *)
(* so whether a row can be decrypted is a fact about the row; the cache of *)
(* decrypted keys, which is keyed by row, then changes nothing but the     *)
(* cost and is left out.  The partial unique index on status CURRENT is    *)
(* the database's.                                                         *)
(***************************************************************************)
EXTENDS Integers, FiniteSets

CONSTANTS Kids,      \* keys that may be generated
          Calls,     \* slots for calls in flight, of all replicas
          None,      \* no key
          Life,      \* the longest token lifetime
          MaxClock,  \* bound: the clock stops here
          MaxFaults  \* bound: calls that may die between two statements

ASSUME ConstAssumption ==
    /\ None \notin Kids
    /\ Life \in Nat /\ MaxClock \in Nat /\ MaxFaults \in Nat

VARIABLES key,       \* key[k]: the row; readable: it decrypts
          call,      \* call[c]: where the call in slot c is, the key it has read
          clock,
          faults,    \* calls that died so far
          rotations, \* history: completed rotations
          until      \* history: expiry of the last token signed with a key

vars == <<key, call, clock, faults, rotations, until>>

-------------------------------------------------------------------------------
(* Operators named X_Fault below are X with a plausible mistake in it: the   *)
(* checks put them in X's place to see that a property notices.             *)

KeyRow == [st : {"absent", "CURRENT", "PREVIOUS", "RETIRED"},
           created : 0..MaxClock, readable : BOOLEAN]

Pcs == {"idle", "read", "demote", "insert", "reread", "sign", "throw"}

CallState == [pc : Pcs, kid : Kids \cup {None}]

NoRow == [st |-> "absent", created |-> 0, readable |-> FALSE]

Idle == [pc |-> "idle", kid |-> None]

TypeOK ==
    /\ key \in [Kids -> KeyRow]
    /\ call \in [Calls -> CallState]
    /\ clock \in 0..MaxClock
    /\ faults \in 0..MaxFaults
    /\ rotations \in Nat
    /\ until \in [Kids -> 0..(MaxClock + Life)]

NoKeys == [k \in Kids |-> NoRow]

\* A first boot, or a table with one key of an earlier release, which the
\* encryption key of this one may not decrypt.
Init ==
    /\ \/ key = NoKeys
       \/ \E k \in Kids, b \in BOOLEAN :
            key = [NoKeys EXCEPT ![k] = [st |-> "CURRENT", created |-> 0, readable |-> b]]
    /\ call = [c \in Calls |-> Idle]
    /\ clock = 0
    /\ faults = 0
    /\ rotations = 0
    /\ until = [k \in Kids |-> 0]

-------------------------------------------------------------------------------
(* ensureCurrentKey *)

IsCurrent(k) == key[k].st = "CURRENT"

\* getPublicJwks
Published(k) == key[k].st \in {"CURRENT", "PREVIOUS"}

Goto(c, pc, k) == call' = [call EXCEPT ![c] = [pc |-> pc, kid |-> k]]

NewCurrent == [st |-> "CURRENT", created |-> clock, readable |-> TRUE]

\* A replica boots, or is asked for a token.
Ask(c) ==
    /\ call[c].pc = "idle"
    /\ Goto(c, "read", None)
    /\ UNCHANGED <<key, clock, faults, rotations, until>>

\* findFirst({status: CURRENT}), and decryption of what it returns.
ReadCurrent(c) ==
    /\ call[c].pc = "read"
    /\ \/ \E k \in Kids : IsCurrent(k) /\ key[k].readable /\ Goto(c, "sign", k)
       \/ \E k \in Kids : IsCurrent(k) /\ ~key[k].readable /\ Goto(c, "demote", k)
       \/ (\A k \in Kids : ~IsCurrent(k)) /\ Goto(c, "insert", None)
    /\ UNCHANGED <<key, clock, faults, rotations, until>>

\* Fault: whatever is CURRENT by now is demoted.
DemoteUnreadable_ByStatus(c) ==
    /\ call[c].pc = "demote"
    /\ key' = [k \in Kids |-> IF IsCurrent(k) THEN [key[k] EXCEPT !.st = "RETIRED"]
                              ELSE key[k]]
    /\ Goto(c, "insert", None)
    /\ UNCHANGED <<clock, faults, rotations, until>>

\* update({where: {id}}): the row that did not decrypt, whatever it is by now.
DemoteUnreadable(c) ==
    /\ call[c].pc = "demote"
    /\ key' = [key EXCEPT ![call[c].kid].st = "RETIRED"]
    /\ Goto(c, "insert", None)
    /\ UNCHANGED <<clock, faults, rotations, until>>

\* Fault: an INSERT that loses the race fails the call.
InsertCurrent_NoReread(c) ==
    /\ call[c].pc = "insert"
    /\ \/ \E k \in Kids :
            /\ key[k].st = "absent" /\ \A j \in Kids : ~IsCurrent(j)
            /\ key' = [key EXCEPT ![k] = NewCurrent]
            /\ Goto(c, "sign", k)
       \/ /\ \E j \in Kids : IsCurrent(j)
          /\ Goto(c, "throw", None)
          /\ UNCHANGED key
    /\ UNCHANGED <<clock, faults, rotations, until>>

\* generateAndStore(CURRENT): the unique index lets one INSERT in.
InsertCurrent(c) ==
    /\ call[c].pc = "insert"
    /\ \/ \E k \in Kids :
            /\ key[k].st = "absent" /\ \A j \in Kids : ~IsCurrent(j)
            /\ key' = [key EXCEPT ![k] = NewCurrent]
            /\ Goto(c, "sign", k)
       \/ /\ \E j \in Kids : IsCurrent(j)
          /\ Goto(c, "reread", None)
          /\ UNCHANGED key
    /\ UNCHANGED <<clock, faults, rotations, until>>

\* The INSERT fails for another reason, which is caught all the same.
InsertFails(c) ==
    /\ call[c].pc = "insert" /\ faults < MaxFaults
    /\ faults' = faults + 1
    /\ Goto(c, "reread", None)
    /\ UNCHANGED <<key, clock, rotations, until>>

\* "Another replica won the race": its key, which must decrypt, or an error.
ReadWinner(c) ==
    /\ call[c].pc = "reread"
    /\ \/ \E k \in Kids : IsCurrent(k) /\ key[k].readable /\ Goto(c, "sign", k)
       \/ /\ \A k \in Kids : IsCurrent(k) => ~key[k].readable
          /\ Goto(c, "throw", None)
    /\ UNCHANGED <<key, clock, faults, rotations, until>>

\* mintAccessToken and mintIdToken sign with the key they were given, which may
\* have been rotated out since.
Sign(c) ==
    /\ call[c].pc = "sign"
    /\ until' = [until EXCEPT ![call[c].kid] = clock + Life]
    /\ call' = [call EXCEPT ![c] = Idle]
    /\ UNCHANGED <<key, clock, faults, rotations>>

\* The boot or the request fails with the error.
Throw(c) ==
    /\ call[c].pc = "throw"
    /\ call' = [call EXCEPT ![c] = Idle]
    /\ UNCHANGED <<key, clock, faults, rotations, until>>

-------------------------------------------------------------------------------
(* Operations that nothing in src/ calls yet *)

\* Fault: the demotion may be committed without the promotion.
Rotate_Torn ==
    /\ \E k \in Kids :
         /\ key[k].st = "absent"
         /\ \E promoted \in {{k}, {}} :
              key' = [j \in Kids |-> IF j \in promoted THEN NewCurrent
                                     ELSE IF IsCurrent(j) THEN [key[j] EXCEPT !.st = "PREVIOUS"]
                                     ELSE key[j]]
    /\ rotations' = rotations + 1
    /\ UNCHANGED <<call, clock, faults, until>>

\* One transaction: the CURRENT row becomes PREVIOUS, a new one CURRENT.  A
\* rotation that loses the race for the index is rolled back.
Rotate ==
    /\ \E k \in Kids :
         /\ key[k].st = "absent"
         /\ key' = [j \in Kids |-> IF j = k THEN NewCurrent
                                   ELSE IF IsCurrent(j) THEN [key[j] EXCEPT !.st = "PREVIOUS"]
                                   ELSE key[j]]
    /\ rotations' = rotations + 1
    /\ UNCHANGED <<call, clock, faults, until>>

\* Fault: the cutoff is forgotten.
RetireExpiredPreviousKeys_AnyAge ==
    /\ key' = [k \in Kids |-> IF key[k].st = "PREVIOUS"
                              THEN [key[k] EXCEPT !.st = "RETIRED"] ELSE key[k]]
    /\ UNCHANGED <<call, clock, faults, rotations, until>>

\* PREVIOUS keys created before now - maxTokenLifetimeMs.
RetireExpiredPreviousKeys ==
    /\ key' = [k \in Kids |-> IF key[k].st = "PREVIOUS" /\ key[k].created < clock - Life
                              THEN [key[k] EXCEPT !.st = "RETIRED"] ELSE key[k]]
    /\ UNCHANGED <<call, clock, faults, rotations, until>>

-------------------------------------------------------------------------------
(* Time and failures *)

Tick ==
    /\ clock < MaxClock
    /\ clock' = clock + 1
    /\ UNCHANGED <<key, call, faults, rotations, until>>

\* The replica stops, or a statement that is not caught fails; what was written
\* stays.
Die(c) ==
    /\ call[c].pc # "idle" /\ faults < MaxFaults
    /\ faults' = faults + 1
    /\ call' = [call EXCEPT ![c] = Idle]
    /\ UNCHANGED <<key, clock, rotations, until>>

-------------------------------------------------------------------------------
(* The specification *)

Step(c) ==
    \/ Ask(c) \/ ReadCurrent(c) \/ DemoteUnreadable(c) \/ InsertCurrent(c)
    \/ InsertFails(c) \/ ReadWinner(c) \/ Sign(c) \/ Throw(c)

Next ==
    \/ \E c \in Calls : Step(c) \/ Die(c)
    \/ Rotate \/ RetireExpiredPreviousKeys \/ Tick

Spec == Init /\ [][Next]_vars

-------------------------------------------------------------------------------
(* Properties *)

\* "Losing that race is expected, not an error condition": however boots, mints and
\* rotations of all replicas overlap, also when all of them find a key they cannot
\* decrypt, no call ends with the error unless a statement failed by itself.
NoCallThrows ==
    \A c \in Calls : call[c].pc = "throw" => faults > 0

\* However many calls find no usable key at once, one is generated: there are never
\* more usable keys than the first and one per rotation.
OneKeyPerRotation ==
    Cardinality({k \in Kids : key[k].st # "absent" /\ key[k].readable}) <= 1 + rotations

\* "Left with no CURRENT key and could not mint a single token": once there is a
\* key, one is CURRENT, except for the calls that are about to insert it or died there.
CurrentKeyKept ==
    (/\ \E k \in Kids : key[k].st # "absent"
     /\ \A c \in Calls : call[c].pc # "insert"
     /\ faults = 0)
       => \E k \in Kids : IsCurrent(k)

\* A usable key stays in the JWKS for at least a token lifetime after it was created,
\* although a call that could not decrypt another one retires keys as well.
YoungKeysPublished ==
    \A k \in Kids :
       key[k].st # "absent" /\ key[k].readable /\ clock <= key[k].created + Life
         => Published(k)

\* "PREVIOUS keys are retired once nothing signed by them can still be valid": the
\* key of a token that has not expired is in the JWKS.
PublishedWhileValid ==
    \A k \in Kids : clock < until[k] => Published(k)

===============================================================================
