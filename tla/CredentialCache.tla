---------------------------- MODULE CredentialCache ----------------------------
(***************************************************************************)
(* The 15 second caches in front of the database: provider credentials     *)
(* (PlatformCredentialsService), and installed modules (EntitlementGate)   *)
(* which are one value written by another service.  The fields of one      *)
(* provider, the cache of one process, and saves in this process or in     *)
(* another.                                                                *)
(***************************************************************************)
EXTENDS Integers, FiniteSets

CONSTANTS Fields, \* of the provider
          Calls,  \* get calls that run at once
          TTL,
          MaxClock, \* bound
          MaxSaves  \* bound

VARIABLES stored, \* platform_credentials: the save each value is from, 0 the environment
          cache,  \* {} or the one entry
          get,    \* get[c]: a call that missed
          save,   \* the save in flight: {} or what it has left to write
          saves,  \* saves so far
          now,    \* the clock
          replaced \* history: when each value was overwritten

cacheVars == <<stored, cache, get, save, saves, now, replaced>>

-------------------------------------------------------------------------------
Time == 0..MaxClock
Values == [Fields -> 0..MaxSaves]
Idle == [pc |-> "idle", at |-> 0, values |-> [f \in Fields |-> 0]]

TypeOK ==
    /\ stored \in Values
    /\ cache \subseteq [at : Time, values : Values] /\ Cardinality(cache) <= 1
    /\ get \in [Calls -> [pc : {"idle", "read", "keep"}, at : Time, values : Values]]
    /\ save \subseteq [left : SUBSET Fields, here : BOOLEAN] /\ Cardinality(save) <= 1
    /\ saves \in 0..MaxSaves /\ now \in Time
    /\ replaced \in [Fields -> [0..MaxSaves -> Time \cup {-1}]]

Init ==
    /\ stored = [f \in Fields |-> 0] /\ cache = {}
    /\ get = [c \in Calls |-> Idle]
    /\ save = {} /\ saves = 0 /\ now = 0
    /\ replaced = [f \in Fields |-> [v \in 0..MaxSaves |-> -1]]

Hit == \E e \in cache : now - e.at < TTL

-------------------------------------------------------------------------------
(* get *)

\* A miss: the clock is read before the rows are.
Miss(c) ==
    /\ get[c].pc = "idle" /\ ~Hit
    /\ get' = [get EXCEPT ![c] = [Idle EXCEPT !.pc = "read", !.at = now]]
    /\ UNCHANGED <<stored, cache, save, saves, now, replaced>>

ReadRows(c) ==
    /\ get[c].pc = "read"
    /\ get' = [get EXCEPT ![c].pc = "keep", ![c].values = stored]
    /\ UNCHANGED <<stored, cache, save, saves, now, replaced>>

\* Fault: the entry is dated when it is kept.
Keep_DatedLast(c) ==
    /\ get[c].pc = "keep"
    /\ cache' = {[at |-> now, values |-> get[c].values]}
    /\ get' = [get EXCEPT ![c] = Idle]
    /\ UNCHANGED <<stored, save, saves, now, replaced>>

Keep(c) ==
    /\ get[c].pc = "keep"
    /\ cache' = {[at |-> get[c].at, values |-> get[c].values]}
    /\ get' = [get EXCEPT ![c] = Idle]
    /\ UNCHANGED <<stored, save, saves, now, replaced>>

\* findMany throws.
Fail(c) ==
    /\ get[c].pc = "read"
    /\ get' = [get EXCEPT ![c] = Idle]
    /\ UNCHANGED <<stored, cache, save, saves, now, replaced>>

-------------------------------------------------------------------------------
(* set *)

BeginSave ==
    /\ save = {} /\ saves < MaxSaves /\ saves' = saves + 1
    /\ \E fs \in SUBSET Fields, here \in BOOLEAN : save' = {[left |-> fs, here |-> here]}
    /\ UNCHANGED <<stored, cache, get, now, replaced>>

\* One upsert per field; if one throws, the rest is not written and the cache is kept.
Upsert ==
    /\ \E s \in save : \E f \in s.left :
         /\ stored' = [stored EXCEPT ![f] = saves]
         /\ replaced' = [replaced EXCEPT ![f][stored[f]] = now]
         /\ save' = {[s EXCEPT !.left = s.left \ {f}]}
    /\ UNCHANGED <<cache, get, saves, now>>

UpsertThrows ==
    /\ \E s \in save : s.left # {} /\ save' = {}
    /\ UNCHANGED <<stored, cache, get, saves, now, replaced>>

DropEntry ==
    /\ \E s \in save : s.left = {} /\ cache' = IF s.here THEN {} ELSE cache
    /\ save' = {}
    /\ UNCHANGED <<stored, get, saves, now, replaced>>

Tick ==
    /\ now < MaxClock /\ now' = now + 1
    /\ UNCHANGED <<stored, cache, get, save, saves, replaced>>

-------------------------------------------------------------------------------
Next ==
    \/ \E c \in Calls : Miss(c) \/ ReadRows(c) \/ Keep(c) \/ Fail(c)
    \/ BeginSave \/ Upsert \/ UpsertThrows \/ DropEntry \/ Tick

Spec == Init /\ [][Next]_cacheVars

-------------------------------------------------------------------------------
(* Properties *)

\* However a slow read and a save overlap, here or in another process, a value that
\* has been overwritten is not served from the cache for longer than the TTL.
StaleWithinTTL ==
    \A e \in cache, f \in Fields :
        Hit /\ e.values[f] # stored[f] => now - replaced[f][e.values[f]] < TTL

===============================================================================
