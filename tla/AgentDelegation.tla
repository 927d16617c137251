---------------------------- MODULE AgentDelegation ----------------------------
(***************************************************************************)
(* Token exchange: a user's access token is exchanged for an agent's, with *)
(* the permissions the agent is allowed and the token's claims carry.      *)
(* One user, one agent of the user's tenant and one session; one action    *)
(* per read, write and signature of tokenExchangeGrant.                    *)
(***************************************************************************)
EXTENDS Integers, FiniteSets

CONSTANTS Perms,
          Issued,  \* access tokens that may be issued, of either kind
          Life,    \* TOKEN_TTL.ACCESS_TOKEN_MS, with which both are signed
          MaxClock \* bound

VARIABLES held,    \* what the user's roles grant now
          agent,   \* agent_definitions: allowedPermissions and status
          alive,   \* user_sessions: the session is active
          now,     \* the clock
          token,   \* tokens in circulation
          call,    \* the exchange in flight
          lastHeld \* history: when the user last held a permission

delegationVars == <<held, agent, alive, now, token, call, lastHeld>>

-------------------------------------------------------------------------------
Time == 0..MaxClock

\* begun is history: when the exchange that issued it began.
TokenRecord == [act : BOOLEAN, perms : SUBSET Perms, exp : 0..(MaxClock + Life), begun : Time]

Exchange == [pc : {"session", "agent", "record", "mint"}, perms : SUBSET Perms, begun : Time]

TypeOK ==
    /\ held \subseteq Perms
    /\ agent \in [allowed : SUBSET Perms, active : BOOLEAN]
    /\ alive \in BOOLEAN /\ now \in Time
    /\ DOMAIN token \subseteq Issued /\ \A i \in DOMAIN token : token[i] \in TokenRecord
    /\ call \subseteq Exchange /\ Cardinality(call) <= 1
    /\ lastHeld \in [Perms -> Time \cup {-1}]

Init ==
    /\ held \in SUBSET Perms
    /\ agent \in [allowed : SUBSET Perms, active : {TRUE}]
    /\ alive = TRUE /\ now = 0
    /\ token = << >> /\ call = {}
    /\ lastHeld = [p \in Perms |-> IF p \in held THEN 0 ELSE -1]

-------------------------------------------------------------------------------
Effective(allowed, perms) == allowed \cap perms

\* Fault: the token is decoded, and its expiry not looked at.
IsSubject_Expired(t) == ~t.act

\* jwtVerify, typ, and no act claim.
IsSubject(t) == now < t.exp /\ ~t.act

\* mintAccessToken: the lifetime is that of an access token for agents too.
MintAccessToken(act, perms, begun) ==
    \E i \in Issued \ DOMAIN token :
        token' = [j \in DOMAIN token \cup {i} |->
                    IF j \in DOMAIN token THEN token[j]
                    ELSE [act |-> act, perms |-> perms, exp |-> now + Life, begun |-> begun]]

-------------------------------------------------------------------------------
(* tokenExchangeGrant and AgentDelegationService.exchange *)

Verify ==
    /\ call = {}
    /\ \E i \in DOMAIN token :
         /\ IsSubject(token[i])
         /\ call' = {[pc |-> "session", perms |-> token[i].perms, begun |-> now]}
    /\ UNCHANGED <<held, agent, alive, now, token, lastHeld>>

ReadSession ==
    /\ \E c \in call :
         /\ c.pc = "session"
         /\ call' = IF alive THEN {[c EXCEPT !.pc = "agent"]} ELSE {}
    /\ UNCHANGED <<held, agent, alive, now, token, lastHeld>>

ReadAgent ==
    /\ \E c \in call :
         /\ c.pc = "agent"
         /\ call' = IF agent.active
                    THEN {[c EXCEPT !.pc = "record", !.perms = Effective(agent.allowed, c.perms)]}
                    ELSE {}
    /\ UNCHANGED <<held, agent, alive, now, token, lastHeld>>

\* agentDelegation.create: the row is written before anything is signed.
Record ==
    /\ \E c \in call : c.pc = "record" /\ call' \in {{[c EXCEPT !.pc = "mint"]}, {}}
    /\ UNCHANGED <<held, agent, alive, now, token, lastHeld>>

MintAgentToken ==
    /\ \E c \in call : c.pc = "mint" /\ MintAccessToken(TRUE, c.perms, c.begun)
    /\ call' = {}
    /\ UNCHANGED <<held, agent, alive, now, lastHeld>>

-------------------------------------------------------------------------------
(* The user's own tokens, and what changes meanwhile *)

MintUserToken ==
    /\ alive
    /\ MintAccessToken(FALSE, held, now)
    /\ UNCHANGED <<held, agent, alive, now, call, lastHeld>>

SetRoles ==
    /\ held' \in SUBSET Perms
    /\ lastHeld' = [p \in Perms |-> IF p \in held' THEN now ELSE lastHeld[p]]
    /\ UNCHANGED <<agent, alive, now, token, call>>

EditAgent ==
    /\ \/ \E a \in SUBSET Perms : agent' = [agent EXCEPT !.allowed = a]
       \/ agent' = [agent EXCEPT !.active = ~agent.active]
    /\ UNCHANGED <<held, alive, now, token, call, lastHeld>>

EndSession ==
    /\ alive /\ alive' = FALSE
    /\ UNCHANGED <<held, agent, now, token, call, lastHeld>>

Tick ==
    /\ now < MaxClock /\ now' = now + 1
    /\ lastHeld' = [p \in Perms |-> IF p \in held THEN now + 1 ELSE lastHeld[p]]
    /\ UNCHANGED <<held, agent, alive, token, call>>

-------------------------------------------------------------------------------
Next ==
    \/ Verify \/ ReadSession \/ ReadAgent \/ Record \/ MintAgentToken
    \/ MintUserToken \/ SetRoles \/ EditAgent \/ EndSession \/ Tick

Spec == Init /\ [][Next]_delegationVars

-------------------------------------------------------------------------------
(* Properties *)

\* An agent gets no permission the user had not held within one access token lifetime
\* before the exchange: claims may be that old, and no chain of exchanges adds to it.
DelegationBounded ==
    \A i \in DOMAIN token : token[i].act =>
        \A p \in token[i].perms : lastHeld[p] # -1 /\ lastHeld[p] > token[i].begun - Life

===============================================================================
