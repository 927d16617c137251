---------------------------- MODULE AuthorityChain ----------------------------
(***************************************************************************)
(* What the token endpoint promises about one sign-in, with no requests,   *)
(* sessions or clocks.                                                     *)
(*                                                                         *)
(* An authorization code and every refresh token rotated from it form one  *)
(* chain, and the right to obtain the next token of that chain is a baton: *)
(* the unredeemed code has it, then a request the server is executing,     *)
(* then one refresh token, then a request again, and so on until it is     *)
(* lost.  The baton is never copied, and it never comes back once lost.    *)
(***************************************************************************)

CONSTANTS Codes,   \* authorization codes, one chain each
          Grants,  \* refresh tokens
          None     \* no chain yet

VARIABLES stage,   \* stage[c]: who has the baton of c's chain
          live,    \* the refresh tokens that have a baton
          owner    \* owner[g]: the chain refresh token g was issued in

vars == <<stage, live, owner>>

Stages == {"none", "code", "server", "grant", "lost"}

TypeOK ==
    /\ stage \in [Codes -> Stages]
    /\ live \subseteq Grants
    /\ owner \in [Grants -> Codes \cup {None}]

Init ==
    /\ stage = [c \in Codes |-> "none"]
    /\ live = {}
    /\ owner = [g \in Grants |-> None]

\* A code is issued: it has the baton of a new chain.
Issue(c) ==
    /\ stage[c] = "none"
    /\ stage' = [stage EXCEPT ![c] = "code"]
    /\ UNCHANGED <<live, owner>>

\* The server takes the baton from the code it redeems ...
TakeFromCode(c) ==
    /\ stage[c] = "code"
    /\ stage' = [stage EXCEPT ![c] = "server"]
    /\ UNCHANGED <<live, owner>>

\* ... or from the refresh token it rotates.
TakeFromGrant(c, g) ==
    /\ stage[c] = "grant" /\ g \in live /\ owner[g] = c
    /\ stage' = [stage EXCEPT ![c] = "server"]
    /\ live' = live \ {g}
    /\ UNCHANGED owner

\* The server hands the baton to a refresh token that did not exist before.
Give(c, g) ==
    /\ stage[c] = "server" /\ owner[g] = None
    /\ stage' = [stage EXCEPT ![c] = "grant"]
    /\ live' = live \cup {g}
    /\ owner' = [owner EXCEPT ![g] = c]

\* Some chains lose their baton for good: revocation, purge, a failed request,
\* or a response that carries no refresh token.
Lose(C) ==
    /\ \A c \in C : stage[c] # "none"
    /\ stage' = [c \in Codes |-> IF c \in C THEN "lost" ELSE stage[c]]
    /\ live' = {g \in live : owner[g] \notin C}
    /\ UNCHANGED owner

Next ==
    \/ \E c \in Codes : Issue(c) \/ TakeFromCode(c)
    \/ \E c \in Codes, g \in Grants : TakeFromGrant(c, g) \/ Give(c, g)
    \/ \E C \in SUBSET Codes : Lose(C)

Spec == Init /\ [][Next]_vars

===============================================================================
