------------------------------- MODULE MCSignIn -------------------------------
(***************************************************************************)
(* Instances of the components that sign a person in and keep them signed  *)
(* in, for TLC: BrowserSessions, which this module extends, Federation and *)
(* SignInMethods.  Sessions, tokens and request slots are interchangeable. *)
(*                                                                         *)
(* The components share no rows but the session row that ends a sign-in,   *)
(* so little is learnt from interleaving them: a behaviour picks one       *)
(* (part) and the others stay as they began.                               *)
(***************************************************************************)
EXTENDS BrowserSessions, TLC

CONSTANTS Things,  \* people and passkeys
          Names,   \* accounts and providers
          Handles, MaxKeys, MaxCount

VARIABLES part,
          handle, user, owner, seen, callback, used, again, stranger, died,
          passkey, identity, session, ceremony, removed, crossed, outlives

Provider == INSTANCE Federation WITH Calls <- Reqs, People <- Things, Users <- Names,
                                      call <- callback
Method == INSTANCE SignInMethods WITH Calls <- Reqs, Keys <- Things, Providers <- Names,
                                       call <- ceremony

\* None is no value of the components that use it; a passkey is no provider.
ASSUME SignInAssumption ==
    /\ None \notin Things \cup Names \cup Handles
    /\ Things \cap Names = {}
    /\ MaxCount \in Nat

Symmetry == Permutations(Sids) \cup Permutations(Tokens) \cup Permutations(Reqs)
              \cup Permutations(Names)

-------------------------------------------------------------------------------
\* What each component changes.
federated == <<handle, user, owner, seen, callback, used, again, stranger, died>>
methods == <<passkey, identity, session, ceremony, removed, crossed, outlives>>

signInVars == <<part, vars, federated, methods>>

\* A component that does not move is where it began; federated and methods, which
\* have several initial states, are then not looked at.
SignInInit ==
    /\ part \in {"browser", "federation", "methods"}
    /\ Init
    /\ IF part = "federation" THEN Provider!Init
       ELSE /\ handle = None /\ user = None /\ owner = None /\ seen = {} /\ callback = None
            /\ used = {} /\ again = {} /\ stranger = FALSE /\ died = FALSE
    /\ IF part = "methods" THEN Method!Init
       ELSE /\ passkey = None /\ identity = {} /\ session = {} /\ ceremony = None
            /\ removed = {} /\ crossed = FALSE /\ outlives = {}

SignInNext ==
    \/ /\ part = "browser" /\ Next
       /\ UNCHANGED <<part, federated, methods>>
    \/ /\ part = "federation" /\ Provider!Next
       /\ UNCHANGED <<part, vars, methods>>
    \/ /\ part = "methods" /\ Method!Next
       /\ UNCHANGED <<part, vars, federated>>

SignInSpec == SignInInit /\ [][SignInNext]_signInVars

-------------------------------------------------------------------------------
(* Properties: those of the components, under the names they have there,   *)
(* each with the types of its component                                    *)

\* One session for one handle, and only for an account bound to the person
\* (ExternalAuthStore, OAuthService, SsoService).
SessionsEarned == part = "federation" => Provider!TypeOK /\ Provider!SessionsEarned

\* An account made at a first sign-in has its role (resolveOrCreateUser).
NoAccountWithoutRole == part = "federation" => Provider!NoAccountWithoutRole

\* The signature counter of a passkey never goes back (verifyAuthentication).
CounterNeverBack ==
    [][part = "methods" =>
         \A k \in Things : passkey[k].on /\ passkey'[k].on
                             => passkey'[k].count >= passkey[k].count]_signInVars

\* Removing a way in leaves another and ends its sessions (deletePasskey,
\* unlinkProvider).
RemovalInStep == part = "methods" => Method!TypeOK /\ Method!RemovalInStep

===============================================================================
