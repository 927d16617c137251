----------------------------- MODULE Registration -----------------------------
(***************************************************************************)
(* AuthService.register: a new organisation, written through two database  *)
(* clients that cannot share a transaction.  The tenant and its business   *)
(* rows are committed one by one; roles, administrator and identity commit *)
(* together at the end of the IdP transaction; what fails before that end  *)
(* is compensated by deleting the tenant, which cascades.                  *)
(*                                                                         *)
(* The wizard names the tenant id it will poll the progress of, so a retry *)
(* comes with the id of the attempt before it.  Attempts are for one       *)
(* organisation name: their slugs differ by suffix only.                   *)
(***************************************************************************)
EXTENDS Integers, FiniteSets

CONSTANTS Calls,    \* slots for attempts in flight
          Tenants,  \* tenant ids
          None,     \* no tenant, no slug, no progress
          MaxSlug   \* bound: attempts of the slug loop (100 in the code)

VARIABLES tenant,    \* tenants: the slug of each tenant that has a row
          business,  \* tenants with an organisation, departments, apps and a trial
          account,   \* tenants whose roles and administrator are committed
          progress,  \* ProvisioningService
          call,      \* call[c]: where an attempt is, and its locals
          abandoned  \* history: tenants whose attempt stopped half-way, or whose
                     \* creation, commit or compensation was not answered

registrationVars == <<tenant, business, account, progress, call, abandoned>>

-------------------------------------------------------------------------------
Slugs == 1..MaxSlug

Idle == [pc |-> "idle", id |-> None, slug |-> None, created |-> FALSE, committed |-> FALSE]

TypeOK ==
    /\ tenant \in [Tenants -> Slugs \cup {None}]
    /\ business \subseteq Tenants /\ account \subseteq Tenants /\ abandoned \subseteq Tenants
    /\ progress \in [Tenants -> {None, "pending", "success", "failed"}]
    /\ call \in [Calls -> [pc : {"idle", "slug", "tenant", "business", "commit", "notify", "fail",
                                 "report"},
                           id : Tenants \cup {None}, slug : Slugs \cup {None},
                           created : BOOLEAN, committed : BOOLEAN]]

Init ==
    /\ tenant = [t \in Tenants |-> None]
    /\ business = {} /\ account = {} /\ abandoned = {}
    /\ progress = [t \in Tenants |-> None]
    /\ call = [c \in Calls |-> Idle]

Goto(c, pc) == call' = [call EXCEPT ![c].pc = pc]

Exists(t) == tenant[t] # None

SlugTaken(n) == \E t \in Tenants : tenant[t] = n

-------------------------------------------------------------------------------
Ask(c, t) ==
    /\ call[c].pc = "idle"
    /\ call' = [call EXCEPT ![c] = [Idle EXCEPT !.pc = "slug", !.id = t]]
    /\ UNCHANGED <<tenant, business, account, progress, abandoned>>

\* The first slug that is free; the last one is taken unseen.
SlugFound ==
    LET free == {n \in Slugs : ~SlugTaken(n)}
    IN  IF free = {} THEN MaxSlug ELSE CHOOSE n \in free : \A m \in free : n <= m

\* Then progress is reported and the password is hashed.
ChooseSlug(c) ==
    /\ call[c].pc = "slug"
    /\ call' = [call EXCEPT ![c].pc = "tenant", ![c].slug = SlugFound]
    /\ progress' = [progress EXCEPT ![call[c].id] = "pending"]
    /\ UNCHANGED <<tenant, business, account, abandoned>>

\* Fault: the id is noted before the insert.
CreateTenant_NotedBefore(c) ==
    /\ call[c].pc = "tenant"
    /\ IF Exists(call[c].id) \/ SlugTaken(call[c].slug)
       THEN /\ call' = [call EXCEPT ![c].pc = "fail", ![c].created = TRUE]
            /\ UNCHANGED tenant
       ELSE /\ tenant' = [tenant EXCEPT ![call[c].id] = call[c].slug]
            /\ call' = [call EXCEPT ![c].pc = "business", ![c].created = TRUE]
    /\ UNCHANGED <<business, account, progress, abandoned>>

\* On the main client: committed at once.  It fails if the id or the slug has
\* been taken since.
CreateTenant(c) ==
    /\ call[c].pc = "tenant"
    /\ IF Exists(call[c].id) \/ SlugTaken(call[c].slug)
       THEN Goto(c, "fail") /\ UNCHANGED tenant
       ELSE /\ tenant' = [tenant EXCEPT ![call[c].id] = call[c].slug]
            /\ call' = [call EXCEPT ![c].pc = "business", ![c].created = TRUE]
    /\ UNCHANGED <<business, account, progress, abandoned>>

\* The same, but the answer of the database is lost.
CreateTenantUnanswered(c) ==
    /\ call[c].pc = "tenant" /\ ~Exists(call[c].id) /\ ~SlugTaken(call[c].slug)
    /\ tenant' = [tenant EXCEPT ![call[c].id] = call[c].slug]
    /\ Goto(c, "fail")
    /\ abandoned' = abandoned \cup {call[c].id}
    /\ UNCHANGED <<business, account, progress>>

\* Organisation, departments, recommended apps and the trial subscription, on
\* the main client, while the roles and the administrator are uncommitted.
SeedBusiness(c) ==
    /\ call[c].pc = "business"
    /\ business' = business \cup {call[c].id}
    /\ Goto(c, "commit")
    /\ UNCHANGED <<tenant, account, progress, abandoned>>

\* The IdP transaction commits.
Commit(c) ==
    /\ call[c].pc = "commit"
    /\ account' = account \cup {call[c].id}
    /\ call' = [call EXCEPT ![c].pc = "notify", ![c].committed = TRUE]
    /\ UNCHANGED <<tenant, business, progress, abandoned>>

\* The same, but the answer is lost: the catch block takes it for a failure.
CommitUnanswered(c) ==
    /\ call[c].pc = "commit"
    /\ account' = account \cup {call[c].id}
    /\ Goto(c, "fail")
    /\ abandoned' = abandoned \cup {call[c].id}
    /\ UNCHANGED <<tenant, business, progress>>

\* Verification mail, event, audit.
Finish(c) ==
    /\ call[c].pc = "notify"
    /\ progress' = [progress EXCEPT ![call[c].id] = "success"]
    /\ call' = [call EXCEPT ![c] = Idle]
    /\ UNCHANGED <<tenant, business, account, abandoned>>

\* A statement throws: a breached password, an identity that is bound already
\* (Federation), the IdP transaction timing out, the mail.
Throw(c) ==
    /\ call[c].pc \in {"tenant", "business", "commit", "notify"}
    /\ Goto(c, "fail")
    /\ UNCHANGED <<tenant, business, account, progress, abandoned>>

-------------------------------------------------------------------------------
(* The catch block *)

\* Fault: only a tenant with business rows is deleted.
Compensate_Seeded(c) ==
    /\ call[c].pc = "fail"
    /\ IF call[c].created /\ ~call[c].committed /\ call[c].id \in business
       THEN /\ tenant' = [tenant EXCEPT ![call[c].id] = None]
            /\ business' = business \ {call[c].id} /\ account' = account \ {call[c].id}
       ELSE UNCHANGED <<tenant, business, account>>
    /\ Goto(c, "report")
    /\ UNCHANGED <<progress, abandoned>>

Compensate(c) ==
    /\ call[c].pc = "fail"
    /\ IF call[c].created /\ ~call[c].committed
       THEN /\ tenant' = [tenant EXCEPT ![call[c].id] = None]
            /\ business' = business \ {call[c].id} /\ account' = account \ {call[c].id}
       ELSE UNCHANGED <<tenant, business, account>>
    /\ Goto(c, "report")
    /\ UNCHANGED <<progress, abandoned>>

\* The delete fails: that is logged, and nothing else.
CompensationFails(c) ==
    /\ call[c].pc = "fail" /\ call[c].created /\ ~call[c].committed
    /\ abandoned' = abandoned \cup {call[c].id}
    /\ Goto(c, "report")
    /\ UNCHANGED <<tenant, business, account, progress>>

\* Also of an attempt that failed after its commit, and over the success of
\* another attempt.
Report(c) ==
    /\ call[c].pc = "report"
    /\ progress' = [progress EXCEPT ![call[c].id] = "failed"]
    /\ call' = [call EXCEPT ![c] = Idle]
    /\ UNCHANGED <<tenant, business, account, abandoned>>

Die(c) ==
    /\ call[c].pc # "idle"
    /\ abandoned' = abandoned \cup IF call[c].created /\ ~call[c].committed THEN {call[c].id} ELSE {}
    /\ call' = [call EXCEPT ![c] = Idle]
    /\ UNCHANGED <<tenant, business, account, progress>>

Next ==
    \E c \in Calls :
       \/ \E t \in Tenants : Ask(c, t)
       \/ ChooseSlug(c) \/ CreateTenant(c) \/ CreateTenantUnanswered(c)
       \/ SeedBusiness(c) \/ Commit(c) \/ CommitUnanswered(c) \/ Finish(c) \/ Throw(c)
       \/ Compensate(c) \/ CompensationFails(c) \/ Report(c) \/ Die(c)

Spec == Init /\ [][Next]_registrationVars

-------------------------------------------------------------------------------
(* Properties *)

\* A tenant has an administrator, and what an administrator needs, or else an
\* attempt is about to commit or delete it - unless that attempt stopped
\* half-way, or the database did not answer it (nothing sweeps those).
NoHalfTenant ==
    \A t \in Tenants \ abandoned :
        Exists(t) => \/ t \in account \cap business
                     \/ \E c \in Calls : /\ call[c].id = t /\ call[c].created /\ ~call[c].committed
                                         /\ call[c].pc \in {"business", "commit", "fail"}

\* "Never compensate after commit": whatever fails afterwards, and whatever a
\* second attempt with the same id runs into, a registered tenant stays (unless
\* the commit itself was not answered).
RegisteredStays == [][account \subseteq account' \cup abandoned]_registrationVars

===============================================================================
