---------------------------- MODULE PlatformAccess ----------------------------
(***************************************************************************)
(* Who may open a platform: PlatformEntitlementService reads the platform, *)
(* its grants, the tenant's subscription and the user's groups (the last   *)
(* three in parallel) and then decides, while operators edit all of them.  *)
(* One action per read.                                                    *)
(*                                                                         *)
(* Checks only read, so one check of one platform is enough.  Roles,       *)
(* permissions and assurance of the principal are claims, the same         *)
(* throughout a check; conditions on grants are about claims, and validity *)
(* dates about the clock: a grant is here while both are met.              *)
(***************************************************************************)
EXTENDS Integers, FiniteSets

CONSTANTS Catalogue, \* platforms, as seen by principals: a set of Entries
          MaxGrants, \* bound: platform_grants rows of the platform
          MaxEdits   \* bound: what the consoles change

VARIABLES entry,   \* the platform, and what the principal's claims are for it
          grants,  \* platform_grants of the platform
          planned, \* the subscription is ACTIVE or TRIAL, with the plan of the grants
          member,  \* the user belongs to the group of the grants
          edits,   \* edits so far
          check,   \* the check in flight: what it has read
          denied,  \* history: DENY grants that have matched since the check began
          verdict  \* history: the last decision, and whether a denial stood then

accessVars == <<entry, grants, planned, member, edits, check, denied, verdict>>

-------------------------------------------------------------------------------
Entries ==
    [internal : BOOLEAN, lifecycle : {"LIVE", "MAINTENANCE", "SUSPENDED", "RETIRED"},
     public : BOOLEAN, requiresTenant : BOOLEAN,
     authority : BOOLEAN, \* holdsControlPlaneAuthority
     assured : BOOLEAN]   \* meetsAssurance

\* ROLE grants are for everyone or, like USER grants, for the principal.
Grants == [effect : {"ALLOW", "DENY"}, subject : {"everyone", "principal", "group", "plan"}]

\* A part that has not been read is {}, one that has been is a singleton.
Reading == [entry : Entries, grants : SUBSET (SUBSET Grants),
            planned : SUBSET BOOLEAN, member : SUBSET BOOLEAN]

TypeOK ==
    /\ entry \in Entries
    /\ grants \subseteq Grants /\ Cardinality(grants) <= MaxGrants
    /\ planned \in BOOLEAN /\ member \in BOOLEAN
    /\ edits \in 0..MaxEdits
    /\ check \subseteq Reading /\ Cardinality(check) <= 1
    /\ denied \subseteq Grants
    /\ verdict \in {"none", "HIDDEN", "DISABLED", "ENABLED", "CONTRADICTED"}

Init ==
    /\ entry \in Catalogue
    /\ grants \in {gs \in SUBSET Grants : Cardinality(gs) <= MaxGrants}
    /\ planned \in BOOLEAN /\ member \in BOOLEAN
    /\ edits = 0
    /\ check = {} /\ denied = {} /\ verdict = "none"

-------------------------------------------------------------------------------
(* grantMatches, decide *)

Matches(g, isMember, isPlanned) ==
    \/ g.subject \in {"everyone", "principal"}
    \/ g.subject = "group" /\ isMember
    \/ g.subject = "plan" /\ isPlanned

HasAuthority(p, matching) ==
    IF p.internal
    THEN p.authority \/ \E g \in matching : g.effect = "ALLOW" /\ g.subject # "everyone"
    ELSE (\E g \in matching : g.effect = "ALLOW") \/ (p.public /\ ~p.requiresTenant)

\* Fault: an allowance outweighs a denial.
Decide_AllowWins(p, matching) ==
    IF p.lifecycle = "LIVE" /\ p.assured /\ HasAuthority(p, matching) THEN "ENABLED"
    ELSE IF p.public THEN "DISABLED" ELSE "HIDDEN"

Decide(p, matching) ==
    LET out == IF p.public THEN "DISABLED" ELSE "HIDDEN"
    IN  IF p.lifecycle = "RETIRED" THEN "HIDDEN"
        ELSE IF \E g \in matching : g.effect = "DENY" THEN out
        ELSE IF ~HasAuthority(p, matching) THEN out
        ELSE IF p.lifecycle # "LIVE" \/ ~p.assured THEN "DISABLED"
        ELSE "ENABLED"

Denials(gs, isMember, isPlanned) ==
    {g \in gs : g.effect = "DENY" /\ Matches(g, isMember, isPlanned)}

-------------------------------------------------------------------------------
(* assertMayAccess; listEntitledPlatforms does the same for each platform *)

ReadPlatform ==
    /\ check = {}
    /\ check' = {[entry |-> entry, grants |-> {}, planned |-> {}, member |-> {}]}
    /\ denied' = Denials(grants, member, planned)
    /\ UNCHANGED <<entry, grants, planned, member, edits, verdict>>

Read(r, now) ==
    /\ r \in check
    /\ check' = {now}
    /\ UNCHANGED <<entry, grants, planned, member, edits, denied, verdict>>

ReadGrants == \E r \in check : r.grants = {} /\ Read(r, [r EXCEPT !.grants = {grants}])

ReadSubscription == \E r \in check : r.planned = {} /\ Read(r, [r EXCEPT !.planned = {planned}])

ReadGroups == \E r \in check : r.member = {} /\ Read(r, [r EXCEPT !.member = {member}])

Answer ==
    /\ \E r \in check : \E gs \in r.grants, isMember \in r.member, isPlanned \in r.planned :
         LET visibility == Decide(r.entry, {g \in gs : Matches(g, isMember, isPlanned)})
         IN  verdict' = IF visibility = "ENABLED" /\ denied # {} THEN "CONTRADICTED" ELSE visibility
    /\ check' = {} /\ denied' = {}
    /\ UNCHANGED <<entry, grants, planned, member, edits>>

-------------------------------------------------------------------------------
(* The consoles *)

Edit(e, gs, isPlanned, isMember) ==
    /\ edits < MaxEdits /\ edits' = edits + 1
    /\ entry' = e /\ grants' = gs /\ planned' = isPlanned /\ member' = isMember
    /\ denied' = denied \cap Denials(gs, isMember, isPlanned)
    /\ UNCHANGED <<check, verdict>>

AddGrant(g) == Cardinality(grants \cup {g}) <= MaxGrants /\ Edit(entry, grants \cup {g}, planned, member)

RemoveGrant(g) == g \in grants /\ Edit(entry, grants \ {g}, planned, member)

ChangePlan == Edit(entry, grants, ~planned, member)

ChangeGroup == Edit(entry, grants, planned, ~member)

SetLifecycle(l) == Edit([entry EXCEPT !.lifecycle = l], grants, planned, member)

-------------------------------------------------------------------------------
Next ==
    \/ ReadPlatform \/ ReadGrants \/ ReadSubscription \/ ReadGroups \/ Answer
    \/ \E g \in Grants : AddGrant(g) \/ RemoveGrant(g)
    \/ \E l \in {"LIVE", "RETIRED"} : SetLifecycle(l)
    \/ ChangePlan \/ ChangeGroup

Spec == Init /\ [][Next]_accessVars

-------------------------------------------------------------------------------
(* Properties *)

\* The reads of one check are of different moments, but a denial that has stood
\* since the check began is not overlooked: a platform is opened only if no DENY
\* grant has matched the principal throughout.
DenialStands == verdict # "CONTRADICTED"

===============================================================================
