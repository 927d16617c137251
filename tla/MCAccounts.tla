------------------------------ MODULE MCAccounts ------------------------------
(***************************************************************************)
(* Instances of the components that guard an account or make one, for TLC: *)
(* OtpStore, which this module extends, PasswordLockout, EmailLinks,       *)
(* SecondFactor, PushApproval, Registration and AccountGovernance; and the *)
(* imports: BulkRows and CsvLines.                                         *)
(*                                                                         *)
(* The components share no rows, so nothing is learnt from interleaving    *)
(* them: a behaviour picks one (part) and the others stay as they began.   *)
(***************************************************************************)
EXTENDS OtpStore, FiniteSets, Sequences, TLC

CONSTANTS Things, \* passwords, secrets, devices, tenants, members: two of each
          Links, Batches, PerBatch,
          Lock, Free, Base, Cap, Quiet, MaxTries, LockClock, MaxSlug, MaxContacts,
          Files, BatchSize, MaxCells, MaxLength

VARIABLES part,
          user, origin, try, lockTries, now, wrong, lost,
          hash, verified, link, linkCall, dead,
          mfa, mfaCall, made, spent, stale,
          devices, status, expired, pushCall, verdicts, signedIn, crossed,
          tenant, business, account, progress, registerCall, abandoned,
          active, owners, session, requests, contacts, ownCall, excused,
          table, bulkCall,
          cells, line, parse

\* Files whose last row repeats the first, and files with a row that is no row.
FilesGiven ==
    {f \in [1..3 -> Things] : f[1] = f[3] /\ f[1] # f[2]}
        \cup {f \in [1..2 -> Things \cup {Never}] : f[1] # Never /\ f[2] = Never}

\* Cells of some characters; titles hold no quotes.
Cells(characters) == UNION {[1..n -> characters] : n \in 0..MaxLength}

Lockout == INSTANCE PasswordLockout WITH Slots <- Calls, tries <- lockTries, MaxClock <- LockClock
Mailed == INSTANCE EmailLinks WITH Passwords <- Things, call <- linkCall
Factor == INSTANCE SecondFactor WITH Secrets <- Things, call <- mfaCall
Push == INSTANCE PushApproval WITH Devices <- Things, call <- pushCall
SignUp == INSTANCE Registration WITH Tenants <- Things, call <- registerCall
Own == INSTANCE AccountGovernance WITH Members <- Things, call <- ownCall
Bulk == INSTANCE BulkRows WITH Keys <- Things, Malformed <- Never, call <- bulkCall
Csv == INSTANCE CsvLines WITH Titles <- Cells({"comma", "space", "x"}),
                              Contents <- Cells({"quote", "comma", "space", "x"})

\* None is no value of the components that use it; limits are positive.
ASSUME AccountsAssumption ==
    /\ Lockout!Assumptions
    /\ None \notin Things /\ None \notin Mailed!Kinds /\ None \notin SignUp!Slugs
    /\ None \notin {"APPROVED", "DENIED", "PENDING", "EXPIRED"}
    /\ MaxCells \in Nat /\ MaxLength \in Nat
    /\ MaxSlug \in Nat \ {0} /\ MaxContacts \in Nat \ {0} /\ BatchSize \in Nat \ {0}
    /\ IsFiniteSet(Calls)
    /\ Never \notin Things
    /\ \A f \in Files : f \in Seq(Things \cup {Never}) /\ f # <<>>

Symmetry == Permutations(Codes) \cup Permutations(Calls) \cup Permutations(Links)

-------------------------------------------------------------------------------
\* What each component changes.
lockout == <<user, origin, try, lockTries, now, wrong, lost>>
mailed == <<hash, verified, link, linkCall, dead>>
factor == <<mfa, mfaCall, made, spent, stale>>
push == <<devices, status, expired, pushCall, verdicts, signedIn, crossed>>
signup == <<tenant, business, account, progress, registerCall, abandoned>>
own == <<active, owners, session, requests, contacts, ownCall, excused>>
bulk == <<table, bulkCall>>
csv == <<cells, line, parse>>

accountsVars == <<part, vars, lockout, mailed, factor, push, signup, own, bulk, csv>>

\* A component that does not move is where it began; those with several initial
\* states are then not looked at, and None throughout.
AccountsInit ==
    /\ part \in {"otp", "lockout", "mailed", "factor", "push", "signup", "own", "bulk", "csv"}
    /\ Init /\ Lockout!Init /\ Factor!Init /\ Push!Init /\ SignUp!Init /\ Csv!Init
    /\ IF part = "mailed" THEN Mailed!Init
       ELSE hash = None /\ verified = None /\ link = None /\ linkCall = None /\ dead = None
    /\ IF part = "own" THEN Own!Init
       ELSE /\ active = None /\ owners = None /\ session = None /\ requests = None
            /\ contacts = None /\ ownCall = None /\ excused = None
    /\ IF part = "bulk" THEN Bulk!Init ELSE table = {} /\ bulkCall = None

AccountsNext ==
    \/ /\ part = "otp" /\ Next
       /\ UNCHANGED <<part, lockout, mailed, factor, push, signup, own, bulk, csv>>
    \/ /\ part = "lockout" /\ Lockout!Next
       /\ UNCHANGED <<part, vars, mailed, factor, push, signup, own, bulk, csv>>
    \/ /\ part = "mailed" /\ Mailed!Next
       /\ UNCHANGED <<part, vars, lockout, factor, push, signup, own, bulk, csv>>
    \/ /\ part = "factor" /\ Factor!Next
       /\ UNCHANGED <<part, vars, lockout, mailed, push, signup, own, bulk, csv>>
    \/ /\ part = "push" /\ Push!Next
       /\ UNCHANGED <<part, vars, lockout, mailed, factor, signup, own, bulk, csv>>
    \/ /\ part = "signup" /\ SignUp!Next
       /\ UNCHANGED <<part, vars, lockout, mailed, factor, push, own, bulk, csv>>
    \/ /\ part = "own" /\ Own!Next
       /\ UNCHANGED <<part, vars, lockout, mailed, factor, push, signup, bulk, csv>>
    \/ /\ part = "bulk" /\ Bulk!Next
       /\ UNCHANGED <<part, vars, lockout, mailed, factor, push, signup, own, csv>>
    \/ /\ part = "csv" /\ Csv!Next
       /\ UNCHANGED <<part, vars, lockout, mailed, factor, push, signup, own, bulk>>

AccountsSpec == AccountsInit /\ [][AccountsNext]_accountsVars

-------------------------------------------------------------------------------
(* Properties: those of the components, under the names they have there,   *)
(* each with the types of its component                                    *)

\* Failures of password sign-ins are all counted (registerFailedAttempt) and the
\* backoff of an origin has a ceiling (recordFailure).
GuessesBounded == Lockout!TypeOK /\ Lockout!GuessesBounded

\* A reset or verification link that was used or replaced opens nothing.
DeadLinkRefused == part = "mailed" => Mailed!TypeOK /\ Mailed!DeadLinkRefused

\* The columns of a second factor stay in step (enable, disable, recovery codes).
FactorInStep == Factor!TypeOK /\ Factor!FactorInStep

\* A push challenge has one verdict, and signs in on an approval only.
OneVerdict == Push!TypeOK /\ Push!OneVerdict

\* A tenant without an administrator is about to get one or to be deleted.
NoHalfTenant == SignUp!TypeOK /\ SignUp!NoHalfTenant

\* Compensation never deletes a tenant whose registration has committed.
RegisteredStays == SignUp!RegisteredStays

\* Whoever has left the organisation has no session in it.
LeftIsSignedOut == part = "own" => Own!TypeOK /\ Own!LeftIsSignedOut

\* What an import reports of all rows is so (processImport).
OutcomeTrue == part = "bulk" => Bulk!TypeOK /\ Bulk!OutcomeTrue

\* An import reads the cells that an export wrote (parseCsvLine).
ExportReadsBack == part = "csv" => Csv!TypeOK /\ Csv!ExportReadsBack

===============================================================================
