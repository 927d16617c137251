SPECIFICATION SignInSpec
CONSTANTS
    Sids = {s1, s2}
    Tokens = {t1, t2, t3}
    Reqs = {r1, r2}
    None = None
    Cap = 1
    IdleLimit = 0
    MaxClock = 1
    MaxFaults = 1
    Things = {s1, s2}
    Handles = {t1, t2, t3}
    Names = {u1, u2}
    MaxKeys = 2
    MaxCount = 1
SYMMETRY Symmetry
INVARIANTS
    CapHolds
    NoRenewalAfterRevocation
    
    SessionsEarned
    
    
PROPERTIES
    RevocationIsFinal
    CounterNeverBack
CHECK_DEADLOCK FALSE
