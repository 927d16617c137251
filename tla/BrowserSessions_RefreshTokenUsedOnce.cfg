SPECIFICATION Spec
CONSTANTS
    Sids = {s1, s2}
    Tokens = {t1, t2, t3}
    Reqs = {r1, r2}
    None = None
    Cap = 1
    IdleLimit = 0
    MaxClock = 1
    MaxFaults = 0
SYMMETRY Symmetry
INVARIANTS
    RefreshTokenUsedOnce
