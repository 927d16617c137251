SPECIFICATION Spec
CONSTANTS
    Codes = {k1, k2}
    Wrong = Wrong
    Calls = {p1, p2}
    None = None
    Never = Never
    Max = 2
    Ttl = 2
    Cooldown = 1
    MaxClock = 3
    MaxFaults = 1
SYMMETRY Symmetry
INVARIANTS
    CounterExpires
