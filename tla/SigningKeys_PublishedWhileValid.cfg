SPECIFICATION Spec
CONSTANTS
    Kids = {k1, k2, k3}
    Calls = {p1, p2}
    None = None
    Life = 1
    MaxClock = 2
    MaxFaults = 0
SYMMETRY Symmetry
INVARIANTS
    PublishedWhileValid
