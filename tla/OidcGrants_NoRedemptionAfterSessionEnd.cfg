SPECIFICATION Spec
CONSTANTS
    Clients = {c1}
    Sessions = {s1}
    Codes = {a1}
    Grants = {g1, g2}
    Reqs = {r1, r2}
    None = None
    MaxFaults = 0
SYMMETRY Symmetry
INVARIANTS
    NoRedemptionAfterSessionEnd
