SPECIFICATION Spec
CONSTANTS
    Clients = {c1, c2}
    Sessions = {s1}
    Codes = {a1}
    Grants = {g1, g2, g3}
    Reqs = {r1, r2}
    None = None
    MaxFaults = 1
SYMMETRY Symmetry
INVARIANTS
    SingleBearer
    LinearRotation
    ChainBinding
    NoRefreshAfterSessionEnd
PROPERTIES
    ImplementsChain
