SPECIFICATION AccountsSpec
CONSTANTS
    Codes = {k1, k2}
    Wrong = Wrong
    Calls = {p1, p2}
    None = None
    Never = Never
    Max = 2
    Ttl = 2
    Cooldown = 1
    MaxClock = 3
    MaxFaults = 1
    Things = {k1, k2}
    Links = {l1, l2, l3}
    Batches = {b1, b2}
    PerBatch = 2
    Lock = 2
    Free = 1
    Base = 1
    Cap = 2
    Quiet = 2
    MaxTries = 5
    LockClock = 4
    MaxSlug = 2
    MaxContacts = 1
    Files <- FilesGiven
    BatchSize = 2
    MaxCells = 2
    MaxLength = 2
SYMMETRY Symmetry
INVARIANTS
    AttemptLimit
    ConsumedCodeDead
    GuessesBounded
    DeadLinkRefused
    FactorInStep
    OneVerdict
    NoHalfTenant
    LeftIsSignedOut
    OutcomeTrue
    
PROPERTIES
    RegisteredStays
CHECK_DEADLOCK FALSE
