SPECIFICATION PlatformSpec
CONSTANTS
    Kids = {k1, k2, k3}
    Calls = {p1, p2, p3}
    None = None
    Life = 1
    MaxClock = 2
    MaxFaults = 1
    Things = {k1, k2, k3}
    Slots = {q1, q2}
    Providers = {a, b}
    Attempts = 2
    Quota = 1
    Sids = {s1}
    Dead = Dead
    Perms = {p}
    TTL = 1
    Openid = Openid
    Agent = Agent
    Scopes = {Openid, Agent, s}
    MaxGrants = 2
    MaxEdits = 1
    MaxSaves = 1
    MaxRecords = 1
    LongClock = 2
SYMMETRY Symmetry
INVARIANTS
    NoCallThrows
    OneKeyPerRotation
    CurrentKeyKept
    YoungKeysPublished
    
    DenialStands
    TabsStayValid
    
    StaleWithinTTL
    OneEffect
    NoCodeWithoutConsent
    
    
    
CHECK_DEADLOCK FALSE
