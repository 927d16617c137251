SPECIFICATION Spec
CONSTANTS
    None = None
    MaxRecords = 1
INVARIANTS
    ProviderRealm
CHECK_DEADLOCK FALSE
