CONSTANTS
    Names <- MCNames
    Whole = Whole
    MaxCalls = 3
    MaxReleases = 1
    MaxFaults = 1
    MaxDatabases = 2
    None = None
SPECIFICATION Spec
INVARIANTS
    TypeOK
    Exclusive
    CountsAgree
    CleanInPool
CHECK_DEADLOCK FALSE
