CONSTANTS
    Names <- MCNames
    Whole = Whole
    MaxCalls = 3
    MaxReleases = 0
    MaxFaults = 0
    MaxDatabases = 2
    None = None
SPECIFICATION FairSpec
PROPERTIES
    EveryCallReturns
CHECK_DEADLOCK FALSE
