CONSTANTS
    MaxParts = 3
    None = None
SPECIFICATION Spec
INVARIANTS
    TypeOK
    ClosesAfterParts
    NothingUndefined
PROPERTIES
    KeepsPromise
    EveryUploadEnds
CHECK_DEADLOCK FALSE
