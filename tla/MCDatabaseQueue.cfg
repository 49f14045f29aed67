CONSTANTS
    Names <- MCNames
    Whole = Whole
    MaxTasks = 3
    MaxCloses = 1
    MaxFailures = 2
    None = None
SPECIFICATION Spec
INVARIANTS
    TypeOK
    OpenOnlyIfLeft
    RollbackUndoes
    CommitIsDurable
PROPERTIES
    EveryCallRuns
CHECK_DEADLOCK FALSE
