CONSTANTS
    Names <- MCNames
    Whole = Whole
    MaxTasks = 3
    MaxCloses = 1
    MaxFailures = 2
    None = None
SPECIFICATION Spec
INVARIANTS
    NestingDeadlocks
CHECK_DEADLOCK FALSE
