CONSTANTS
    ThreadMain = ThreadMain
    ThreadWhatEver = ThreadWhatEver
    back = back
    mainQ = mainQ
    whatQ = whatQ
    backQ = backQ
    other = other
    Threads <- MCThreads
    Queues <- MCQueues
    MainQueue = mainQ
    QueueAt <- MCQueueAt
    Others <- MCOthers
    MaxBlocks = 2
    MaxRetarget = 1
    None = None
SPECIFICATION FairSpec
INVARIANTS
    TypeOK
    RunsOnItsThread
    ExactlyOnce
PROPERTIES
    SubmissionOrder
    NoDeadBlock
    EveryBlockRuns
CHECK_DEADLOCK FALSE
