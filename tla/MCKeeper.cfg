CONSTANTS
    ThreadMain = ThreadMain
    ThreadWhatEver = ThreadWhatEver
    back = back
    mainQ = mainQ
    whatQ = whatQ
    backQ = backQ
    other = other
    TestNotification = TestNotification
    TestNotificationThread = TestNotificationThread
    Threads <- MCThreads
    Queues <- MCQueues
    MainQueue = mainQ
    QueueAt <- MCQueueAt
    Others = {other}
    MaxBlocks = 2
    MaxRetarget = 0
    None = None
    Events <- MCEvents
    EventThread <- MCEventThread
    ByDefault <- MCByDefault
    AnyName = AnyName
    UIObservers = {}
    Modules = {}
    Kept = {kept}
    MaxEntries = 2
SPECIFICATION NotificationSpec
INVARIANTS
    KeeperUnregisters
CHECK_DEADLOCK FALSE
