CONSTANTS
    f1 = f1
    f2 = f2
    t1 = t1
    t2 = t2
    t3 = t3
    Foreign <- MCForeign
    Task <- MCTask2
    EarlyPush = TRUE
    StoreDelay = FALSE
    Signals = TRUE
SPECIFICATION FairSpec
PROPERTIES
    QueuedRuns
CHECK_DEADLOCK TRUE
