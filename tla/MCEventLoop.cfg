CONSTANTS
    f1 = f1
    f2 = f2
    t1 = t1
    t2 = t2
    t3 = t3
    Foreign <- MCForeign
    Task <- MCTask
    EarlyPush = FALSE
    StoreDelay = TRUE
    Signals = TRUE
SPECIFICATION FairSpec
INVARIANT
    LoopSafety
PROPERTIES
    QuitEnds
    ImplementsExecutor
CHECK_DEADLOCK TRUE
