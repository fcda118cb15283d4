CONSTANTS
    o = o
    t1 = t1
    t2 = t2
    Owner = o
    Foreign <- MCForeign
    Task <- MCTask
    EarlyPush = FALSE
    StoreDelay = TRUE
    Signals = FALSE
    Settled = TRUE
    SelfQuit = TRUE
SPECIFICATION ThreadSpec
INVARIANTS
    ThreadSafety
PROPERTIES
    CallsReturn
