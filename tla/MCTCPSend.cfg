CONSTANTS
    f1 = f1
    Foreign <- MCForeign
    Loop = loop
    NoThread = none
    MaxSize = 2
    MaxBytes = 2
SPECIFICATION Spec
CHECK_DEADLOCK FALSE
INVARIANTS
    WritesWatched
    GapFree
PROPERTIES
    ShutdownEnds
    DrainReported
    ImplementsStream
