CONSTANTS
    c1 = c1
    c2 = c2
    io1 = io1
    io2 = io2
    Conn <- OneConn
    Base = base
    NoConn = none
    Pools <- OneLoop
    ForceFrom = {"connection"}
    ShutdownFrom = {}
    ExitBusy = FALSE
SPECIFICATION Spec
CHECK_DEADLOCK FALSE
INVARIANT AssertionsHold
