CONSTANTS
    c1 = c1
    c2 = c2
    io1 = io1
    io2 = io2
    Conn <- OneConn
    Base = base
    NoConn = none
    Pools <- SmallPool
    ForceFrom = {"message", "connection", "peer", "functor", "foreign"}
    ShutdownFrom = {"message", "connection", "peer", "functor", "foreign"}
    ExitBusy = TRUE
SPECIFICATION Spec
CHECK_DEADLOCK FALSE
INVARIANT ReportedInOrder
