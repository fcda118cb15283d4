CONSTANTS
    c1 = c1
    c2 = c2
    io1 = io1
    io2 = io2
    Conn <- TwoConns
    Base = base
    NoConn = none
    Pools <- AnyPool
    ForceFrom = {"message"}
    ShutdownFrom = {"message", "connection", "peer", "functor"}
    ExitBusy = FALSE
SPECIFICATION Spec
CHECK_DEADLOCK FALSE
INVARIANTS ServerSafety AssertionsHold
PROPERTY ImplementsLifecycle
