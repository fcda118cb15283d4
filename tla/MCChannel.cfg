CONSTANTS
    c1 = c1
    c2 = c2
    t1 = t1
    t2 = t2
    none = none
    NoChan = none
    Chan <- MCChan
    Timers <- MCTimers
    Fd <- MCFd
    FdOf <- MCFdOf
    CancelInHandler = FALSE
SPECIFICATION Spec
INVARIANTS
    RegistrationSound
    NoStaleEvent
PROPERTY
    NoneNotRegistered
