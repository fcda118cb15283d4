CONSTANTS
    k1 = k1  k5 = k5
    Worker = {w1, w2}
    Producer = {p1, p2}
    Task = {k1, k2, k3, k4, k5}
    NoTask = NoTask
    Child <- MCChild
    MaxQueue = 2
SPECIFICATION Spec
INVARIANTS PoolSafety RunsOnce
PROPERTIES TasksBegin StopEnds
CHECK_DEADLOCK FALSE
