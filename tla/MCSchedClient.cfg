SPECIFICATION CFairSpec
CONSTANTS
    p1 = p1
    p2 = p2
    p3 = p3
    NoProc = NoProc
    Proc <- MCProc
    prio <- MCprio
    MAX_PRIO = 2
    MAX_QUEUE_SIZE = 3
    Caller = {c1, c2}
INVARIANTS
    CTypeOK
    Exclusive
    NoProcessLost
PROPERTIES
    FifoWithinPriority
    BoundedWait
    NoStarvation
