SPECIFICATION FairSpec
CONSTANTS
    p1 = p1
    p2 = p2
    p3 = p3
    NoProc = NoProc
    Proc <- MCProc
    prio <- MCprio
    MAX_PRIO = 4
    MAX_QUEUE_SIZE = 3
    CPU = {c1, c2}
    Loader = ld
    time_slot = 2
    ld_processes <- MCLd
    start_time <- MCstart
    size <- MCsize
    Horizon = 2
INVARIANTS
    TypeOK
    FreshQuantum
    StoppedMeansFinished
PROPERTIES
    UsesScheduler
    OneInstructionPerSlot
    EveryProcessFinishes
