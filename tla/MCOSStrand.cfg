SPECIFICATION Spec
CONSTANTS
    p1 = p1
    p2 = p2
    p3 = p3
    NoProc = NoProc
    Proc <- TwoProc
    prio <- Twoprio
    MAX_PRIO = 1
    MAX_QUEUE_SIZE = 3
    CPU = {c1}
    Loader = ld
    time_slot = 1
    ld_processes <- TwoLd
    start_time <- Twostart
    size <- Twosize
    Horizon = 0
INVARIANTS
    StoppedMeansFinished
