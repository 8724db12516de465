SPECIFICATION FairSpec
CONSTANTS
    p1 = p1
    p2 = p2
    p3 = p3
    NoProc = NoProc
    Proc <- TwoProc
    prio <- Twoprio
    MAX_PRIO = 4
    MAX_QUEUE_SIZE = 3
    CPU = {c1, c2}
    Loader = ld
    time_slot = 2
    ld_processes <- TwoLd
    start_time <- Twostart
    size <- Twosize
    Horizon = 0
PROPERTIES
    Termination
