SPECIFICATION Spec
CONSTANTS
    Proc = {k, a, b}
    Killer = k
    CPU = {c1}
    Loader = ld
    MAX_QUEUE_SIZE = 3
    NoProc = NoProc
INVARIANTS
    TypeOK
    ListsExact
    BreaksOnlyTogether
    BystandersKept
PROPERTIES
    KillReturns
CHECK_DEADLOCK FALSE
