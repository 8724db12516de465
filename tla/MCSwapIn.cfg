SPECIFICATION Spec
CONSTANTS
    Proc = {p1}
    RgId = {r1}
    Size = {4, 8}
    Stray = {4, 8}
    Val = {v1, v2}
    NoVal = NoVal
    PAGESZ = 4
    PAGING_MAX_PGN = 3
    MaxPgn = 3
    MaxKills = 0
    Mortal = {}
    RamFrames = 3
    SwpFrames = 3
INVARIANT ReadsSeeWrites
CHECK_DEADLOCK FALSE
