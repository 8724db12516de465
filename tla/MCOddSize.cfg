SPECIFICATION Spec
CONSTANTS
    Proc = {p1}
    RgId = {r1, r2}
    Size = {1, 3}
    Stray = {}
    Val = {v1}
    NoVal = NoVal
    PAGESZ = 4
    PAGING_MAX_PGN = 2
    MaxPgn = 2
    MaxKills = 0
    Mortal = {}
    RamFrames = 3
    SwpFrames = 3
INVARIANT OneOwner
CHECK_DEADLOCK FALSE
