SPECIFICATION Spec
CONSTANTS
    Proc = {p1, p2}
    RgId = {r1}
    Size = {4}
    Stray = {}
    Val = {}
    NoVal = NoVal
    PAGESZ = 4
    PAGING_MAX_PGN = 3
    MaxPgn = 1
    MaxKills = 1
    Mortal = {}
    RamFrames = 2
    SwpFrames = 2
INVARIANT KillCollects
CHECK_DEADLOCK FALSE
