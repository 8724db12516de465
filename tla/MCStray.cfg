SPECIFICATION Spec
CONSTANTS
    Proc = {p1, p2}
    RgId = {r1}
    Size = {4, 8}
    Stray = {4, 8}
    Val = {}
    NoVal = NoVal
    PAGESZ = 4
    PAGING_MAX_PGN = 4
    MaxPgn = 3
    MaxKills = 1
    Mortal = {p1, p2}
    RamFrames = 2
    SwpFrames = 2
SYMMETRY Interchangeable
INVARIANTS
    RegionsMapped
    Evictable
    SwapExclusiveUntilKilled
CHECK_DEADLOCK FALSE
