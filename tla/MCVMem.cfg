SPECIFICATION Spec
CONSTANTS
    Proc = {p1, p2}
    RgId = {r1, r2}
    Size = {2, 6}
    Stray = {}
    Val = {v1, v2}
    NoVal = NoVal
    PAGESZ = 4
    PAGING_MAX_PGN = 3
    MaxPgn = 3
    MaxKills = 0
    Mortal = {p1, p2}
    RamFrames = 2
    SwpFrames = 2
SYMMETRY Interchangeable
INVARIANTS
    TypeOK
    OneOwner
    NothingLost
    Coalesced
    RegionsMapped
    FrameExclusive
    ReadsSeeWrites
    BreaksOnlyWhenFull
CHECK_DEADLOCK FALSE
