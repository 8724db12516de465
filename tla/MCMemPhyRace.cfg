SPECIFICATION Spec
CONSTANTS
    CPU = {c1, c2}
    NumFrames = 3
INVARIANT HandedOutOnce
CHECK_DEADLOCK FALSE
