SPECIFICATION SpecAnyTarget
CONSTANTS
    Base = 8
    ZoneSize = 40
    Misplaced = {}
    FreeLimit = 0
    Requests = {8, 12, 24}
INVARIANTS
    OverlapIsTemporary
