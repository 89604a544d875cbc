SPECIFICATION Spec
CONSTANTS
    Base = 8
    ZoneSize = 48
    Misplaced = {}
    FreeLimit = 0
    Requests = {0, 8, 12, 24}
INVARIANTS
    TypeOK
    FreeListSound
    Partition
    FreeCounted
    ReleasedIsWhole
    HeadersFit
PROPERTIES
    Implements
