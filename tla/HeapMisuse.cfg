SPECIFICATION SpecMisuse
CONSTANTS
    Base = 16
    ZoneSize = 32
    Misplaced = {0, 8, 12, 16, 20, 24, 28, 32, 36, 40, 44, 48, 52}
    FreeLimit = 64
    Requests = {0, 8, 12, 16}
INVARIANTS
    MisuseOnlyInflates
VIEW
    ListAndCounter
