SPECIFICATION NestingSpec
CONSTANTS
    Half = 6
    Depth = 6
    Levels = 4
INVARIANTS
    DisabledMeansOff
    CountTellsNesting
