SPECIFICATION BootSpec
CONSTANTS
    ChipWindow = 6
    ChipRepeat = 4
    SlowWindow = 3
    FastWindow = 8
    Machines <- MCMachines
    Lowest <- MCLowest
    StepSize <- MCStepSize
    ExecBaseBytes = 1280
    TaskBytes = 92
    LibraryBytes = 64
    RomSize <- MCRomSize
    Roms <- MCRoms
    Systems <- MCSystems
INVARIANTS
    FoundExact
    ContentsKept
    HandedOver
    NothingOverlaps
    NeverWild
    NothingLeft
PROPERTIES
    BootEnds
CHECK_DEADLOCK FALSE
