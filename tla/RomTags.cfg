SPECIFICATION Spec
CONSTANTS
    RomSize <- MCRomSize
    Roms <- MCRoms
INVARIANTS
    ArrayFits
    NothingInsideModules
    PriorityOrder
PROPERTIES
    BootCompletes
CHECK_DEADLOCK FALSE
