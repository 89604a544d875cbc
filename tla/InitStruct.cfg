SPECIFICATION Spec
CONSTANTS
    Size = 12
    Packed <- MCPacked
INVARIANTS
    UnpackedAsMeant
CHECK_DEADLOCK FALSE
