SPECIFICATION Spec
CONSTANTS
    a = a
    b = b
    c = c
    d = d
    HEAD = HEAD
    TAIL = TAIL
    NONE = NONE
    Nodes = {a, b, c, d}
    Priority <- MCPriority
INVARIANTS
    ForwardArrives
    BackwardMirrors
    RemovedStillLeads
PROPERTIES
    Implements
