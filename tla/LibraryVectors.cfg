SPECIFICATION Spec
CONSTANTS
    Addresses <- MCAddresses
    Tables <- MCTables
    Words = {0, 3, 6, 8}
    Garbage = {0, 7, 2000000000}
    Foreign = {0, 5}
INVARIANTS
    TypeOK
    SumFollows
    NoFalseAlarm
CHECK_DEADLOCK FALSE
