SPECIFICATION Spec
CONSTANTS
    Strings <- MCStrings
    Scripts <- MCScripts
    MaxReceived = 2
INVARIANTS
    TypeOK
    LineFollowsFormat
    ReceivedAccounted
PROPERTIES
    AllSent
