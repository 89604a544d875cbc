SPECIFICATION EntrySpec
CONSTANTS
    Zones <- MCZones
    Requests <- MCRequests
    Wanted <- MCWanted
    RequestLists <- MCRequestLists
    HeadBytes = 16
    EntryBytes = 8
INVARIANTS
    EntryTypeOK
    HolesBeforeEmpty
    ZonesPartitioned
    RequirementsHonoured
    AvailAddsUp
PROPERTIES
    FailureLeavesNoTrace
    LargestIsExact
    NeverSlowerThanNeeded
