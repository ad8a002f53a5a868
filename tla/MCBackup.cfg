CONSTANTS
    Keys = {k1, k2, k3}
    Ids <- MCIds
    Args <- MCArgs
    MaxCommands = 5
    ReservedLifecycle = 1
    MaxAudit = 6
    ReservedCritical = 1
    MaxJobs = 0
    Releases = {r1, r2}
    NoRelease = NoRelease
    BackupIds = {b1}
    MaxSends = 4
    MaxCrashes = 1
SYMMETRY Symmetry
SPECIFICATION AdminSpec
INVARIANTS
    SelectionMatchesReceipts
    DurableIsRestorable
PROPERTIES
    MarkerIsHonoured
CHECK_DEADLOCK FALSE
