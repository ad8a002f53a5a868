CONSTANTS
    Launches = {1, 2, 3}
    None = None
    HasCatalog = TRUE
    MaxLaunch = 2
    MaxChildren = 1
    MaxGeneration = 2
    Kinds = {"plain", "gateway"}
    MaxServices = 2
    MaxStarts = 2
SPECIFICATION MCSpec
INVARIANTS OneProcess RowIsBacked SettledIsQuiet TermReachesOwner
PROPERTIES StopCompletes ExecIsAuthorized SlotIsReleased  
CHECK_DEADLOCK FALSE
