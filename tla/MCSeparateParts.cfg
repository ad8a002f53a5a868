CONSTANTS
    Request = {r1, r2, r3}
    NoRequest = NoRequest
    MaxLedgerRequests = 2
    MaxLedgerTransitions = 8
    MaxActiveProcesses = 2
    LineBytes = 2
    MaxLineBytes = 2
    PipeCapacity = 1
    MaxChanges = 2
    MaxForks = 2
    MaxWinLaunch = 2
    MaxWatchdogs = 2
    MaxFileChanges = 2
    ByteValues = 5
    MaxField = 3
    MaxItems = 2
    Block = 4
    LengthBytes = 2
    Budget = 2
    Window = 2
    Base = 1
    Cap = 8
    Samples = {0, 3, 7}
    RestartEnabled = TRUE
    MaxTime = 5
    MaxEpoch = 2
    RoleCount = 2
    MaxEdits = 3
    Controllers = {c1, c2}
    MaxProbes = 2
    MaxKills = 2
SPECIFICATION MCSpec
INVARIANTS
    LiveIsRecorded
    
    TargetReadsItsFrame
    GroupSignalIsOwned
    ImageIsApproved
    SettledIsCondemned
    
    BudgetHolds
    OwnerIsReached
    
PROPERTIES
    ExecIsApproved
    ResumeIsAuthorized
    VerifiedIsCurrent
CHECK_DEADLOCK FALSE
