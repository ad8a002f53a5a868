CONSTANTS
    Jobs = {j1, j2}
    EpisodeJobs = {j1, j2}
    WorkerIds = {owner}
    Owner = owner
    Results = {r1}
    NoValue = NoValue
    Boots = {1, 2, 3, 4, 5}
    MaxJobs = 2
    MaxAttempts = 1
    MaxTime = 0
    MaxSeq = 3
    MaxDisturbances = 2
    StopMayFail = TRUE
SPECIFICATION PhaseSpec
INVARIANTS
    StartedOnce
    RunningIsReserved
    OutcomeIsTheWorkers
    FinishNeverConflicts
PROPERTIES
    NoStartAfterPause
CHECK_DEADLOCK FALSE
