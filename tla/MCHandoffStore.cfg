CONSTANTS
    Jobs = {j1, j2}
    EpisodeJobs = {j1}
    WorkerIds = {owner}
    Owner = owner
    Results = {r1}
    NoValue = NoValue
    Boots = {b1, b2}
    MaxJobs = 2
    MaxAttempts = 2
    MaxTime = 1
    MaxSeq = 1
SPECIFICATION HandoffSpec
PROPERTIES
    ImplementsAttemptLedger
