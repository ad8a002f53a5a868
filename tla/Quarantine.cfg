CONSTANTS
    MaxLaunch = 2
    MaxChildren = 1
    MaxGeneration = 2
    Kinds = {"plain", "gateway"}
SPECIFICATION LaunchSpec
PROPERTY QuarantineIsCleanedUp
CHECK_DEADLOCK FALSE
