CONSTANTS
    Controllers = {c1, c2}
    MaxProbes = 2
    MaxKills = 2
SPECIFICATION EndpointSpec
INVARIANT IncumbentIsKept
CHECK_DEADLOCK FALSE
