CONSTANTS
    MaxWork = 2
    Instances = {i1, i2}
    None = None
    Ttl = 2
    RenewalInterval = 1
    MaxAuthority = 2
    MaxEpoch = 2
    MaxTick = 3
    Operations = {o1, o2}
    MaxReceipts = 2
    Sessions = {s1}
    Actions = {a1, a2}
    MaxRuntimeOperations = 2
    MaxGeneration = 1
SPECIFICATION HostSpec
SYMMETRY Symmetry
INVARIANTS OneLiveLease
PROPERTIES EffectsAreFenced
CHECK_DEADLOCK FALSE
