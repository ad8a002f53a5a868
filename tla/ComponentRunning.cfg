CONSTANTS
    Launches = {n1, n2, n3}
    None = None
    HasCatalog = FALSE
SPECIFICATION LifecycleSpec
INVARIANTS RunningHasProcess
