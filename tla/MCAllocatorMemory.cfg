CONSTANTS
    Replicas = {r1}
    Fragile = {r1}
    MaxBuckets = 2
    Configs <- MCSingle
    IdLimit = 16
    StoreKind = "memory"
    MaxCreates = 1
    None = None
SPECIFICATION Spec
CHECK_DEADLOCK FALSE
INVARIANT Coherent
