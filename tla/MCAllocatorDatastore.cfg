CONSTANTS
    Replicas = {r1, r2}
    Fragile = {r1, r2}
    MaxBuckets = 2
    Configs <- MCOneLayout
    IdLimit = 8
    StoreKind = "datastore"
    MaxCreates = 2
    None = None
SPECIFICATION Spec
CHECK_DEADLOCK FALSE
SYMMETRY ReplicaSymmetry
INVARIANTS NoSharedIds Conservation IdsFit
PROPERTY NoReissue
