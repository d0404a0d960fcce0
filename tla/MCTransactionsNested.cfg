CONSTANTS
    i1 = i1
    i2 = i2
    h1 = h1
    h2 = h2
    Instances <- MCOneInstance
    Threads <- MCThreads
    Home <- MCSameHome
    Txns = {t1, t2}
    Main = main
    Payloads = {a1}
    Indexes = {}
    Resolvable = {}
    Absent = Absent
    Unstaged = Unstaged
    None = None
    SnapshotSources = {main}
    Implicit = {}
    Crashing = {}
    MaxCommits = 9
    max_attempts = 2
SPECIFICATION Spec
CHECK_DEADLOCK FALSE
SYMMETRY BothSymmetry
INVARIANTS NoOrphans NoDirtyMain MergedOnce
