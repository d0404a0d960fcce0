CONSTANTS
    i1 = i1
    i2 = i2
    h1 = h1
    h2 = h2
    Instances <- MCOneInstance
    Threads <- MCThreads
    Home <- MCSameHome
    Txns = {t1}
    Main = main
    Payloads = {a1, a2, a3}
    Indexes = {x}
    Resolvable = {x}
    Absent = Absent
    Unstaged = Unstaged
    None = None
    SnapshotSources = {}
    Implicit = {h2}
    Crashing = {}
    MaxCommits = 12
    max_attempts = 2
SPECIFICATION Spec
CHECK_DEADLOCK FALSE
INVARIANTS StaysUsable MergesAllWrites KeepsRows
SYMMETRY PayloadSymmetry
