CONSTANTS
    i1 = i1
    i2 = i2
    h1 = h1
    h2 = h2
    Instances <- MCTwoInstances
    Threads <- MCThreads
    Home <- MCApart
    Txns = {t1, t2}
    Main = main
    Payloads = {a1}
    Indexes = {}
    Resolvable = {}
    Absent = Absent
    Unstaged = Unstaged
    None = None
    SnapshotSources = {}
    Implicit = {}
    Crashing <- MCTwoInstances
    MaxCommits = 6
    max_attempts = 2
SPECIFICATION Spec
CHECK_DEADLOCK FALSE
INVARIANTS KeepsEarlierWrites ReadYourWrites
SYMMETRY ApartSymmetry
