CONSTANTS
    A = A
    B = B
    M = M
    N = N
    meta1 = meta1
    meta2 = meta2
    key1 = key1
    field1 = field1
    d1 = d1
    d2 = d2
    i1 = i1
    i2 = i2
    c1 = c1
    c2 = c2
    t1 = t1
    create = create
    Instances = {i1, i2}
    Clients = {c1, c2}
    Home <- MCHome
    Txns = {t1}
    Types = {A, B}
    MetaTypes = {meta1, meta2}
    Keys = {key1}
    Fields = {field1}
    Definitions = {d1, d2}
    Flags = {create}
    Block <- MCBlock
    MetaIds <- MCMetaIds
    MaxNew = 4
    Sources <- MCSources
    Scenarios <- MCScenarios
    NoName = NoName
    Main = main
    Absent = Absent
    Unstaged = Unstaged
    None = None
    max_attempts = 2
SPECIFICATION Spec
CHECK_DEADLOCK FALSE
INVARIANTS NamesAreUnique VersionsAreOneList LaterVersionsRead DeclaredIsDefined CacheAgrees UpIsComplete
PROPERTIES OnlyTightened GetsUp
