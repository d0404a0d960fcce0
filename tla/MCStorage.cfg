CONSTANTS
    v1 = v1
    v2 = v2
    Branches = {main, t}
    Main = main
    Paths = {p1}
    Values = {v1, v2}
    Absent = Absent
    Unstaged = Unstaged
    MaxCommits = 5
SPECIFICATION Spec
SYMMETRY StorageSymmetry
CHECK_DEADLOCK FALSE
PROPERTIES NoLostUpdate BranchesIsolated
