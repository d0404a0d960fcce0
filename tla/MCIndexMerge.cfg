CONSTANTS
    Artifacts = {a1, a2}
    OrderValues = {1, 2}
    Missing = Missing
    max_attempts = 3
SPECIFICATION Spec
CHECK_DEADLOCK FALSE
INVARIANTS MergeIsStable KeepsBothSides MergedHasOwnRows
