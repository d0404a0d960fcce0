CONSTANTS
    T = T
    cas = cas
    res = res
    nul = nul
    sub = sub
    i1 = i1
    i2 = i2
    c1 = c1
    c2 = c2
    body = body
    Ids = {1, 2, 3}
    Types = {T}
    Fields <- MCFields
    From <- MCOne
    To <- MCOne
    OnDelete <- MCOnDelete
    Repeated = {cas}
    Nested = {sub}
    DefIds <- MCDefIds
    Bodies = {body}
    NoBody = NoBody
    Absent = Absent
    Instances = {i1, i2}
    Clients = {c1, c2}
    Home <- MCHome
    Main = main
    Unstaged = Unstaged
    BuiltIn = {res}
    Deny <- MCDeny
    Inputs <- MCInputs
    Scenarios <- MCScenarios
    Restarting = {i1}
    Queried = {cas}
    max_attempts = 2
SPECIFICATION Spec
CHECK_DEADLOCK FALSE
INVARIANTS ReferencesHold IndexCovers CascadesToAllDependents
PROPERTIES StaysDeleted OverwritesWhatItForked
