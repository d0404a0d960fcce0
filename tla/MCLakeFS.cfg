CONSTANTS
    b = b
    v = v
    w = w
    Clients = {c1, c2}
    Branches = {main, b}
    Main = main
    Paths <- MCPaths
    Values <- MCValues
    Absent = Absent
    Unstaged = Unstaged
    NoAnswer = NoAnswer
    Artifacts = {1, 2, 3, 4}
    IndexPath = 2
    Scenarios <- MCScenarios
SPECIFICATION Spec
CHECK_DEADLOCK FALSE
INVARIANTS AnswersAsPromised AnswersTell ReportIsUsable ListsWhatIsThere
PROPERTY RowsOnlyRemoved
