SPECIFICATION ConsolidationSpec
CONSTANTS
    n1 = n1
    n2 = n2
    q1 = q1
    p1 = p1
    Facts = {n1, n2}
    Recalls = {q1}
    Passes = {p1}
    MaxFilings = 1
    MaxEditions = 3
    MaxCalls = 2
PROPERTIES
    FoldsLoseNoEdit
CHECK_DEADLOCK FALSE
