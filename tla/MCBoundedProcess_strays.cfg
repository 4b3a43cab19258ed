CONSTANTS
    Family = {c, d1}
    Child = c
    Others = {}
    Movers = {c, d1}
    Runner = Runner
    Init1 = Init1
    Caller = Caller
    Limit = 0
    MaxWritten = 0
    InputSize = 0
    Capacity = 1
    Isolated = FALSE
    FlagAtStart = FALSE
SPECIFICATION Spec
INVARIANTS ContainsDescendants
CHECK_DEADLOCK FALSE
