CONSTANTS
    Family = {c, d1}
    Child = c
    Others = {u, v}
    Movers = {d1, u, v}
    Runner = Runner
    Init1 = Init1
    Caller = Caller
    Limit = 0
    MaxWritten = 0
    InputSize = 0
    Capacity = 1
    Isolated = TRUE
    FlagAtStart = FALSE
SPECIFICATION Spec
SYMMETRY Interchangeable
INVARIANTS Contained
PROPERTIES UnrelatedSpared
CHECK_DEADLOCK FALSE
