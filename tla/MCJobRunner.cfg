CONSTANTS
    c = c
    d = d
    Family = {c, d}
    Child = c
    Limit = 1
    MaxWritten = 2
    InputExpected = TRUE
SPECIFICATION MCSpec
INVARIANTS JobContained JobOutput
PROPERTIES JobReturns
CHECK_DEADLOCK FALSE
