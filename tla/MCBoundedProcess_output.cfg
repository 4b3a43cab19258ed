CONSTANTS
    Family = {c, d1}
    Child = c
    Others = {}
    Movers = {}
    Runner = Runner
    Init1 = Init1
    Caller = Caller
    Limit = 1
    MaxWritten = 3
    InputSize = 2
    Capacity = 1
    Isolated = FALSE
    FlagAtStart = TRUE
SPECIFICATION FairSpec
INVARIANTS CompleteOutput
PROPERTIES OutputReturns
CHECK_DEADLOCK FALSE
