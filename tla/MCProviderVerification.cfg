SPECIFICATION MCSpec
CONSTANTS
    c1 = c1
    c2 = c2
    c3 = c3
    Inadmissible <- BadKeys
    Calls = {c1, c2, c3}
    Universe <- Requested
    AppKeys <- AllKeys
    Faults <- AllFaults
    Reporting = {TRUE, FALSE}
    Qualifies = {TRUE, FALSE}
    MaxHandles = 7
    MaxBinds = 2
    MaxOutages = 1
INVARIANTS QualificationIsRight QualifiedActsNative
PROPERTIES QualificationEnds Contract
CHECK_DEADLOCK FALSE
