SPECIFICATION MCSpec
CONSTANTS
    Requests = {r1, r2}
    Universe <- AllRequests
    Keys = {k1, k2}
    InitialKey = k1
    MaxRotations = 1
    MaxMessageBytes <- BigMessage
INVARIANTS AuthenticArtifact FramesWhatWasSubmitted LimitsAreExact
PROPERTIES WaitingEnds Contract
CHECK_DEADLOCK FALSE
