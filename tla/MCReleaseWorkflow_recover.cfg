CONSTANTS
    Releases = {"old", "new"}
    K = 2
    LineOf <- OnMain
    Position <- OldNew
    Rank <- OldNew
    Stable = {"old", "new"}
    NoRelease = NoRelease
    NoLatest = NoLatest
    MaxTip = 2
    MaxFailures = 2
    MaxMeddles = 0
    Contested = {}
SPECIFICATION FairSpec
INVARIANTS AtMostOneLate
PROPERTIES ImplementsLedger Recoverable
CHECK_DEADLOCK FALSE
