CONSTANTS
    Releases = {"stable", "rc", "patch"}
    K = 2
    LineOf <- PatchOnSupport
    Position <- Commits
    Rank <- Versions
    Stable = {"stable", "patch"}
    NoRelease = NoRelease
    NoLatest = NoLatest
    MaxTip = 2
    MaxFailures = 2
    MaxMeddles = 3
    Contested = {"stable"}
SPECIFICATION Spec
INVARIANTS ForgeFollowsCrates FinalizedIsWhole LatestIsNewest
CHECK_DEADLOCK FALSE
