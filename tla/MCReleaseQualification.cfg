CONSTANTS
    None = None
    Malformed = Malformed
    p = p
    q = q
    Paths = {p, q}
    Blobs = {1, 2}
    Packages = {1, 2}
    Evidence <- MCEvidence
    PageSize = 6
    MaxEntries = 3
    MaxCommits = 6
    MaxAttempts = 2
SPECIFICATION MCSpec
INVARIANTS FreshIsRecoverable NothingUnseen OriginalRunSettled
PROPERTIES FreshCarriesPolicy
CHECK_DEADLOCK FALSE
