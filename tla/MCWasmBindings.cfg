SPECIFICATION Spec
CONSTANTS
    Buffers = {"page", "shm", "heap", "keys", "out"}
    Shared = {"shm"}
    Module = {"heap"}
    Fresh = "out"
    Octets <- Written
    Contents <- Held
    Calls <- ScriptCalls
    Maxima = {0, 3}
    Tracking = Tracking
    NotBytes = NotBytes
    Unlimited = Unlimited
    SigningKeyLength = 1
    VerifyingKeyLength <- KeyLengths
    MaxUsize = 7
    SchemaCheck = TRUE
    Core <- RustOperation
    Projected <- ProjectedSize
    Parses <- KeyParses
    SchemaRejects <- NeverRejects
    Attested <- AttestedBy
    Signed <- PayloadSigned
    Belongs <- PairBelongs
    MaxLength = 4
    MaxCalls = 2
    MaxChanges = 1
INVARIANTS VerifiedIsSigned OnlyAdmittedOctets NothingHeld
PROPERTIES RefusalsConclusive
CHECK_DEADLOCK FALSE
