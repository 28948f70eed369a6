SPECIFICATION SqliteSpec
CONSTANTS
    Handler = {h1, h2}
    Reviewer = {v}
    Attempt = {"r1", "r2"}
    Message = {"m1", "m2"}
    Payload <- TwoNodes
    Key = {"fingerprint"}
    Skews <- NoSkew
    Window = 1
    NonceInOneLock = TRUE
    MaxFaults = 1
    MaxTime = 0
SYMMETRY HandlerSymmetry
INVARIANTS
    MergedSupported
    StoredWhole
    AuditedReviewsStored
PROPERTIES
    ShrinksOnlyByOverlap
CHECK_DEADLOCK FALSE
