SPECIFICATION MCSpec
CONSTANTS
    Sources = {s}
    Decisions = {d}
    Texts = {1, 2}
    Passages = {q}
    Says <- MCSays
    Near <- MCNear
    Names <- Unrelated
    Linked <- Unrelated
    Checks = {c}
    Requests = {}
    MaxEvidence = 1
    MaxTries = 1
    EmbeddingsOn = TRUE
    MaxSimilar = 1
    MaxPerSource = 1
    ScanLimit = 1
    SlowRuns = FALSE
    MaxCrashes = 0
    None = none
INVARIANTS
    CappedIsPickedUp
CHECK_DEADLOCK FALSE
