SPECIFICATION Spec

CONSTANTS
    MaxUid = 4
    MaxValidity = 1
    BatchSize = 2
    BacklogLimit = 2
    SeenHistory = 1
    IncludeExisting = TRUE
    FetchBody = TRUE
    HasErrorHandler = FALSE
    Durable = TRUE
    UnsolicitedFlags = FALSE
    Calls = {"stop", "crash"}

INVARIANTS
    NoDuplicate
