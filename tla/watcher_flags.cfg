SPECIFICATION Spec

CONSTANTS
    MaxUid = 3
    MaxValidity = 1
    BatchSize = 2
    BacklogLimit = 2
    SeenHistory = 1
    IncludeExisting = FALSE
    FetchBody = FALSE
    HasErrorHandler = TRUE
    Durable = TRUE
    UnsolicitedFlags = TRUE
    Calls = {}

INVARIANTS
    NoDuplicate
