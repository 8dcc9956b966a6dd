SPECIFICATION LiveSpec

CONSTANTS
    MaxUid = 2
    MaxValidity = 2
    BatchSize = 1
    BacklogLimit = 0
    SeenHistory = 1
    IncludeExisting = FALSE
    FetchBody = FALSE
    HasErrorHandler = TRUE
    Durable = TRUE
    UnsolicitedFlags = FALSE
    Calls = {"poll", "stop", "close", "abandon", "crash", "reset"}

INVARIANTS
    Accounted
    ClaimInvariant

PROPERTIES
    ImplementsMailStream
    ResetSticks
    NewMailDelivered
