SPECIFICATION LiveSpec

CONSTANTS
    Retries = 1
    MaxFiles = 2
    MaxLogins = 2

INVARIANTS
    SentOnce
    OutcomeKnown
    FilesClosed
    ClosedMeansClosed
    NoSessionLeft

PROPERTIES
    Settles
