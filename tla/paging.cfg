SPECIFICATION LiveSpec

CONSTANTS
    Unlimited = None
    InitialMail = 4
    MaxMail = 6
    PageSize = 2
    Limits = {0, 3, None}

INVARIANTS
    TypeOK
    WalkBounded

PROPERTIES
    Ends

CHECK_DEADLOCK FALSE
