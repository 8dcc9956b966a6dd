SPECIFICATION LiveSpec

CONSTANTS
    MaxMail = 4
    Histories = {1, 2, 3}

INVARIANTS
    NoReplay
    NothingDropped
    OldMailBounded

PROPERTIES
    AllDelivered
