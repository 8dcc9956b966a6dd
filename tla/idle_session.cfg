SPECIFICATION LiveSpec

CONSTANTS
    MaxMail = 3
    MaxDrops = 2
    Quirks = {"piggyback", "coalesce", "untaggedFirst",
              "refused", "longInterval"}

INVARIANTS
    TypeOK
    InStep
    WakesUpWhenPlain

PROPERTIES
    MailSeen
