SPECIFICATION LiveSpec

CONSTANTS
    w1 = w1
    w2 = w2
    w3 = w3
    Watchers = {w1, w2, w3}
    MaxSaves = 2

INVARIANTS
    FileKeepsAll

PROPERTIES
    SavesReturn
