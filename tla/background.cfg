SPECIFICATION LiveSpec

CONSTANT
    MaxStarts = 3

INVARIANTS
    SingleLoop
    Released

PROPERTIES
    StopReturns
    StoppedLoopsEnd
