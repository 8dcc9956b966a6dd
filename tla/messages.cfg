SPECIFICATION Conversion

CONSTANTS
    Asked = {1, 2}
    Others = {3}
    MaxParts = 3

INVARIANTS
    OutputOK
    RowsMatch
    ReceivedTimes
    BodyShown

CHECK_DEADLOCK FALSE
