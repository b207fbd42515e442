CONSTANTS
    M = 8
    SIZE_MAX = 63
    ISN = 6
    CAPACITY = 3
    StreamLen = 10
    MaxPayload = 3
SPECIFICATION WindowSpec
PROPERTIES
    KeepsWhatItAdvertised
