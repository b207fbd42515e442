CONSTANTS
    M = 8
    SIZE_MAX = 63
    ISN = 6
    CAPACITY = 3
    StreamLen = 6
    MaxPayload = 3
SPECIFICATION Spec
INVARIANTS
    AcksOnlyWhatArrived
PROPERTIES
    WindowNeverRetracts
    KeepsWhatItAdvertised
