CONSTANTS
    M = 16
    MAX_PAYLOAD_SIZE = 2
    ISN = 14
    CAPACITY = 3
    RT_TIMEOUT = 2
    MaxBytes = 4
    MaxWindow = 3
    MaxTimeout = 4
    MaxRetx = 2
SPECIFICATION Spec
INVARIANTS
    TypeOK
    FlightAccounting
    UnackedIsKept
    TimerArmed
    RetransmitsTheStream
    FinEndsTheStream
PROPERTIES
    SendsWithinWindow
