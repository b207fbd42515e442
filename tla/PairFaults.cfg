CONSTANTS
    M = 16
    SIZE_MAX = 63
    MAX_PAYLOAD_SIZE = 1
    MAX_RETX_ATTEMPTS = 1
    LINGER = 10
    WIN_MAX = 15
    Client = Client
    Server = Server
    Openers = {Client}
    Cfg <- MCCfg
    ToSend <- MCToSend
    RecvCapacity = 2
    ClientISN = 14
    ServerISN = 3
    ServerBytes = 0
    TickSizes = {1}
    MaxFaults = 2
SPECIFICATION Spec
INVARIANTS
    StreamsArriveIntact
    AcknowledgedIsReceived
    CleanEndIsComplete
CHECK_DEADLOCK FALSE
