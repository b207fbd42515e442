CONSTANTS
    M = 16
    SIZE_MAX = 63
    MAX_PAYLOAD_SIZE = 1
    MAX_RETX_ATTEMPTS = 3
    LINGER = 10
    WIN_MAX = 15
    Client = Client
    Server = Server
    Openers = {Client}
    Cfg <- MCCfg
    ToSend <- MCToSend
    RecvCapacity = 2
    ClientISN = 14
    ServerISN = 3
    ServerBytes = 1
    TickSizes = {1}
    MaxFaults = 1
SPECIFICATION Spec
INVARIANTS
    NoSpuriousReset
CHECK_DEADLOCK FALSE
