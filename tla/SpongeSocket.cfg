CONSTANTS
    M = 16
    SIZE_MAX = 63
    MAX_PAYLOAD_SIZE = 1
    MAX_RETX_ATTEMPTS = 1
    LINGER = 2
    WIN_MAX = 15
    Cfg <- MCCfg
    PeerCfg <- MCPeerCfg
    PAIR_CAPACITY = 2
    Plans <- MCPlans
SPECIFICATION FairSpec
INVARIANTS
    NeverThrows
    OpenedMeansOpen
    OwnerReadsInbound
    PeerReceivesOutbound
    EndsClosedOrReset
PROPERTIES
    Returns
    OutboundArrives
CHECK_DEADLOCK FALSE
