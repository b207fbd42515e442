CONSTANTS
    BUFFER_SIZE = 3
    MAX_COPY_LENGTH = 2
    KERNEL_BUFFER = 2
    InputBytes = 3
    RemoteBytes = 1
    MaxSignals = 1
    Programs = {"tcp_ipv4", "tcp_udp", "tcp_native"}
    Words = {"-l", "-w", "-a", "-h", "-Luxe", "0", "x"}
    MaxArgs = 5
SPECIFICATION AppSpec
INVARIANTS
    ThrowsOnlyIfLost
    CopiesAll
    
    WaitsAtTheEnd
PROPERTIES
    EndsWhenInputsEnd
CHECK_DEADLOCK FALSE
