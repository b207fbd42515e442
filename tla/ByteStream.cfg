CONSTANTS
    Byte = {a, b}
    StreamCapacity = 3
    MaxWritten = 5
    MaxWrite = 4
SPECIFICATION StreamSpec
INVARIANTS
    StreamTypeOK
    InOrder
