CONSTANTS
    SIZE_MAX = 15
    Capacity = 5
    StringLen = 8
    MaxSubstring = 4
SPECIFICATION FairReassemblerSpec
INVARIANTS
    OutputInOrder
    StoredApart
    WithinCapacity
    EndsAtTheEnd
PROPERTIES
    ImplementsInOrderStream
    AllDelivered
