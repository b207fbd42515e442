CONSTANTS
    M = 8
    MaxSeqno = 25
SPECIFICATION SeqnoSpec
INVARIANTS
    RoundTrip
    Closest
