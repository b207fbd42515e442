----------------------------- MODULE TCPReceiver -----------------------------
(***************************************************************************)
(* A TCPReceiver fed with the segments of one peer, in any order, lost,    *)
(* repeated and cut in any way.  The peer's stream has StreamLen bytes:    *)
(* absolute sequence number 0 is its SYN, 1 to StreamLen its bytes and     *)
(* StreamLen + 1 its FIN.  The byte at stream index i is i.                *)
(***************************************************************************)
EXTENDS TCPReceiverOps

CONSTANTS ISN,          \* the peer's initial sequence number
          CAPACITY,     \* the receiver's capacity
          StreamLen,    \* bound: length of the peer's stream
          MaxPayload    \* bound: payload of one segment

ASSUME ReceiverAssumption ==
    /\ ISN \in WrappingInt32
    /\ CAPACITY \in Nat /\ StreamLen \in Nat /\ MaxPayload \in Nat
    /\ StreamLen < SIZE_MAX /\ CAPACITY < SIZE_MAX

VARIABLES rcv,       \* the TCPReceiver
          arrived    \* absolute sequence numbers of all segments handed to it

vars == <<rcv, arrived>>

Init == rcv = NewTCPReceiver(CAPACITY) /\ arrived = {}

\* The peer's segment at absolute sequence number a, with len payload bytes.
PeerSegment(a, len, syn, fin) ==
    [EmptySegment(Wrap(a, ISN)) EXCEPT
        !.syn = syn, !.fin = fin,
        !.payload = [i \in 1 .. len |-> a + Bit(syn) + i - 2]]

Last(a, len, syn, fin) == a + len + Bit(syn) + Bit(fin) - 1

Arrive(a, len, syn, fin) ==
    /\ rcv' = ReceiverSegmentReceived(rcv, PeerSegment(a, len, syn, fin))
    /\ arrived' = arrived \cup a .. Last(a, len, syn, fin)

Read(n) == /\ n <= BufferSize(StreamOut(rcv))
           /\ rcv' = [rcv EXCEPT !.reassembler.output = StreamRead(@, n)]
           /\ UNCHANGED arrived

\* What the peer may send: a SYN at 0 only, FIN only after the last byte, and
\* segments with no payload anywhere, which carry its acknowledgments.
Legal(a, len, syn, fin) ==
    /\ syn => a = 0
    /\ a = 0 /\ ~syn => len = 0 /\ ~fin
    /\ len > 0 => a + Bit(syn) + len <= StreamLen + 1
    /\ fin => a + Bit(syn) + len = StreamLen + 1

SegmentParams == (0 .. StreamLen + 2) \X (0 .. MaxPayload) \X BOOLEAN \X BOOLEAN

Next == \/ \E p \in SegmentParams :
              /\ Legal(p[1], p[2], p[3], p[4])
              /\ Arrive(p[1], p[2], p[3], p[4])
        \/ \E n \in 1 .. CAPACITY : Read(n)

Spec == Init /\ [][Next]_vars

\* The absolute sequence number that ackno() stands for.
AbsoluteAckno == StreamOut(rcv).totin + 1 + Bit(StreamOut(rcv).isInputEnd)

RightEdge == AbsoluteAckno + WindowSize(rcv)

\* A peer that sends the SYN alone, then only what the window allows or one byte
\* to probe a closed one, through a network that delays a segment by less than
\* half the sequence space.
InTurn(a, len, syn, fin) ==
    IF rcv.syn THEN /\ Last(a, len, syn, fin) < Greater(RightEdge, AbsoluteAckno + 1)
                    /\ AbsoluteAckno - a < M \div 2
               ELSE syn /\ len = 0

WindowNext == \/ \E p \in SegmentParams :
                    /\ Legal(p[1], p[2], p[3], p[4])
                    /\ InTurn(p[1], p[2], p[3], p[4])
                    /\ Arrive(p[1], p[2], p[3], p[4])
              \/ \E n \in 1 .. CAPACITY : Read(n)

WindowSpec == Init /\ [][WindowNext]_vars
-----------------------------------------------------------------------------
\* The absolute sequence numbers of the bytes stored out of order.
StoredSeqnos ==
    UNION {LET p == rcv.reassembler.unassembledBuffer[i]
           IN  p.first + 1 .. p.first + Len(p.second) :
               i \in 1 .. Len(rcv.reassembler.unassembledBuffer)}

\* The receiver acknowledges only what has arrived: every sequence number below
\* ackno() was in some segment handed to it, the SYN and the FIN included, and
\* the bytes it delivers are the peer's, in order.
AcksOnlyWhatArrived ==
    HasAckno(rcv) =>
        /\ 0 .. AbsoluteAckno - 1 \subseteq arrived
        /\ Ackno(rcv) = Wrap(AbsoluteAckno, ISN)
        /\ \A i \in 1 .. BufferSize(StreamOut(rcv)) :
               StreamOut(rcv).buff[i] = StreamOut(rcv).totout + i - 1

\* The window never moves back: neither ackno() nor the right edge of the
\* window that was advertised ever decreases, so a byte that the peer was
\* allowed to send stays acceptable.
WindowNeverRetracts ==
    [][HasAckno(rcv) => /\ AbsoluteAckno' >= AbsoluteAckno
                        /\ RightEdge' >= RightEdge]_vars

\* Every byte of a segment that lies in the advertised window is kept: it is
\* delivered, or stored until the gap before it is filled ("reassembles segments
\* into a ByteStream", tcp_receiver.hh:13).
KeepsWhatItAdvertised ==
    [][\A p \in SegmentParams :
         Legal(p[1], p[2], p[3], p[4]) /\ Arrive(p[1], p[2], p[3], p[4]) /\ rcv.syn /\ ~p[3]
           => \A x \in p[1] .. p[1] + p[2] - 1 :
                AbsoluteAckno <= x /\ x < RightEdge
                    => x < AbsoluteAckno' \/ x \in StoredSeqnos']_vars
=============================================================================
