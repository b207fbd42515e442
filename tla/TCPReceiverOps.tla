--------------------------- MODULE TCPReceiverOps ---------------------------
(***************************************************************************)
(* The operations of TCPReceiver (libsponge/tcp_receiver.{hh,cc}) as       *)
(* functions of its state.  _checkpoint is never used and is left out.     *)
(***************************************************************************)
EXTENDS TCPSegment, StreamReassemblerOps

TCPReceiverState ==
    [reassembler : ReassemblerState, capacity : Nat, isn : WrappingInt32,
     syn : BOOLEAN, fin : BOOLEAN]

NewTCPReceiver(capacity) ==
    [reassembler |-> NewReassembler(capacity), capacity |-> capacity,
     isn |-> 0, syn |-> FALSE, fin |-> FALSE]

StreamOut(v) == v.reassembler.output

\* Lines 15-18: before the SYN only a SYN counts, after it no other SYN does.
Ignores(v, seg) == seg.syn = v.syn

\* Mutant: the SYN's sequence number is not subtracted.
StreamIndex_CountsSyn(v, seg) ==
    IF seg.syn THEN 0 ELSE Unwrap(seg.seqno, v.isn, v.reassembler.unassembledBytes)

\* Lines 25-26: the stream index of the payload.  The checkpoint is the number of
\* unassembled bytes, not an absolute sequence number.
StreamIndex(v, seg) ==
    IF seg.syn THEN 0
    ELSE Minus(Unwrap(seg.seqno, v.isn, v.reassembler.unassembledBytes), 1)

ReceiverSegmentReceived(v, seg) ==
    LET u == [v EXCEPT !.syn = TRUE,
                       !.isn = IF seg.syn THEN seg.seqno ELSE @,
                       !.fin = @ \/ seg.fin]
    IN  IF Ignores(v, seg) THEN v
        ELSE [u EXCEPT !.reassembler =
                 PushSubstring(@, seg.payload, StreamIndex(u, seg), seg.fin)]

\* ackno() has a value once the SYN has arrived.
HasAckno(v) == v.syn

\* Mutant: the FIN is acknowledged when it arrives, not when the stream ends.
Ackno_FinArrived(v) == Wrap(StreamOut(v).totin + 1 + Bit(v.fin), v.isn)

Ackno(v) == Wrap(StreamOut(v).totin + 1 + Bit(StreamOut(v).isInputEnd), v.isn)

\* Mutant: bytes stored out of order count.
WindowSize_CountsStored(v) ==
    v.capacity - BufferSize(StreamOut(v)) - v.reassembler.unassembledBytes

WindowSize(v) == v.capacity - BufferSize(StreamOut(v))
=============================================================================
