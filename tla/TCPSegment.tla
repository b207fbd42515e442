----------------------------- MODULE TCPSegment -----------------------------
(***************************************************************************)
(* A TCP segment as the state machines see it (tcp_helpers/tcp_segment.hh, *)
(* tcp_helpers/tcp_header.hh): the header fields the connection reads or   *)
(* writes, and the payload.  Ports, data offset, checksum and urgent       *)
(* pointer play no part in the state machines and are left out.            *)
(***************************************************************************)
EXTENDS WrappingIntegers, Sequences

Segment ==
    [syn : BOOLEAN, ack : BOOLEAN, fin : BOOLEAN, rst : BOOLEAN,
     seqno : WrappingInt32, ackno : WrappingInt32, win : Nat, payload : Seq(Nat)]

Bit(b) == IF b THEN 1 ELSE 0

\* A default-constructed segment: all flags clear, ackno and win zero.
EmptySegment(seqno) ==
    [syn |-> FALSE, ack |-> FALSE, fin |-> FALSE, rst |-> FALSE,
     seqno |-> seqno, ackno |-> 0, win |-> 0, payload |-> <<>>]

\* length_in_sequence_space(): SYN and FIN occupy one sequence number each.
LengthInSequenceSpace(seg) == Len(seg.payload) + Bit(seg.syn) + Bit(seg.fin)
=============================================================================
