---------------------------- MODULE TCPSenderOps ----------------------------
(***************************************************************************)
(* The operations of TCPSender (libsponge/tcp_sender.{hh,cc}) as functions *)
(* of its state, a record with one field per data member.  The std::map of *)
(* outstanding segments is a sequence of key/segment pairs in key order.   *)
(***************************************************************************)
EXTENDS TCPSegment, ByteStreamOps

CONSTANT MAX_PAYLOAD_SIZE    \* TCPConfig::MAX_PAYLOAD_SIZE, 1000 in the code

ASSUME PayloadAssumption == MAX_PAYLOAD_SIZE \in Nat /\ MAX_PAYLOAD_SIZE > 0

TCPSenderState ==
    [isn : WrappingInt32, segments_out : Seq(Segment),
     initial_timeout : Nat \ {0}, stream : ByteStreamState(Nat),
     next_seqno : Nat, timeout : Nat, timecount : Nat, consecutive : Nat,
     outgoing : Seq([key : Nat, seg : Segment]), outgoing_bytes : Nat,
     syn : BOOLEAN, fin : BOOLEAN, win_size : Nat]

NewTCPSender(capacity, retx_timeout, isn) ==
    [isn |-> isn, segments_out |-> <<>>, initial_timeout |-> retx_timeout,
     stream |-> NewByteStream(capacity), next_seqno |-> 0,
     timeout |-> 0, timecount |-> 0, consecutive |-> 0,
     outgoing |-> <<>>, outgoing_bytes |-> 0,
     syn |-> FALSE, fin |-> FALSE, win_size |-> 1]

NextSeqno(s) == Wrap(s.next_seqno, s.isn)

\* A zero window is treated as a window of one, to probe the receiver.
FillTarget(s) == IF s.win_size # 0 THEN s.win_size ELSE 1

\* The payload read for the next segment when the window is win.
NextPayload(s, win) ==
    PeekOutput(s.stream,
               Lesser(MAX_PAYLOAD_SIZE, win - s.outgoing_bytes - Bit(~s.syn)))

\* Mutants: FIN before the end of the stream; FIN without room for it; FIN only
\* with room to spare.
NextFin_Early(s, win) ==
    ~s.fin /\ Len(NextPayload(s, win)) + s.outgoing_bytes < win

NextFin_NoRoom(s, win) ==
    ~s.fin /\ StreamEof(StreamRead(s.stream, Len(NextPayload(s, win))))

NextFin_SpareRoom(s, win) ==
    /\ ~s.fin
    /\ StreamEof(StreamRead(s.stream, Len(NextPayload(s, win))))
    /\ Len(NextPayload(s, win)) + s.outgoing_bytes + 1 < win

\* Whether the next segment carries FIN: the stream is at its end once the
\* payload is read, and the FIN fits.  A SYN in the segment is not counted.
NextFin(s, win) ==
    LET payload == NextPayload(s, win)
    IN  /\ ~s.fin
        /\ StreamEof(StreamRead(s.stream, Len(payload)))
        /\ Len(payload) + s.outgoing_bytes < win

\* Mutant: the sequence number is left at zero.
NextSegment_NoSeqno(s, win) ==
    [EmptySegment(0) EXCEPT
        !.syn = ~s.syn, !.fin = NextFin(s, win), !.payload = NextPayload(s, win)]

\* The segment that one iteration of the loop in fill_window() builds.
NextSegment(s, win) ==
    [EmptySegment(NextSeqno(s)) EXCEPT
        !.syn = ~s.syn, !.fin = NextFin(s, win), !.payload = NextPayload(s, win)]

\* Mutant: an idle timer is not restarted.
RestartIfIdle_Never(s) == s

RestartIfIdle(s) ==
    IF s.outgoing = <<>>
    THEN [s EXCEPT !.timeout = s.initial_timeout, !.timecount = 0]
    ELSE s

\* The end of an iteration: restart an idle timer, queue the segment and keep it
\* for retransmission.
SendNew(s, seg) ==
    [RestartIfIdle(s) EXCEPT
        !.syn = TRUE,
        !.fin = @ \/ seg.fin,
        !.stream = StreamRead(@, Len(seg.payload)),
        !.segments_out = Append(@, seg),
        !.outgoing = Append(@, [key |-> s.next_seqno, seg |-> seg]),
        !.outgoing_bytes = @ + LengthInSequenceSpace(seg),
        !.next_seqno = @ + LengthInSequenceSpace(seg)]

\* One iteration of the loop: nothing changes when the window is full or the
\* segment would be empty.  After a FIN the next segment is always empty, so
\* the loop's break on FIN needs no flag.
FillOnce(s) ==
    LET win == FillTarget(s)
        seg == NextSegment(s, win)
    IN  IF win > s.outgoing_bytes /\ LengthInSequenceSpace(seg) > 0
        THEN SendNew(s, seg)
        ELSE s

\* fill_window(): each iteration that sends takes at least one sequence number
\* of the window, so FillTarget(s) iterations exhaust it.
FillWindow(s) ==
    LET loop[k \in 0 .. FillTarget(s)] ==
            IF k = 0 THEN s ELSE FillOnce(loop[k - 1])
    IN  loop[FillTarget(s)]

\* Mutant: a segment acknowledged in part counts as acknowledged.
OldestAcked_InPart(s, ackno) == s.outgoing # <<>> /\ s.outgoing[1].key < ackno

\* All of the oldest outstanding segment is acknowledged.
OldestAcked(s, ackno) ==
    /\ s.outgoing # <<>>
    /\ s.outgoing[1].key + LengthInSequenceSpace(s.outgoing[1].seg) <= ackno

\* Mutant: the segment is still counted in flight.
EraseOldest_KeepsBytes(s) ==
    [s EXCEPT !.outgoing = Tail(@), !.timeout = s.initial_timeout, !.timecount = 0]

\* Forget the oldest outstanding segment and restart the timer.
EraseOldest(s) ==
    [s EXCEPT !.outgoing_bytes = @ - LengthInSequenceSpace(s.outgoing[1].seg),
              !.outgoing = Tail(@),
              !.timeout = s.initial_timeout, !.timecount = 0]

\* One iteration of the loop in ack_received().
EraseOnce(s, ackno) == IF OldestAcked(s, ackno) THEN EraseOldest(s) ELSE s

EraseAcked(s, ackno) ==
    LET loop[k \in 0 .. Len(s.outgoing)] ==
            IF k = 0 THEN s ELSE EraseOnce(loop[k - 1], ackno)
    IN  loop[Len(s.outgoing)]

\* Mutant: an ackno beyond what was sent is accepted.
AckReceived_Unsent(s, ackno, window) ==
    FillWindow([EraseAcked(s, Unwrap(ackno, s.isn, s.next_seqno)) EXCEPT
                   !.win_size = window, !.consecutive = 0])

\* ack_received() for a wire ackno and an advertised window.
AckReceived(s, ackno, window) ==
    LET absolute == Unwrap(ackno, s.isn, s.next_seqno)
    IN  IF absolute > s.next_seqno
        THEN s
        ELSE FillWindow([EraseAcked(s, absolute) EXCEPT
                            !.win_size = window, !.consecutive = 0])

\* tick(): when the timer expires with segments outstanding, send the oldest
\* again and back off, unless the window is zero.
SenderTick(s, ms) ==
    LET count == s.timecount + ms
    IN  IF count >= s.timeout /\ s.outgoing # <<>>
        THEN [s EXCEPT
                !.timeout = IF s.win_size > 0 THEN 2 * @ ELSE @,
                !.segments_out = Append(@, s.outgoing[1].seg),
                !.consecutive = @ + 1,
                !.timecount = 0]
        ELSE [s EXCEPT !.timecount = count]

SendEmptySegment(s) ==
    [s EXCEPT !.segments_out = Append(@, EmptySegment(NextSeqno(s)))]
-----------------------------------------------------------------------------
(***************************************************************************)
(* What the owner of a sender relies on.                                   *)
(***************************************************************************)
EndOf(e) == e.key + LengthInSequenceSpace(e.seg)

\* The outstanding segments lie end to end in sequence space, none is empty, the
\* last one ends at next_seqno, and outgoing_bytes is the distance from the
\* first one to next_seqno.
ContiguousFlight(s) ==
    /\ \A i \in 1 .. Len(s.outgoing) :
        /\ EndOf(s.outgoing[i]) > s.outgoing[i].key
        /\ EndOf(s.outgoing[i]) = IF i = Len(s.outgoing)
                                  THEN s.next_seqno
                                  ELSE s.outgoing[i + 1].key
    /\ s.outgoing_bytes = IF s.outgoing = <<>> THEN 0
                          ELSE s.next_seqno - s.outgoing[1].key

\* The oldest outstanding segment starts at or before ackno a and ends after it,
\* and when everything sent is acknowledged nothing is outstanding.
Kept(s, a) ==
    IF s.outgoing = <<>>
    THEN a = s.next_seqno
    ELSE s.outgoing[1].key <= a /\ a < EndOf(s.outgoing[1])

\* While a segment is outstanding the timer is running and has not expired.
Armed(s) == s.outgoing # <<>> => /\ s.timecount < s.timeout
                                 /\ s.timeout >= s.initial_timeout

\* Every outstanding segment carries the wire sequence number and the bytes of
\* the stream that belong at its key; the byte at index i is i.
CarriesStream(s) ==
    \A i \in 1 .. Len(s.outgoing) :
        LET e == s.outgoing[i]
        IN  /\ e.seg.seqno = Wrap(e.key, s.isn)
            /\ e.seg.syn <=> e.key = 0
            /\ \A j \in 1 .. Len(e.seg.payload) :
                   e.seg.payload[j] = e.key + Bit(e.seg.syn) + j - 2

\* When FIN has been sent the whole stream has been, no byte is left to read and
\* no later segment exists.
FinIsLast(s) ==
    /\ s.fin => StreamEof(s.stream) /\ s.next_seqno = s.stream.totin + 2
    /\ \A i \in 1 .. Len(s.outgoing) :
           s.outgoing[i].seg.fin => s.fin /\ i = Len(s.outgoing)
=============================================================================
