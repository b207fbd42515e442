-------------------------- MODULE TCPConnectionOps --------------------------
(***************************************************************************)
(* The operations of TCPConnection (libsponge/tcp_connection.{hh,cc}) as   *)
(* functions of its state.  The state of the sender and the receiver are   *)
(* the records of TCPSenderOps and TCPReceiverOps.                         *)
(***************************************************************************)
EXTENDS TCPSenderOps, TCPReceiverOps

CONSTANTS MAX_RETX_ATTEMPTS,   \* TCPConfig::MAX_RETX_ATTEMPTS, 8 in the code
          LINGER,              \* timeouts to linger, 10 in the code
          WIN_MAX              \* largest window in a header, 65535

ASSUME ConnectionAssumption ==
    MAX_RETX_ATTEMPTS \in Nat /\ LINGER \in Nat /\ WIN_MAX \in Nat

TCPConnectionState ==
    [sender : TCPSenderState, receiver : TCPReceiverState, segments_out : Seq(Segment),
     active : BOOLEAN, linger_after_streams_finish : BOOLEAN, time_since_last : Nat]

NewTCPConnection(cfg) ==
    [sender |-> NewTCPSender(cfg.send_capacity, cfg.rt_timeout, cfg.isn),
     receiver |-> NewTCPReceiver(cfg.recv_capacity),
     segments_out |-> <<>>, active |-> TRUE,
     linger_after_streams_finish |-> TRUE, time_since_last |-> 0]

Inbound(c) == StreamOut(c.receiver)
Outbound(c) == c.sender.stream

\* The header fields send_segments() adds; the window is cut to the field.
Stamp(c, seg) ==
    IF HasAckno(c.receiver)
    THEN [seg EXCEPT !.ack = TRUE, !.ackno = Ackno(c.receiver),
                     !.win = WindowSize(c.receiver) % (WIN_MAX + 1)]
    ELSE seg

\* Mutant: done although our FIN is not acknowledged.
Finished_UnackedFin(c) ==
    /\ Inbound(c).isInputEnd
    /\ StreamEof(Outbound(c))
    /\ \/ ~c.linger_after_streams_finish
       \/ c.time_since_last >= LINGER * c.sender.initial_timeout

\* Lines 189-195: the connection is done when the peer's stream has ended, ours
\* has been sent and acknowledged, and there is no need to linger or it is over.
Finished(c) ==
    /\ Inbound(c).isInputEnd
    /\ StreamEof(Outbound(c))
    /\ c.sender.outgoing_bytes = 0
    /\ \/ ~c.linger_after_streams_finish
       \/ c.time_since_last >= LINGER * c.sender.initial_timeout

SendSegments(c) ==
    LET out == c.sender.segments_out
    IN  [c EXCEPT
            !.sender.segments_out = <<>>,
            !.segments_out = @ \o [i \in 1 .. Len(out) |-> Stamp(c, out[i])],
            !.linger_after_streams_finish =
                @ /\ ~(Inbound(c).isInputEnd /\ ~StreamEof(Outbound(c))),
            !.active = @ /\ ~Finished(c)]

Fill(c) == [c EXCEPT !.sender = FillWindow(@)]
Reply(c) == [c EXCEPT !.sender = SendEmptySegment(@)]
Receive(c, seg) == [c EXCEPT !.receiver = ReceiverSegmentReceived(@, seg)]

\* The ackno and the window of any segment are used, its ACK flag set or not.
TakeAck(c, seg) == [c EXCEPT !.sender = AckReceived(@, seg.ackno, seg.win)]
AckAndReceive(c, seg) == Receive(TakeAck(c, seg), seg)

ConnConnect(c) == SendSegments(Fill(c))

ConnWrite(c, data) ==
    IF data = <<>> THEN c
    ELSE SendSegments(Fill([c EXCEPT !.sender.stream = StreamWrite(@, data)]))

ConnEndInputStream(c) ==
    SendSegments(Fill([c EXCEPT !.sender.stream = EndInput(@)]))

Fail(c) == [c EXCEPT !.sender.stream = SetError(@),
                     !.receiver.reassembler.output = SetError(@),
                     !.active = FALSE]

\* reset_connection(): the RST is sent as it is, with neither seqno nor ackno.
ResetConnection(c) ==
    LET f == Fail(c)
    IN  [f EXCEPT !.segments_out = Append(@, [EmptySegment(0) EXCEPT !.rst = TRUE])]

ConnTick(c, ms) ==
    LET d == [c EXCEPT !.time_since_last = @ + ms, !.sender = SenderTick(@, ms)]
    IN  IF ~c.active THEN c
        ELSE IF d.sender.consecutive > MAX_RETX_ATTEMPTS THEN ResetConnection(d)
        ELSE SendSegments(d)

\* Time in tick() does more than advance counters that the next segment resets.
TickMatters(c) == /\ c.active
                  /\ \/ c.sender.outgoing # <<>>
                     \/ /\ Inbound(c).isInputEnd
                        /\ StreamEof(Outbound(c)) \/ c.linger_after_streams_finish
-----------------------------------------------------------------------------
(***************************************************************************)
(* segment_received(): the conditions its branches test, in the order of   *)
(* the code, and what each branch does.                                    *)
(***************************************************************************)
NothingAcked(c) == c.sender.next_seqno = c.sender.outgoing_bytes
FinSent(c) == StreamEof(Outbound(c)) /\ c.sender.next_seqno = Outbound(c).totin + 2

InListen(c) == c.sender.next_seqno = 0
InSynSent(c) == NothingAcked(c) /\ ~HasAckno(c.receiver)
InSynRcvd(c) == NothingAcked(c) /\ HasAckno(c.receiver) /\ ~Inbound(c).isInputEnd
InEstab(c) == c.sender.next_seqno > c.sender.outgoing_bytes /\ ~StreamEof(Outbound(c))
InFinWait1(c) == FinSent(c) /\ c.sender.outgoing_bytes > 0 /\ ~Inbound(c).isInputEnd
InFinWait2(c) == FinSent(c) /\ c.sender.outgoing_bytes = 0 /\ ~Inbound(c).isInputEnd
InTimeWait(c) == FinSent(c) /\ c.sender.outgoing_bytes = 0 /\ Inbound(c).isInputEnd

Branches == <<"LISTEN", "SYN_SENT", "SYN_RCVD", "ESTAB",
              "FIN_WAIT_1", "FIN_WAIT_2", "TIME_WAIT", "OTHER">>

\* The branch segment_received() takes: the first whose condition holds.
Branch(c) ==
    LET cond == <<InListen(c), InSynSent(c), InSynRcvd(c), InEstab(c),
                  InFinWait1(c), InFinWait2(c), InTimeWait(c), TRUE>>
    IN  Branches[CHOOSE i \in 1 .. 8 : cond[i] /\ \A j \in 1 .. i - 1 : ~cond[j]]

AckReceiveReply(c, seg) == SendSegments(Reply(AckAndReceive(c, seg)))

OnListen(c, seg) == IF seg.syn THEN ConnConnect(Receive(c, seg)) ELSE c

OnSynSent(c, seg) ==
    IF seg.syn /\ seg.ack THEN AckReceiveReply(c, seg)
    ELSE IF seg.syn THEN SendSegments(Reply(Receive(c, seg)))
    ELSE c

\* What the sender queues here stays in its queue until the next call.
OnSynRcvd(c, seg) == AckAndReceive(c, seg)

OnEstab(c, seg) ==
    LET d == AckAndReceive(c, seg)
    IN  SendSegments(Fill(IF LengthInSequenceSpace(seg) > 0 THEN Reply(d) ELSE d))

OnFinWait1(c, seg) ==
    IF seg.fin THEN AckReceiveReply(c, seg)
    ELSE IF seg.ack THEN SendSegments(AckAndReceive(c, seg))
    ELSE c

OnFinWait2(c, seg) == AckReceiveReply(c, seg)

OnTimeWait(c, seg) == IF seg.fin THEN AckReceiveReply(c, seg) ELSE c

OnOther(c, seg) == SendSegments(Fill(AckAndReceive(c, seg)))

\* The whole handler, for an active connection.
Handle(branch, c, seg) ==
    LET d == [c EXCEPT !.time_since_last = 0]
    IN  CASE branch = "LISTEN"     -> OnListen(d, seg)
          [] branch = "SYN_SENT"   -> OnSynSent(d, seg)
          [] branch = "SYN_RCVD"   -> OnSynRcvd(d, seg)
          [] branch = "ESTAB"      -> OnEstab(d, seg)
          [] branch = "FIN_WAIT_1" -> OnFinWait1(d, seg)
          [] branch = "FIN_WAIT_2" -> OnFinWait2(d, seg)
          [] branch = "TIME_WAIT"  -> OnTimeWait(d, seg)
          [] OTHER                 -> OnOther(d, seg)

ConnSegmentReceived(c, seg) ==
    IF ~c.active THEN c
    ELSE IF seg.rst THEN [Fail(c) EXCEPT !.time_since_last = 0]
    ELSE Handle(Branch(c), c, seg)
=============================================================================
