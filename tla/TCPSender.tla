------------------------------ MODULE TCPSender ------------------------------
(***************************************************************************)
(* A TCPSender driven by its owner: the application writes and ends the    *)
(* stream, acknowledgments arrive in any order, repeated or late, and time *)
(* passes.  The owner empties segments_out after every call, as            *)
(* TCPConnection::send_segments() does; `sent` holds what the last call    *)
(* queued.                                                                 *)
(*                                                                         *)
(* The application's bytes are numbered: the byte at index i of its stream *)
(* is i, so that a byte lost, repeated or misplaced shows.                 *)
(***************************************************************************)
EXTENDS TCPSenderOps

CONSTANTS ISN,          \* the initial sequence number
          CAPACITY,     \* capacity of the outbound stream
          RT_TIMEOUT,   \* TCPConfig::rt_timeout
          MaxBytes,     \* bound: bytes the application writes
          MaxWindow,    \* bound: windows the peer advertises
          MaxTimeout,   \* bound: the backed-off retransmission timeout
          MaxRetx       \* bound: retransmissions in a row

ASSUME SenderAssumption ==
    /\ ISN \in WrappingInt32
    /\ CAPACITY \in Nat
    /\ RT_TIMEOUT \in Nat /\ RT_TIMEOUT > 0
    /\ MaxBytes \in Nat /\ MaxWindow \in Nat /\ MaxTimeout \in Nat /\ MaxRetx \in Nat

VARIABLES snd,     \* the TCPSender
          sent,    \* segments queued by the last call
          acked    \* highest absolute ackno accepted so far

vars == <<snd, sent, acked>>

Init == /\ snd = NewTCPSender(CAPACITY, RT_TIMEOUT, ISN)
        /\ sent = <<>>
        /\ acked = 0

\* The owner takes the segments a call has queued.
Call(s) == /\ snd' = [s EXCEPT !.segments_out = <<>>]
           /\ sent' = s.segments_out

\* The next n bytes of the application's stream.
Data(n) == [i \in 1 .. n |-> snd.stream.totin + i - 1]

\* The application does not write after it has ended the stream
\* (byte_stream.hh:12-13).
Write(n) == /\ ~snd.stream.isInputEnd
            /\ snd.stream.totin + n <= MaxBytes
            /\ Call(FillWindow([snd EXCEPT !.stream = StreamWrite(@, Data(n))]))
            /\ UNCHANGED acked

EndStream == /\ ~snd.stream.isInputEnd
             /\ Call(FillWindow([snd EXCEPT !.stream = EndInput(@)]))
             /\ UNCHANGED acked

Connect == /\ Call(FillWindow(snd))
           /\ UNCHANGED acked

\* An acknowledgment of absolute sequence number a reaches the sender.
Ack(a, win) ==
    /\ Call(AckReceived(snd, Wrap(a, ISN), win))
    /\ acked' = IF a <= snd.next_seqno THEN Greater(a, acked) ELSE acked

\* Nothing limits the timeout in the sender: every accepted ackno clears the
\* count of retransmissions, and only one that acknowledges a whole segment
\* restores the timeout.
Tick(ms) == /\ IF snd.outgoing = <<>> THEN snd.timecount < RT_TIMEOUT
                                     ELSE /\ snd.timeout <= MaxTimeout
                                          /\ snd.consecutive < MaxRetx
            /\ Call(SenderTick(snd, ms))
            /\ UNCHANGED acked

SendEmpty == /\ Call(SendEmptySegment(snd))
             /\ UNCHANGED acked

\* The peer acknowledges anything up to next_seqno, less than half the sequence
\* space old, and now and then something not sent yet.
AckableRange == {a \in 0 .. snd.next_seqno + 1 : snd.next_seqno - a < M \div 2}

Next == \/ \E n \in 1 .. MaxBytes : Write(n)
        \/ EndStream
        \/ Connect
        \/ \E a \in AckableRange, win \in 0 .. MaxWindow : Ack(a, win)
        \/ \E ms \in 1 .. RT_TIMEOUT : Tick(ms)
        \/ SendEmpty

Spec == Init /\ [][Next]_vars
-----------------------------------------------------------------------------
\* Type invariant: the counters that the code keeps unsigned never go below
\* zero, and the stream buffer never exceeds its capacity.
TypeOK == /\ snd \in TCPSenderState
          /\ Len(snd.stream.buff) <= snd.stream.capacity
          /\ sent \in Seq(Segment)
          /\ acked \in Nat

\* The outstanding segments lie end to end up to next_seqno and outgoing_bytes
\* counts them: bytes_in_flight() is exact whatever order writes, acknowledgments
\* and timeouts come in.
FlightAccounting == ContiguousFlight(snd)

\* Nothing the peer has not acknowledged is forgotten: the oldest outstanding
\* segment starts at or before the highest ackno and ends after it, and when
\* everything sent is acknowledged nothing is outstanding.
UnackedIsKept == Kept(snd, acked)

\* While a segment is outstanding the retransmission timer is running and has
\* not expired unnoticed: no tick leaves an overdue segment unsent.
TimerArmed == Armed(snd)

\* Every outstanding segment, which is what a timeout sends again, carries the
\* wire sequence number and the bytes of the stream that belong at its key.
RetransmitsTheStream == CarriesStream(snd)

\* FIN is the last sequence number, sent once: when it has been sent the whole
\* stream has been, no byte is left to read and no later segment exists.
FinEndsTheStream == FinIsLast(snd)

\* A call that sends new sequence numbers leaves no more in flight than the
\* window in force, or one when the window is zero.  The first segment of the
\* connection is left out: a stream that ended before it puts SYN and FIN into a
\* window of one.
SendsWithinWindow ==
    [][snd.next_seqno > 0 /\ snd'.next_seqno > snd.next_seqno
         => snd'.outgoing_bytes <= FillTarget(snd')]_vars
=============================================================================
