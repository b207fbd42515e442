------------------------------ MODULE TCPPair -------------------------------
(***************************************************************************)
(* Two TCPConnections joined by a datagram network that reorders, loses    *)
(* and repeats segments.  The sides in Openers call connect(), the other   *)
(* waits in LISTEN; each application writes its bytes, ends its stream and *)
(* reads what the other sends.  The owner puts the segments of a           *)
(* connection on the network after every call and calls tick() as time     *)
(* passes (tcp_helpers/tcp_sponge_socket.cc).                              *)
(*                                                                         *)
(* The byte at index i of each stream is i.                                *)
(***************************************************************************)
EXTENDS TCPConnectionOps, Functions

CONSTANTS Client, Server,
          Openers,      \* the sides that call connect()
          Cfg,          \* Cfg[p]: the TCPConfig of p
          ToSend,       \* bound: ToSend[p] bytes are written by p's application
          TickSizes,    \* bound: the milliseconds a tick may report
          MaxFaults     \* bound: losses, repetitions and early timeouts

Peers == {Client, Server}
Other(p) == IF p = Client THEN Server ELSE Client

ASSUME PairAssumption ==
    /\ Client # Server /\ Openers \subseteq Peers
    /\ Cfg \in [Peers -> [send_capacity : Nat, recv_capacity : Nat, rt_timeout : Nat \ {0},
                          isn : WrappingInt32]]
    /\ ToSend \in [Peers -> Nat] /\ TickSizes \subseteq Nat /\ MaxFaults \in Nat

VARIABLES conn,     \* conn[p]: the TCPConnection of p
          net,      \* net[p]: the segments on their way to p
          faults    \* losses, repetitions and early timeouts so far

vars == <<conn, net, faults>>

Init == /\ conn = [p \in Peers |-> NewTCPConnection(Cfg[p])]
        /\ net = [p \in Peers |-> {}]
        /\ faults = 0

\* Connection p is c after a call; the segments it queued go to the other side,
\* where `inflight` are the segments left on the way to p.
After(p, c, inflight) ==
    /\ conn' = [conn EXCEPT ![p] = [c EXCEPT !.segments_out = <<>>]]
    /\ net' = [net EXCEPT ![p] = inflight, ![Other(p)] = @ \cup Range(c.segments_out)]

Call(p, c) == After(p, c, net[p]) /\ UNCHANGED faults

Connect(p) == /\ p \in Openers
              /\ InListen(conn[p])
              /\ Call(p, ConnConnect(conn[p]))

\* The application acts once the handshake has begun, and only while the
\* connection is active (tcp_sponge_socket.cc:94-119).
Open(p) == conn[p].active /\ ~InListen(conn[p]) /\ ~Outbound(conn[p]).isInputEnd

Write(p) == /\ Open(p)
            /\ Outbound(conn[p]).totin < ToSend[p]
            /\ RemainingCapacity(Outbound(conn[p])) > 0
            /\ Call(p, ConnWrite(conn[p], <<Outbound(conn[p]).totin>>))

EndInputStream(p) == /\ Open(p)
                     /\ Outbound(conn[p]).totin = ToSend[p]
                     /\ Call(p, ConnEndInputStream(conn[p]))

Read(p) == /\ BufferSize(Inbound(conn[p])) > 0
           /\ Call(p, [conn[p] EXCEPT !.receiver.reassembler.output =
                                          StreamRead(@, BufferSize(@))])

\* A segment reaches p, and may reach it again.
Deliver(p, seg, again) ==
    /\ After(p, ConnSegmentReceived(conn[p], seg),
             IF again THEN net[p] ELSE net[p] \ {seg})
    /\ faults' = faults + Bit(again)

DeliverRst(p, seg, again) ==
    conn[p].active /\ seg.rst /\ Deliver(p, seg, again)

DeliverTo(branch, p, seg, again) ==
    /\ conn[p].active /\ ~seg.rst /\ Branch(conn[p]) = branch
    /\ Deliver(p, seg, again)

DeliverToInactive(p, seg, again) ==
    ~conn[p].active /\ Deliver(p, seg, again)

Lose(p, seg) == /\ faults < MaxFaults
                /\ net' = [net EXCEPT ![p] = @ \ {seg}]
                /\ faults' = faults + 1
                /\ UNCHANGED conn

Ticked(p, ms) == IF TickMatters(conn[p]) THEN ConnTick(conn[p], ms) ELSE conn[p]

\* Time passes on both sides.  It does so freely once the network has delivered
\* or lost what it had; while segments are still on their way, a timeout is
\* early, and counts as a fault.
Tick(ms) ==
    LET early == \E p \in Peers : net[p] # {}
    IN  /\ \E p \in Peers : TickMatters(conn[p])
        /\ early => faults < MaxFaults
        /\ faults' = faults + Bit(early)
        /\ conn' = [p \in Peers |-> [Ticked(p, ms) EXCEPT !.segments_out = <<>>]]
        /\ net' = [p \in Peers |-> net[p] \cup Range(Ticked(Other(p), ms).segments_out)]

Arrivals(p, seg, again) ==
    \/ DeliverRst(p, seg, again)
    \/ DeliverTo("LISTEN", p, seg, again)
    \/ DeliverTo("SYN_SENT", p, seg, again)
    \/ DeliverTo("SYN_RCVD", p, seg, again)
    \/ DeliverTo("ESTAB", p, seg, again)
    \/ DeliverTo("FIN_WAIT_1", p, seg, again)
    \/ DeliverTo("FIN_WAIT_2", p, seg, again)
    \/ DeliverTo("TIME_WAIT", p, seg, again)
    \/ DeliverTo("OTHER", p, seg, again)
    \/ DeliverToInactive(p, seg, again)

AppStep(p) == Connect(p) \/ Write(p) \/ EndInputStream(p) \/ Read(p)

NetStep(p) == \E seg \in net[p] :
                 \/ \E again \in BOOLEAN : /\ again => faults < MaxFaults
                                           /\ Arrivals(p, seg, again)
                 \/ Lose(p, seg)

Next == \/ \E p \in Peers : AppStep(p) \/ NetStep(p)
        \/ \E ms \in TickSizes : Tick(ms)

Spec == Init /\ [][Next]_vars

\* When a step of p's application, or any step at all, is possible: ENABLED
\* written out.
AppReady(p) == \/ p \in Openers /\ InListen(conn[p])
               \/ Open(p) /\ Outbound(conn[p]).totin = ToSend[p]
               \/ Open(p) /\ RemainingCapacity(Outbound(conn[p])) > 0
               \/ BufferSize(Inbound(conn[p])) > 0

Ready == \E p \in Peers : AppReady(p) \/ net[p] # {} \/ TickMatters(conn[p])

\* A step of p's application other than connect(), which it calls once: it alone
\* extends or ends the outbound stream, or takes bytes from the inbound one.
AppMoves(p) ==
    LET used(c) == <<Outbound(c).totin, Outbound(c).isInputEnd, Inbound(c).totout>>
    IN  used(conn[p])' # used(conn[p])

\* Weak fairness of every application and of the whole system: the event loop
\* serves every rule that is ready and ticks every 10 ms
\* (tcp_sponge_socket.cc:24-39), and what is on its way arrives or is lost.
LiveSpec == /\ Spec
            /\ \A p \in Peers : []<>~AppReady(p) \/ []<><<AppMoves(p)>>_vars
            /\ []<>~Ready \/ []<><<TRUE>>_vars
-----------------------------------------------------------------------------
AckedBy(p) == conn[p].sender.next_seqno - conn[p].sender.outgoing_bytes
ReceivedBy(p) == Inbound(conn[p]).totin + Bit(conn[p].receiver.syn)
                   + Bit(Inbound(conn[p]).isInputEnd)

\* Each application reads a prefix of what the other wrote, in order, and is told
\* of the end only at the end.
StreamsArriveIntact ==
    \A p \in Peers :
        LET in == Inbound(conn[p])
        IN  /\ in.totin <= Outbound(conn[Other(p)]).totin
            /\ \A i \in 1 .. Len(in.buff) : in.buff[i] = in.totout + i - 1
            /\ in.isInputEnd => /\ Outbound(conn[Other(p)]).isInputEnd
                                /\ in.totin = Outbound(conn[Other(p)]).totin

\* A sender forgets only what the other side has received: what p counts as
\* acknowledged, SYN and FIN included, is in its peer's hands.
AcknowledgedIsReceived ==
    \A p \in Peers : AckedBy(p) <= ReceivedBy(Other(p))

\* A connection that ends without an error has delivered its whole stream and
\* received the other's.
CleanEndIsComplete ==
    \A p \in Peers :
        ~conn[p].active /\ ~Inbound(conn[p]).error =>
            /\ Inbound(conn[p]).isInputEnd
            /\ Inbound(conn[Other(p)]).isInputEnd
            /\ Inbound(conn[Other(p)]).totin = ToSend[p]

\* No connection ends with an error when fewer segments are lost than a sender
\* has attempts: each side stays to acknowledge what the other sends again ("stay
\* active (and keep ACKing) for 10 * _cfg.rt_timeout milliseconds after both
\* streams have ended, in case the remote TCPConnection doesn't know we've
\* received its whole stream", tcp_connection.hh:25-28).
NoSpuriousReset == \A p \in Peers : ~Inbound(conn[p]).error

\* Both streams are delivered in full, both connections end, and neither ends with
\* an error.
BothStreamsDelivered ==
    <>[](\A p \in Peers : /\ ~conn[p].active /\ ~Inbound(conn[p]).error
                           /\ StreamEof(Inbound(conn[p]))
                           /\ Inbound(conn[p]).totout = ToSend[Other(p)])
=============================================================================
