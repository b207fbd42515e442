---------------------------- MODULE TCPPairLemmas ----------------------------
(***************************************************************************)
(* One connection against the other: what is true of a connection and of   *)
(* the segments it sends while its peer has a given state, and that the    *)
(* calls of its owner keep it true.                                        *)
(***************************************************************************)
EXTENDS TCPPair, TCPSenderLemmas, TCPReceiverLemmas

\* No two sequence numbers of a stream, its SYN and FIN included, look alike on the wire,
\* and no receiver stores more bytes than half of the sequence space.
StreamsFit ==
    \A p \in Peers : /\ ToSend[p] + 2 < M /\ ToSend[p] < SIZE_MAX
                     /\ Cfg[p].recv_capacity <= M \div 2

\* A segment without the ACK flag has ackno zero, and segment_received() uses the ackno of
\* any segment.  Zero is no acknowledgment of anything to a side whose peer sends such
\* segments.
ZeroIsNoAckno ==
    \A p \in Peers : Other(p) \in Openers =>
        \A y \in 1 .. ToSend[p] + 2 : Wrap(y, Cfg[p].isn) # 0

\* What p says in a segment is true of its connection c: the segment is of its stream, its
\* ackno acknowledges no more than was received, and only a side that opens leaves it out.
\* The RST says nothing.
Truthful(p, seg, c) ==
    seg.rst \/ /\ InStream(seg, c.sender)
               /\ seg.ack => \E x \in 0 .. Received(c.receiver) :
                                 seg.ackno = Wrap(x, Cfg[Other(p)].isn)
               /\ ~seg.ack => seg.ackno = 0 /\ p \in Openers

Opened(p, c) == p \in Openers \/ c.receiver.syn
Quiet(c) == c.sender.next_seqno = 0 /\ c.sender.segments_out = <<>>

\* The sender of c, a connection of p.
SenderOf(p, c) ==
    /\ SenderWell(c.sender) /\ c.sender.isn = Cfg[p].isn
    /\ Outbound(c).totin <= ToSend[p]
    /\ Outbound(c).isInputEnd => Outbound(c).totin = ToSend[p] /\ c.sender.syn

\* The receiver of c, when d is the connection of the peer.
ReceiverOf(p, c, d) ==
    /\ RcvGood(c.receiver, Cfg[Other(p)].isn, Cfg[p].recv_capacity, ToSend[Other(p)])
    /\ Within(c.receiver, Outbound(d).totin, Outbound(d).isInputEnd, ToSend[Other(p)])

\* The invariant of connection c of p while d is the connection of the peer: sender and
\* receiver are sound, nothing is received that the peer has not written, nothing counts
\* as acknowledged that the peer has not received, and every segment queued is truthful.
ConnGood(p, c, d) ==
    /\ c \in TCPConnectionState
    /\ SenderOf(p, c) /\ ReceiverOf(p, c, d)
    /\ ZeroIsNoAckno => Acked(c.sender) <= Received(d.receiver)
    /\ \A i \in 1 .. Len(c.segments_out) : Truthful(p, c.segments_out[i], c)
    /\ Opened(p, c) \/ Quiet(c)

\* Both streams are over: the peer's has ended, and ours is acknowledged up to its FIN.
Complete(c) == Inbound(c).isInputEnd /\ c.sender.fin /\ c.sender.outgoing_bytes = 0

\* Between two calls: fill_window() has sent what it could, and a connection that is no
\* longer active has failed or is complete.
ConnState(p, c, d) ==
    /\ ConnGood(p, c, d) /\ Settled(c.sender)
    /\ c.active \/ Inbound(c).error \/ Complete(c)

-----------------------------------------------------------------------------
(***************************************************************************)
(* The two sides.                                                          *)
(***************************************************************************)
\* The constants of a side.
LEMMA PeerFacts ==
    ASSUME NEW p \in Peers
    PROVE  /\ Other(p) \in Peers /\ Other(Other(p)) = p /\ Other(p) # p
           /\ Peers = {p, Other(p)}
           /\ Cfg[p].isn \in WrappingInt32 /\ Cfg[p].recv_capacity \in Nat
           /\ Cfg[p].send_capacity \in Nat /\ Cfg[p].rt_timeout \in Nat \ {0}
           /\ ToSend[p] \in Nat
BY PairAssumption DEF Peers, Other

\* What p's operations rely on of d, the connection of the peer.
View(p, d) ==
    /\ Outbound(d).totin \in Nat /\ Outbound(d).totin <= ToSend[Other(p)]
    /\ Outbound(d).isInputEnd => Outbound(d).totin = ToSend[Other(p)]
    /\ d.sender.isn = Cfg[Other(p)].isn
    /\ Received(d.receiver) \in Nat /\ Received(d.receiver) <= ToSend[p] + 2

\* The numbers of a connection.
LEMMA ConnFacts ==
    ASSUME StreamsFit, NEW p \in Peers, NEW c, NEW d, ConnGood(p, c, d)
    PROVE  /\ Received(c.receiver) \in Nat /\ Received(c.receiver) <= ToSend[Other(p)] + 2
           /\ c.sender \in TCPSenderState /\ SenderWell(c.sender)
           /\ c.sender.isn = Cfg[p].isn
           /\ Outbound(c).totin \in Nat /\ Outbound(c).totin <= ToSend[p]
           /\ Acked(c.sender) \in Nat /\ c.sender \in Good(Acked(c.sender), c.sender)
           /\ Extends(c.sender, c.sender)
<1>1. /\ RcvGood(c.receiver, Cfg[Other(p)].isn, Cfg[p].recv_capacity, ToSend[Other(p)])
      /\ SenderWell(c.sender) /\ c.sender.isn = Cfg[p].isn /\ Outbound(c).totin <= ToSend[p]
  BY DEF ConnGood, SenderOf, ReceiverOf
<1>2. ToSend[Other(p)] \in Nat /\ ToSend[Other(p)] < SIZE_MAX /\ Cfg[p].recv_capacity \in Nat
  BY PeerFacts DEF StreamsFit
<1>3. Received(c.receiver) \in Nat /\ Received(c.receiver) <= ToSend[Other(p)] + 2
  BY <1>1, <1>2, ReceivedFacts
<1>4. c.sender \in TCPSenderState /\ c.sender.stream \in ByteStreamState(Nat)
  BY <1>1 DEF SenderWell, TCPSenderState
<1>5. c.sender.stream.totin \in Nat
  BY <1>4 DEF ByteStreamState
<1>6. Extends(c.sender, c.sender)
  BY <1>5 DEF Extends
<1>7. Acked(c.sender) \in Nat /\ c.sender \in Good(Acked(c.sender), c.sender)
  BY <1>1, AckedIsGood
<1> QED BY <1>1, <1>3, <1>4, <1>5, <1>6, <1>7 DEF Outbound

\* A sound connection of the peer gives this view.
LEMMA Viewed ==
    ASSUME StreamsFit, NEW p \in Peers, NEW c, NEW d, ConnGood(Other(p), d, c)
    PROVE  View(p, d)
<1>1. Other(p) \in Peers /\ Other(Other(p)) = p
  BY PeerFacts
<1>2. /\ Received(d.receiver) \in Nat /\ Received(d.receiver) <= ToSend[p] + 2
      /\ d.sender.isn = Cfg[Other(p)].isn
      /\ Outbound(d).totin \in Nat /\ Outbound(d).totin <= ToSend[Other(p)]
  BY <1>1, ConnFacts
<1>3. Outbound(d).isInputEnd => Outbound(d).totin = ToSend[Other(p)]
  BY DEF ConnGood, SenderOf
<1> QED BY <1>2, <1>3 DEF View

\* A connection moves on: its stream continues, and what it has received stays received.
Grows(c, u) ==
    /\ Extends(c.sender, u.sender)
    /\ Received(c.receiver) \in Nat /\ Received(u.receiver) \in Nat
    /\ Received(c.receiver) <= Received(u.receiver)

\* One step after another.
LEMMA GrowsOn ==
    ASSUME NEW c, NEW u, NEW w, Grows(c, u), Grows(u, w)
    PROVE  Grows(c, w)
<1>1. Extends(c.sender, w.sender)
  BY DEF Grows, Extends
<1>2. Received(c.receiver) <= Received(w.receiver)
  BY DEF Grows
<1> QED BY <1>1, <1>2 DEF Grows

\* What was said stays true.
LEMMA TruthfulGrows ==
    ASSUME NEW p, NEW c, NEW u, Grows(c, u), NEW seg \in Segment, Truthful(p, seg, c)
    PROVE  Truthful(p, seg, u)
<1>1. CASE seg.rst
  BY <1>1 DEF Truthful
<1>2. CASE ~seg.rst
  <2>1. InStream(seg, u.sender)
    BY <1>2, InStreamGrows, SegmentLength DEF Truthful, Grows
  <2>2. ASSUME seg.ack
        PROVE  \E x \in 0 .. Received(u.receiver) : seg.ackno = Wrap(x, Cfg[Other(p)].isn)
    <3>1. PICK x \in 0 .. Received(c.receiver) : seg.ackno = Wrap(x, Cfg[Other(p)].isn)
      BY <1>2, <2>2 DEF Truthful
    <3>2. x \in 0 .. Received(u.receiver)
      BY DEF Grows
    <3> QED BY <3>1, <3>2
  <2>3. ~seg.ack => seg.ackno = 0 /\ p \in Openers
    BY <1>2 DEF Truthful
  <2> QED BY <2>1, <2>2, <2>3 DEF Truthful
<1> QED BY <1>1, <1>2

\* The peer's invariant survives a step of c.
LEMMA PeerMoves ==
    ASSUME StreamsFit, NEW p \in Peers, NEW d, NEW c, NEW u, ConnGood(p, d, c), Grows(c, u)
    PROVE  ConnGood(p, d, u)
<1> DEFINE n == Outbound(c).totin
           m == Outbound(u).totin
           total == ToSend[Other(p)]
           w == d.receiver.reassembler
<1>1. n \in Nat /\ m \in Nat /\ n <= m /\ (Outbound(c).isInputEnd => Outbound(u).isInputEnd)
  BY DEF Grows, Extends, Outbound
<1>2. Within(d.receiver, n, Outbound(c).isInputEnd, total)
  BY DEF ConnGood, ReceiverOf
<1>3. RcvGood(d.receiver, Cfg[Other(p)].isn, Cfg[p].recv_capacity, total)
  BY DEF ConnGood, ReceiverOf
<1>4. w.output.totin \in Nat /\ Covered(w.unassembledBuffer) \subseteq Nat
  <2>1. Sound(w, Cfg[p].recv_capacity, total)
    BY <1>3 DEF RcvGood, Well
  <2>2. total \in Nat /\ total < SIZE_MAX /\ Cfg[p].recv_capacity \in Nat
    BY PeerFacts DEF StreamsFit
  <2> QED BY <2>1, <2>2, SoundFacts
<1>5. w.output.totin <= m
  <2>1. w.output.totin <= n
    BY <1>2 DEF Within
  <2> HIDE DEF n, m, w
  <2> QED BY <1>1, <1>4, <2>1
<1>6. \A i \in Covered(w.unassembledBuffer) : i < m
  <2>1. \A i \in Covered(w.unassembledBuffer) : i < n
    BY <1>2 DEF Within
  <2> HIDE DEF n, m, w
  <2> QED BY <1>1, <1>4, <2>1
<1>7. Within(d.receiver, m, Outbound(u).isInputEnd, total)
  BY <1>1, <1>2, <1>5, <1>6 DEF Within
<1>8. ZeroIsNoAckno => Acked(d.sender) <= Received(u.receiver)
  <2>1. ZeroIsNoAckno => Acked(d.sender) <= Received(c.receiver)
    BY DEF ConnGood
  <2>2. Acked(d.sender) \in Nat
    BY ConnFacts
  <2> QED BY <2>1, <2>2 DEF Grows
<1> HIDE DEF n, m
<1> QED BY <1>3, <1>7, <1>8 DEF ConnGood, ReceiverOf, m
-----------------------------------------------------------------------------
(***************************************************************************)
(* The operations that change the sender.                                  *)
(***************************************************************************)
WithSender(c, t) == [c EXCEPT !.sender = t]
WithReceiver(c, v) == [c EXCEPT !.receiver = v]

\* From c an operation leads to u, and c stays as active as it was.
Keeps(p, c, u, d) ==
    /\ ConnGood(p, u, d) /\ Grows(c, u)
    /\ u.active = c.active
    /\ c.receiver.syn => u.receiver.syn

\* One change after another.
LEMMA KeepsOn ==
    ASSUME NEW p, NEW c, NEW u, NEW w, NEW d, Keeps(p, c, u, d), Keeps(p, u, w, d)
    PROVE  Keeps(p, c, w, d)
BY GrowsOn DEF Keeps

\* A sender of the same stream, with nothing more acknowledged than what the peer has received.
SenderFits(p, c, t, d) ==
    /\ SenderWell(t) /\ Extends(c.sender, t) /\ t.stream.totin <= ToSend[p]
    /\ t.stream.isInputEnd => t.stream.totin = ToSend[p] /\ t.syn
    /\ ZeroIsNoAckno => Acked(t) <= Received(d.receiver)
    /\ Opened(p, c) \/ (t.next_seqno = 0 /\ t.segments_out = <<>>)

\* Such a sender may take the place of the sender.
LEMMA SenderChange ==
    ASSUME StreamsFit, NEW p \in Peers, NEW c, NEW d, ConnGood(p, c, d),
           NEW t, SenderFits(p, c, t, d)
    PROVE  LET u == WithSender(c, t)
           IN  Keeps(p, c, u, d) /\ u.sender = t /\ u.receiver = c.receiver
<1> DEFINE u == WithSender(c, t)
<1> USE DEF SenderFits
<1>1. c \in TCPConnectionState /\ t \in TCPSenderState
  BY DEF ConnGood, SenderWell
<1>2. /\ u \in TCPConnectionState /\ u.sender = t /\ u.receiver = c.receiver
      /\ u.segments_out = c.segments_out /\ u.active = c.active
  BY <1>1 DEF TCPConnectionState, WithSender
<1>3. Received(c.receiver) \in Nat /\ c.sender.isn = Cfg[p].isn
  BY ConnFacts
<1> HIDE DEF u
<1>4. Grows(c, u)
  BY <1>2, <1>3 DEF Grows
<1>5. SenderOf(p, u)
  BY <1>2, <1>3 DEF SenderOf, Extends, Outbound
<1>6. ReceiverOf(p, u, d)
  BY <1>2 DEF ConnGood, ReceiverOf
<1>7. ASSUME NEW i \in 1 .. Len(u.segments_out)
      PROVE  Truthful(p, u.segments_out[i], u)
  <2>1. c.segments_out \in Seq(Segment) /\ i \in 1 .. Len(c.segments_out)
    BY <1>1, <1>2 DEF TCPConnectionState
  <2>2. c.segments_out[i] \in Segment /\ Truthful(p, c.segments_out[i], c)
    BY <2>1 DEF ConnGood
  <2> QED BY <1>2, <1>4, <2>2, TruthfulGrows
<1>8. Opened(p, u) \/ Quiet(u)
  BY <1>2 DEF Opened, Quiet
<1>9. ConnGood(p, u, d)
  BY <1>2, <1>5, <1>6, <1>7, <1>8 DEF ConnGood
<1> QED BY <1>2, <1>4, <1>9 DEF Keeps, u

\* The same when the stream has not moved.
LEMMA GoodChange ==
    ASSUME StreamsFit, NEW p \in Peers, NEW c, NEW d, ConnGood(p, c, d),
           NEW a \in Nat, ZeroIsNoAckno => a <= Received(d.receiver),
           Received(d.receiver) \in Nat,
           NEW t \in Good(a, c.sender), c.sender.syn => t.syn,
           Opened(p, c) \/ (t.next_seqno = 0 /\ t.segments_out = <<>>)
    PROVE  LET u == WithSender(c, t)
           IN  Keeps(p, c, u, d) /\ u.sender = t /\ u.receiver = c.receiver
<1>1. SenderWell(t) /\ SameStream(c.sender, t) /\ Acked(t) \in Nat /\ Acked(t) <= a
  BY GoodIsAcked DEF Good
<1>2. ZeroIsNoAckno => Acked(t) <= Received(d.receiver)
  BY <1>1
<1>3. Outbound(c).totin \in Nat /\ Outbound(c).totin <= ToSend[p]
  BY ConnFacts
<1>4. /\ t.isn = c.sender.isn /\ t.stream.totin = c.sender.stream.totin
      /\ t.stream.isInputEnd <=> c.sender.stream.isInputEnd
  BY <1>1 DEF SameStream
<1>5. Extends(c.sender, t) /\ t.stream.totin <= ToSend[p]
  BY <1>3, <1>4 DEF Extends, Outbound
<1>6. t.stream.isInputEnd => t.stream.totin = ToSend[p] /\ t.syn
  <2>1. Outbound(c).isInputEnd => Outbound(c).totin = ToSend[p] /\ c.sender.syn
    BY DEF ConnGood, SenderOf
  <2> QED BY <1>4, <2>1 DEF Outbound
<1>7. SenderFits(p, c, t, d)
  BY Zenon, <1>1, <1>2, <1>5, <1>6 DEF SenderFits
<1> QED BY <1>7, SenderChange

\* fill_window().
LEMMA ConnFill ==
    ASSUME StreamsFit, NEW p \in Peers, NEW c, NEW d, ConnGood(p, c, d), View(p, d),
           Opened(p, c)
    PROVE  LET u == Fill(c)
           IN  Keeps(p, c, u, d) /\ Settled(u.sender) /\ u.receiver = c.receiver
<1> DEFINE s == c.sender
           t == FillWindow(s)
           a == Acked(s)
<1>1. a \in Nat /\ s \in Good(a, s)
  BY ConnFacts
<1>2. t \in Good(a, s) /\ Settled(t) /\ (s.syn => t.syn)
  BY <1>1, FillGood, FillSettles, FillStops
<1>3. (ZeroIsNoAckno => a <= Received(d.receiver)) /\ Received(d.receiver) \in Nat
  BY DEF ConnGood, View
<1>4. Fill(c) = WithSender(c, t)
  BY DEF Fill, WithSender, ConnGood, TCPConnectionState
<1> HIDE DEF t
<1>5. /\ Keeps(p, c, WithSender(c, t), d) /\ WithSender(c, t).sender = t
      /\ WithSender(c, t).receiver = c.receiver
  BY <1>1, <1>2, <1>3, GoodChange
<1> QED BY <1>2, <1>4, <1>5

\* Whether fill_window() is done depends on these fields.
LEMMA SettledSame ==
    ASSUME NEW s, NEW t, t.stream = s.stream, t.syn = s.syn, t.fin = s.fin,
           t.outgoing_bytes = s.outgoing_bytes, t.win_size = s.win_size, Settled(s)
    PROVE  Settled(t)
BY DEF Settled, FillTarget

\* send_empty_segment().
LEMMA ConnReply ==
    ASSUME StreamsFit, NEW p \in Peers, NEW c, NEW d, ConnGood(p, c, d), View(p, d),
           Opened(p, c)
    PROVE  LET u == Reply(c)
           IN  /\ Keeps(p, c, u, d) /\ u.receiver = c.receiver
               /\ Settled(c.sender) => Settled(u.sender)
<1> DEFINE s == c.sender
           t == SendEmptySegment(s)
           a == Acked(s)
<1>1. a \in Nat /\ s \in Good(a, s)
  BY ConnFacts
<1>2. /\ t \in Good(a, s) /\ t.stream = s.stream /\ t.syn = s.syn /\ t.fin = s.fin
      /\ t.outgoing_bytes = s.outgoing_bytes /\ t.win_size = s.win_size
  BY <1>1, EmptyGood
<1>3. (ZeroIsNoAckno => a <= Received(d.receiver)) /\ Received(d.receiver) \in Nat
  BY DEF ConnGood, View
<1>4. Reply(c) = WithSender(c, t)
  BY DEF Reply, WithSender, ConnGood, TCPConnectionState
<1> HIDE DEF t
<1>5. /\ Keeps(p, c, WithSender(c, t), d) /\ WithSender(c, t).sender = t
      /\ WithSender(c, t).receiver = c.receiver
  BY <1>1, <1>2, <1>3, GoodChange
<1>6. Settled(s) => Settled(t)
  BY <1>2, SettledSame
<1> QED BY <1>4, <1>5, <1>6

\* Two numbers of one turn of the sequence space that look alike are the same.
LEMMA WrapUnique ==
    ASSUME NEW x \in Nat, x < M, NEW y \in Nat, y < M, NEW isn \in WrappingInt32,
           Wrap(x, isn) = Wrap(y, isn)
    PROVE  x = y
<1>1. 0 \in Nat /\ 0 <= M \div 2
  BY MAssumption
<1> QED BY <1>1, UnwrapFirstTurn

\* ack_received() with the ackno and the window of a segment of the peer.
LEMMA ConnTakeAck ==
    ASSUME StreamsFit, NEW p \in Peers, NEW c, NEW d, ConnGood(p, c, d), View(p, d),
           Opened(p, c), NEW seg \in Segment, Truthful(Other(p), seg, d), ~seg.rst
    PROVE  LET u == TakeAck(c, seg)
           IN  /\ Keeps(p, c, u, d) /\ u.receiver = c.receiver
               /\ Settled(c.sender) => Settled(u.sender)
<1> DEFINE s == c.sender
           t == AckReceived(s, seg.ackno, seg.win)
           a == Acked(s)
           isn == Cfg[p].isn
           x == Unwrap(seg.ackno, s.isn, s.next_seqno)
           b == IF x <= s.next_seqno THEN Greater(x, a) ELSE a
           r == Received(d.receiver)
<1>1. a \in Nat /\ s \in Good(a, s) /\ s.isn = isn /\ SenderWell(s)
  BY ConnFacts
<1>2. seg.ackno \in WrappingInt32 /\ seg.win \in Nat /\ isn \in WrappingInt32
  BY PeerFacts DEF Segment
<1>3. x \in Nat /\ t \in Good(b, s) /\ (s.syn => t.syn) /\ (Settled(s) => Settled(t))
  BY <1>1, <1>2, AckGood
<1>4. r \in Nat /\ r <= ToSend[p] + 2 /\ (ZeroIsNoAckno => a <= r)
  BY DEF ConnGood, View
<1>5. s.next_seqno \in Nat /\ s.next_seqno <= ToSend[p] + 2
  <2>1. s.next_seqno \in 0 .. s.stream.totin + 2
    BY <1>1, SeqnoBound
  <2>2. s.stream.totin \in Nat /\ s.stream.totin <= ToSend[p] /\ ToSend[p] \in Nat
    BY ConnFacts, PeerFacts DEF Outbound
  <2> QED BY <2>1, <2>2
<1>6. ToSend[p] + 2 < M /\ ToSend[p] \in Nat /\ M \in Nat
  BY PeerFacts, MAssumption DEF StreamsFit
<1>7. ASSUME ZeroIsNoAckno, x <= s.next_seqno
      PROVE  x <= r
  <2>1. x < M
    BY <1>3, <1>5, <1>6, <1>7
  <2>2. seg.ackno = Wrap(x, isn)
    BY <1>1, <1>2, <1>5, WrapOfUnwrap
  <2>3. CASE seg.ack
    <3>1. PICK y \in 0 .. r : seg.ackno = Wrap(y, isn)
      BY <2>3, PeerFacts DEF Truthful
    <3>2. y \in Nat /\ y < M
      BY <1>4, <1>6
    <3>3. x = y
      BY <1>2, <1>3, <2>1, <2>2, <3>1, <3>2, WrapUnique
    <3> QED BY <3>1, <3>3
  <2>4. CASE ~seg.ack
    <3>1. seg.ackno = 0 /\ Other(p) \in Openers
      BY <2>4 DEF Truthful
    <3>2. x \notin 1 .. ToSend[p] + 2
      BY <1>7, <2>2, <3>1 DEF ZeroIsNoAckno
    <3>3. x = 0
      BY <1>3, <1>5, <1>6, <1>7, <3>2
    <3> QED BY <1>4, <3>3
  <2> QED BY <2>3, <2>4
<1>8. b \in Nat /\ (ZeroIsNoAckno => b <= r)
  BY <1>1, <1>3, <1>4, <1>7 DEF Greater
<1>9. TakeAck(c, seg) = WithSender(c, t)
  BY DEF TakeAck, WithSender, ConnGood, TCPConnectionState
<1> HIDE DEF t, b
<1>10. /\ Keeps(p, c, WithSender(c, t), d) /\ WithSender(c, t).sender = t
       /\ WithSender(c, t).receiver = c.receiver
  BY <1>3, <1>4, <1>8, GoodChange
<1> QED BY <1>3, <1>9, <1>10
-----------------------------------------------------------------------------
(***************************************************************************)
(* The operations that change the receiver, the queue or the clock.        *)
(***************************************************************************)
\* A receiver that has received more of the same stream.
ReceiverFits(p, c, v, d) ==
    /\ RcvGood(v, Cfg[Other(p)].isn, Cfg[p].recv_capacity, ToSend[Other(p)])
    /\ Within(v, Outbound(d).totin, Outbound(d).isInputEnd, ToSend[Other(p)])
    /\ Received(c.receiver) <= Received(v) /\ (c.receiver.syn => v.syn)

\* Such a receiver may take the receiver's place.
LEMMA ReceiverChange ==
    ASSUME StreamsFit, NEW p \in Peers, NEW c, NEW d, ConnGood(p, c, d),
           NEW v, ReceiverFits(p, c, v, d)
    PROVE  LET u == WithReceiver(c, v)
           IN  Keeps(p, c, u, d) /\ u.sender = c.sender /\ u.receiver = v
<1> DEFINE u == WithReceiver(c, v)
<1> USE DEF ReceiverFits
<1>1. c \in TCPConnectionState /\ v \in TCPReceiverState
  BY DEF ConnGood, RcvGood
<1>2. /\ u \in TCPConnectionState /\ u.sender = c.sender /\ u.receiver = v
      /\ u.segments_out = c.segments_out /\ u.active = c.active
  BY <1>1 DEF TCPConnectionState, WithReceiver
<1>3. Received(c.receiver) \in Nat /\ Extends(c.sender, c.sender)
  BY ConnFacts
<1>4. Received(v) \in Nat
  <2>1. /\ ToSend[Other(p)] \in Nat /\ ToSend[Other(p)] < SIZE_MAX
        /\ Cfg[p].recv_capacity \in Nat
    BY PeerFacts DEF StreamsFit
  <2> QED BY <2>1, ReceivedFacts
<1> HIDE DEF u
<1>5. Grows(c, u)
  BY <1>2, <1>3, <1>4 DEF Grows
<1>6. SenderOf(p, u)
  BY Zenon, <1>2 DEF ConnGood, SenderOf, Outbound
<1>7. ReceiverOf(p, u, d)
  BY <1>2 DEF ReceiverOf
<1>8. ASSUME NEW i \in 1 .. Len(u.segments_out)
      PROVE  Truthful(p, u.segments_out[i], u)
  <2>1. c.segments_out \in Seq(Segment) /\ i \in 1 .. Len(c.segments_out)
    BY <1>1, <1>2 DEF TCPConnectionState
  <2>2. c.segments_out[i] \in Segment /\ Truthful(p, c.segments_out[i], c)
    BY <2>1, SMTT(30) DEF ConnGood
  <2> QED BY <1>2, <1>5, <2>2, TruthfulGrows
<1>9. Opened(p, u) \/ Quiet(u)
  BY <1>2 DEF ConnGood, Opened, Quiet
<1>10. ZeroIsNoAckno => Acked(u.sender) <= Received(d.receiver)
  BY <1>2 DEF ConnGood
<1>11. ConnGood(p, u, d)
  BY <1>2, <1>6, <1>7, <1>8, <1>9, <1>10 DEF ConnGood
<1> QED BY <1>2, <1>5, <1>11 DEF Keeps, u

\* segment_received() of the receiver, with a segment of the peer.
LEMMA ConnReceive ==
    ASSUME StreamsFit, NEW p \in Peers, NEW c, NEW d, ConnGood(p, c, d), View(p, d),
           NEW seg \in Segment, Truthful(Other(p), seg, d), ~seg.rst
    PROVE  LET u == Receive(c, seg)
           IN  /\ Keeps(p, c, u, d) /\ u.sender = c.sender
               /\ seg.syn => u.receiver.syn
<1> DEFINE isn == Cfg[Other(p)].isn
           cap == Cfg[p].recv_capacity
           total == ToSend[Other(p)]
           n == Outbound(d).totin
           e == Outbound(d).isInputEnd
           v == ReceiverSegmentReceived(c.receiver, seg)
<1>1. PICK a \in 0 .. n + 2 : Numbered(seg, a, isn, n, e)
  BY DEF Truthful, InStream, View, Outbound
<1>2. n \in Nat /\ n <= total /\ (e => n = total)
  BY DEF View
<1>3. isn \in WrappingInt32 /\ cap \in Nat /\ total \in Nat
  BY PeerFacts
<1>4. total + 1 < M /\ total < SIZE_MAX /\ cap <= M \div 2
  BY <1>3, PeerFacts, MAssumption DEF StreamsFit
<1>5. RcvGood(c.receiver, isn, cap, total) /\ Within(c.receiver, n, e, total)
  BY DEF ConnGood, ReceiverOf
<1>6. a \in Nat
  BY <1>2
<1>7. Receive(c, seg) = WithReceiver(c, v)
  BY DEF Receive, WithReceiver
<1> HIDE DEF isn, cap, total, n, e
<1>8. /\ RcvGood(v, isn, cap, total) /\ Within(v, n, e, total)
      /\ Received(c.receiver) <= Received(v)
      /\ c.receiver.syn => v.syn
      /\ seg.syn => v.syn
  BY <1>1, <1>2, <1>3, <1>4, <1>5, <1>6, ReceiveGood
<1> HIDE DEF v
<1>9. /\ Keeps(p, c, WithReceiver(c, v), d) /\ WithReceiver(c, v).sender = c.sender
      /\ WithReceiver(c, v).receiver = v
  <2>1. ReceiverFits(p, c, v, d)
    BY Zenon, <1>8 DEF ReceiverFits, isn, cap, total, n, e
  <2> QED BY <2>1, ReceiverChange
<1> QED BY <1>7, <1>8, <1>9

\* The header send_segments() completes tells the truth.
LEMMA StampFacts ==
    ASSUME StreamsFit, NEW p \in Peers, NEW c, NEW d, ConnGood(p, c, d), Opened(p, c),
           NEW seg \in Segment, OfStream(seg, c.sender)
    PROVE  Stamp(c, seg) \in Segment /\ Truthful(p, Stamp(c, seg), c)
<1> DEFINE v == c.receiver
           isn == Cfg[Other(p)].isn
           g == Stamp(c, seg)
           total == ToSend[Other(p)]
<1>1. RcvGood(v, isn, Cfg[p].recv_capacity, total) /\ v \in TCPReceiverState
  BY DEF ConnGood, ReceiverOf, RcvGood
<1>2. /\ isn \in WrappingInt32 /\ Received(v) \in Nat /\ total \in Nat /\ total < SIZE_MAX
      /\ Cfg[p].recv_capacity \in Nat
  BY ConnFacts, PeerFacts DEF StreamsFit
<1>3. CASE v.syn
  <2> DEFINE x == StreamOut(v).totin + 1 + Bit(StreamOut(v).isInputEnd)
             win == WindowSize(v) % (WIN_MAX + 1)
  <2>1. v.isn = isn /\ Bit(v.syn) = 1
    BY <1>1, <1>3 DEF RcvGood, Bit
  <2>2. x = Received(v)
    BY <2>1 DEF Received
  <2>3. Ackno(v) = Wrap(x, isn)
    BY <2>1 DEF Ackno
  <2>4. Wrap(x, isn) \in WrappingInt32
    BY <1>2, <2>2, WrapType
  <2>5. win \in Nat
    <3>1. v.capacity \in Nat /\ StreamOut(v).buff \in Seq(Nat)
      BY <1>1 DEF TCPReceiverState, ReassemblerState, ByteStreamState, StreamOut
    <3>2. BufferSize(StreamOut(v)) \in Nat
      BY <3>1, LenProperties DEF BufferSize
    <3>3. WindowSize(v) \in Int
      BY <3>1, <3>2 DEF WindowSize
    <3> QED BY <3>3, ConnectionAssumption
  <2> HIDE DEF x, win
  <2>6. g = [seg EXCEPT !.ack = TRUE, !.ackno = Wrap(x, isn), !.win = win]
    BY <1>3, <2>3 DEF Stamp, HasAckno, win
  <2>7. /\ g \in Segment /\ g.ack = TRUE /\ g.ackno = Wrap(x, isn)
        /\ g.syn = seg.syn /\ g.fin = seg.fin /\ g.seqno = seg.seqno /\ g.payload = seg.payload
    BY Zenon, <2>4, <2>5, <2>6 DEF Segment
  <2> HIDE DEF g
  <2>8. InStream(g, c.sender)
    BY <2>7 DEF OfStream, InStream, Numbered
  <2>9. x \in 0 .. Received(v)
    BY <1>2, <2>2
  <2>10. Truthful(p, g, c)
    BY <2>7, <2>8, <2>9 DEF Truthful
  <2> QED BY <2>7, <2>10 DEF g
<1>4. CASE ~v.syn
  <2>1. g = seg /\ p \in Openers
    BY <1>4 DEF Stamp, HasAckno, Opened
  <2> QED BY <2>1 DEF OfStream, Bare, Truthful
<1> QED BY <1>3, <1>4

\* A connection with another queue, other flags and another clock.
WithRest(c, q, b, l, n) ==
    [c EXCEPT !.segments_out = q, !.active = b, !.linger_after_streams_finish = l,
              !.time_since_last = n]

\* A queue that holds nothing but the truth.
TruthfulQueue(p, c, q) == q \in Seq(Segment) /\ \A i \in 1 .. Len(q) : Truthful(p, q[i], c)

\* The invariant does not depend on them, except for what is queued.
LEMMA OthersChange ==
    ASSUME StreamsFit, NEW p \in Peers, NEW c, NEW d, ConnGood(p, c, d),
           NEW q, TruthfulQueue(p, c, q), NEW b \in BOOLEAN, NEW l \in BOOLEAN, NEW n \in Nat
    PROVE  LET u == WithRest(c, q, b, l, n)
           IN  /\ ConnGood(p, u, d) /\ Grows(c, u) /\ u.active = b /\ u.segments_out = q
               /\ u.sender = c.sender /\ u.receiver = c.receiver
<1> DEFINE u == WithRest(c, q, b, l, n)
<1> USE DEF TruthfulQueue
<1>1. c \in TCPConnectionState
  BY DEF ConnGood
<1>2. /\ u \in TCPConnectionState /\ u.sender = c.sender /\ u.receiver = c.receiver
      /\ u.segments_out = q /\ u.active = b
  BY Zenon, <1>1 DEF TCPConnectionState, WithRest
<1>3. Received(c.receiver) \in Nat /\ Extends(c.sender, c.sender)
  BY ConnFacts
<1> HIDE DEF u
<1>4. Grows(c, u)
  BY <1>2, <1>3 DEF Grows
<1>5. SenderOf(p, u) /\ ReceiverOf(p, u, d)
  BY <1>2 DEF ConnGood, SenderOf, ReceiverOf, Outbound
<1>6. \A i \in 1 .. Len(u.segments_out) : Truthful(p, u.segments_out[i], u)
  BY <1>2 DEF Truthful
<1>7. Opened(p, u) \/ Quiet(u)
  BY <1>2 DEF ConnGood, Opened, Quiet
<1>8. ZeroIsNoAckno => Acked(u.sender) <= Received(d.receiver)
  BY <1>2 DEF ConnGood
<1>9. ConnGood(p, u, d)
  BY <1>2, <1>5, <1>6, <1>7, <1>8 DEF ConnGood
<1> QED BY <1>2, <1>4, <1>9 DEF u

\* What an operation of p that ends in c leaves behind.
Outcome(p, c, u, d) == ConnState(p, u, d) /\ Grows(c, u)

\* The queue of the sender, with complete headers.
Stamped(c) == [i \in 1 .. Len(c.sender.segments_out) |-> Stamp(c, c.sender.segments_out[i])]

\* The headers send_segments() completes are truthful.
LEMMA StampedFacts ==
    ASSUME StreamsFit, NEW p \in Peers, NEW c, NEW d, ConnGood(p, c, d)
    PROVE  /\ Stamped(c) \in Seq(Segment)
           /\ \A i \in 1 .. Len(Stamped(c)) : Truthful(p, Stamped(c)[i], c)
<1> DEFINE out == c.sender.segments_out
           q == Stamped(c)
<1>1. SenderWell(c.sender) /\ out \in Seq(Segment) /\ Len(out) \in Nat
  BY ConnFacts, Fields, LenProperties
<1>2. ASSUME NEW i \in 1 .. Len(out)
      PROVE  Stamp(c, out[i]) \in Segment /\ Truthful(p, Stamp(c, out[i]), c)
  <2>1. out[i] \in Segment /\ OfStream(out[i], c.sender)
    BY <1>1 DEF SenderWell, Queued
  <2>2. out # <<>>
    BY <1>1
  <2>3. Opened(p, c)
    BY <2>2 DEF ConnGood, Quiet
  <2> QED BY <2>1, <2>3, StampFacts
<1>3. q \in Seq(Segment) /\ Len(q) = Len(out)
  BY <1>1, <1>2 DEF Stamped
<1>4. \A i \in 1 .. Len(q) : q[i] = Stamp(c, out[i])
  BY <1>1, <1>3 DEF Stamped
<1> QED BY <1>2, <1>3, <1>4

\* A connection that is done is complete: fill_window() would have sent the FIN.
LEMMA FinishedIsComplete ==
    ASSUME StreamsFit, NEW p \in Peers, NEW c, NEW d, ConnGood(p, c, d),
           Settled(c.sender), Finished(c)
    PROVE  Complete(c)
<1> DEFINE s == c.sender
<1>1. Inbound(c).isInputEnd /\ StreamEof(s.stream) /\ s.outgoing_bytes = 0
  BY DEF Finished, Outbound
<1>2. s.syn
  BY <1>1 DEF ConnGood, SenderOf, Outbound, StreamEof
<1>3. SenderWell(s) /\ s.win_size \in Nat /\ s.fin \in BOOLEAN
  BY ConnFacts, Fields
<1>4. FillTarget(s) >= 1 /\ FillTarget(s) \in Nat
  BY <1>3 DEF FillTarget
<1>5. s.fin
  BY <1>1, <1>2, <1>3, <1>4 DEF Settled
<1> QED BY <1>1, <1>5 DEF Complete

\* send_segments().
LEMMA ConnSend ==
    ASSUME StreamsFit, NEW p \in Peers, NEW c, NEW d, ConnGood(p, c, d), View(p, d),
           Settled(c.sender), c.active \/ Inbound(c).error
    PROVE  Outcome(p, c, SendSegments(c), d)
<1> DEFINE s == c.sender
           t == [s EXCEPT !.segments_out = <<>>]
           a == Acked(s)
           w == WithSender(c, t)
           q == c.segments_out \o Stamped(c)
           b == c.active /\ ~Finished(c)
           l == c.linger_after_streams_finish
                  /\ ~(Inbound(c).isInputEnd /\ ~StreamEof(Outbound(c)))
           n == c.time_since_last
           u == WithRest(w, q, b, l, n)
<1>1. c \in TCPConnectionState /\ a \in Nat /\ s \in Good(a, s)
  BY Zenon, ConnFacts DEF ConnGood
<1>2. /\ t \in Good(a, s) /\ t.next_seqno = s.next_seqno /\ t.segments_out = <<>>
      /\ t.stream = s.stream /\ t.syn = s.syn /\ t.fin = s.fin
      /\ t.outgoing_bytes = s.outgoing_bytes /\ t.win_size = s.win_size
  BY <1>1, TakeGood
<1>3. SendSegments(c) = u
  <2>1. c.sender \in TCPSenderState
    BY <1>1 DEF TCPConnectionState
  <2> QED BY Zenon, <1>1, <2>1
             DEF SendSegments, WithRest, WithSender, Stamped, TCPConnectionState
<1> HIDE DEF t
<1>4. Keeps(p, c, w, d) /\ w.sender = t /\ w.receiver = c.receiver
  <2>1. (ZeroIsNoAckno => a <= Received(d.receiver)) /\ Received(d.receiver) \in Nat
    BY DEF ConnGood, View
  <2>2. Opened(p, c) \/ (t.next_seqno = 0 /\ t.segments_out = <<>>)
    BY <1>2 DEF ConnGood, Quiet
  <2>3. s.syn => t.syn
    BY <1>2
  <2> QED BY <1>1, <1>2, <2>1, <2>2, <2>3, GoodChange
<1> HIDE DEF w
<1>5. q \in Seq(Segment) /\ \A i \in 1 .. Len(q) : Truthful(p, q[i], w)
  <2> DEFINE x == c.segments_out
             y == Stamped(c)
  <2>1. /\ x \in Seq(Segment) /\ y \in Seq(Segment)
        /\ \A i \in 1 .. Len(x) : Truthful(p, x[i], c)
        /\ \A i \in 1 .. Len(y) : Truthful(p, y[i], c)
    BY Zenon, <1>1, StampedFacts DEF ConnGood, TCPConnectionState
  <2> HIDE DEF x, y
  <2>2. x \o y \in Seq(Segment) /\ Len(x) \in Nat /\ Len(y) \in Nat /\ Len(x \o y) = Len(x) + Len(y)
    BY <2>1
  <2>3. ASSUME NEW i \in 1 .. Len(x \o y)
        PROVE  Truthful(p, (x \o y)[i], w)
    <3>1. (x \o y)[i] \in Segment
      BY <2>2
    <3>2. CASE i <= Len(x)
      <4>1. (x \o y)[i] = x[i] /\ i \in 1 .. Len(x)
        BY <2>1, <2>2, <3>2
      <4> QED BY <1>4, <2>1, <3>1, <4>1, TruthfulGrows DEF Keeps
    <3>3. CASE i > Len(x)
      <4>1. (x \o y)[i] = y[i - Len(x)] /\ i - Len(x) \in 1 .. Len(y)
        BY <2>1, <2>2, <3>3
      <4> QED BY Zenon, <1>4, <2>1, <3>1, <4>1, TruthfulGrows DEF Keeps
    <3> QED BY <2>2, <3>2, <3>3
  <2> QED BY <2>2, <2>3 DEF x, y
<1>6. n \in Nat
  BY <1>1 DEF TCPConnectionState
<1>7. b \in BOOLEAN /\ l \in BOOLEAN
  OBVIOUS
<1>8. Finished(c) => Complete(c)
  BY FinishedIsComplete
<1>9. b \/ Inbound(c).error \/ Complete(c)
  BY <1>8
<1> HIDE DEF q, b, l, n
<1>10. /\ ConnGood(p, u, d) /\ Grows(w, u) /\ u.active = b
       /\ u.sender = w.sender /\ u.receiver = w.receiver
  <2>1. ConnGood(p, w, d)
    BY Zenon, <1>4 DEF Keeps
  <2>2. TruthfulQueue(p, w, q) /\ b \in BOOLEAN /\ l \in BOOLEAN /\ n \in Nat
    BY Zenon, <1>5, <1>6, <1>7 DEF TruthfulQueue
  <2> QED BY <2>1, <2>2, OthersChange
<1> HIDE DEF u
<1>11. Grows(c, u)
  BY <1>4, <1>10, GrowsOn DEF Keeps
<1>12. Settled(u.sender)
  BY <1>2, <1>4, <1>10, SettledSame
<1>13. u.active \/ Inbound(u).error \/ Complete(u)
  BY <1>2, <1>4, <1>9, <1>10 DEF Inbound, Complete
<1> QED BY <1>3, <1>10, <1>11, <1>12, <1>13 DEF Outcome, ConnState

\* fill_window() and send_segments().
LEMMA FillAndSend ==
    ASSUME StreamsFit, NEW p \in Peers, NEW c, NEW d, ConnGood(p, c, d), View(p, d),
           Opened(p, c), c.active \/ Inbound(c).error
    PROVE  Outcome(p, c, SendSegments(Fill(c)), d)
<1> DEFINE u == Fill(c)
<1>1. Keeps(p, c, u, d) /\ Settled(u.sender) /\ u.receiver = c.receiver
  BY ConnFill
<1> HIDE DEF u
<1>2. Outcome(p, u, SendSegments(u), d)
  BY <1>1, ConnSend DEF Keeps, Inbound
<1> QED BY <1>1, <1>2, GrowsOn DEF Keeps, Outcome, u

\* send_empty_segment() and send_segments().
LEMMA ReplyAndSend ==
    ASSUME StreamsFit, NEW p \in Peers, NEW c, NEW d, ConnGood(p, c, d), View(p, d),
           Opened(p, c), c.active, Settled(c.sender)
    PROVE  Outcome(p, c, SendSegments(Reply(c)), d)
<1> DEFINE u == Reply(c)
<1>1. Keeps(p, c, u, d) /\ Settled(u.sender)
  BY Zenon, ConnReply
<1> HIDE DEF u
<1>2. Outcome(p, u, SendSegments(u), d)
  BY ZenonT(30), <1>1, ConnSend DEF Keeps
<1> QED BY <1>1, <1>2, GrowsOn DEF Keeps, Outcome, u

\* A step whose outcome is the outcome of what an operation left.
LEMMA OutcomeOn ==
    ASSUME NEW p, NEW c, NEW u, NEW w, NEW d, Keeps(p, c, u, d), Outcome(p, u, w, d)
    PROVE  Outcome(p, c, w, d)
BY GrowsOn DEF Keeps, Outcome

\* A call that changes nothing.
LEMMA OutcomeSame ==
    ASSUME StreamsFit, NEW p \in Peers, NEW c, NEW d, ConnState(p, c, d)
    PROVE  Outcome(p, c, c, d)
<1>1. ConnGood(p, c, d)
  BY DEF ConnState
<1>2. Received(c.receiver) \in Nat /\ Extends(c.sender, c.sender)
  BY <1>1, ConnFacts
<1> QED BY <1>2 DEF Outcome, Grows
-----------------------------------------------------------------------------
(***************************************************************************)
(* The calls of the application and the owner.                             *)
(***************************************************************************)
\* connect().
LEMMA ConnectOutcome ==
    ASSUME StreamsFit, NEW p \in Peers, NEW c, NEW d, ConnState(p, c, d), View(p, d),
           p \in Openers, InListen(c)
    PROVE  Outcome(p, c, ConnConnect(c), d)
<1>1. ConnGood(p, c, d) /\ Opened(p, c)
  BY DEF ConnState, Opened
<1>2. SenderWell(c.sender) /\ c.sender.stream.totin \in Nat
  BY ZenonT(30), <1>1, ConnFacts DEF Outbound
<1>3. c.sender.fin => c.sender.next_seqno = c.sender.stream.totin + 2
  BY Zenon, <1>2 DEF SenderWell, FinIsLast
<1>4. ~c.sender.fin
  BY <1>2, <1>3 DEF InListen
<1>5. c.active \/ Inbound(c).error
  BY <1>4 DEF ConnState, Complete
<1> QED BY <1>1, <1>5, FillAndSend DEF ConnConnect

\* Once the handshake has begun a side may send.
LEMMA BegunIsOpened ==
    ASSUME NEW p, NEW c, NEW d, ConnGood(p, c, d), ~InListen(c)
    PROVE  Opened(p, c)
BY DEF ConnGood, Quiet, InListen

\* A side that has sent anything has sent its SYN.
LEMMA BegunHasSyn ==
    ASSUME StreamsFit, NEW p \in Peers, NEW c, NEW d, ConnGood(p, c, d), ~InListen(c)
    PROVE  c.sender.syn
<1> DEFINE s == c.sender
<1>1. SenderWell(s) /\ s.syn \in BOOLEAN /\ s.fin \in BOOLEAN
  BY ConnFacts, Fields
<1>2. /\ s.next_seqno = s.stream.totout + Bit(s.syn) + Bit(s.fin)
      /\ ~s.syn => s.stream.totout = 0 /\ ~s.fin
  BY <1>1 DEF SenderWell, InPlace
<1>3. ~s.syn => s.next_seqno = 0
  BY <1>2 DEF Bit
<1> QED BY <1>1, <1>3 DEF InListen

\* write() of the next byte of the stream.
LEMMA WriteOutcome ==
    ASSUME StreamsFit, NEW p \in Peers, NEW c, NEW d, ConnState(p, c, d), View(p, d),
           c.active, ~InListen(c), ~Outbound(c).isInputEnd, Outbound(c).totin < ToSend[p]
    PROVE  Outcome(p, c, ConnWrite(c, <<Outbound(c).totin>>), d)
<1> DEFINE s == c.sender
           n == s.stream.totin
           data == <<n>>
           a == Acked(s)
           t == [s EXCEPT !.stream = StreamWrite(@, data)]
           u == WithSender(c, t)
<1>1. ConnGood(p, c, d) /\ Opened(p, c)
  BY BegunIsOpened DEF ConnState
<1>2. /\ a \in Nat /\ s \in Good(a, s) /\ c \in TCPConnectionState /\ n \in Nat
      /\ s \in TCPSenderState
  BY <1>1, ConnFacts DEF ConnGood, Outbound
<1>3. data \in Seq(Nat) /\ Len(data) = 1 /\ data # <<>> /\ FromStream(data, n)
  BY <1>2 DEF FromStream
<1>4. /\ t \in Good(a, t) /\ Extends(s, t) /\ t.stream.totin <= n + 1
      /\ ~t.stream.isInputEnd
  <2>1. ~s.stream.isInputEnd
    BY DEF Outbound
  <2>2. t = [s EXCEPT !.stream = StreamWrite(@, data)]
    OBVIOUS
  <2> HIDE DEF data, t
  <2>3. /\ t \in Good(a, t) /\ Extends(s, t) /\ t.stream.totin <= n + Len(data)
        /\ ~t.stream.isInputEnd
    BY Zenon, <1>2, <1>3, <2>1, <2>2, WriteGood
  <2> QED BY <1>3, <2>3
<1>5. ConnWrite(c, <<Outbound(c).totin>>) = SendSegments(Fill(u))
  BY <1>2, <1>3 DEF ConnWrite, WithSender, Outbound, TCPConnectionState
<1> HIDE DEF t
<1>6. SenderWell(t) /\ Acked(t) \in Nat /\ Acked(t) <= a
  BY <1>2, <1>4, GoodIsAcked DEF Good
<1>7. ZeroIsNoAckno => Acked(t) <= Received(d.receiver)
  <2>1. (ZeroIsNoAckno => a <= Received(d.receiver)) /\ Received(d.receiver) \in Nat
    BY <1>1 DEF ConnGood, View
  <2> QED BY <1>2, <1>6, <2>1, SMTT(30)
<1>8. t.stream.totin <= ToSend[p]
  <2>1. t.stream.totin \in Nat /\ ToSend[p] \in Nat /\ n < ToSend[p]
    BY ZenonT(30), <1>4, PeerFacts DEF Extends, Outbound
  <2> QED BY <1>2, <1>4, <2>1, SMTT(30)
<1>9. Keeps(p, c, u, d) /\ u.receiver = c.receiver
  <2>1. /\ SenderWell(t) /\ Extends(c.sender, t)
        /\ t.stream.isInputEnd => t.stream.totin = ToSend[p] /\ t.syn
    BY Zenon, <1>4, <1>6
  <2>2. SenderFits(p, c, t, d)
    BY Zenon, <1>1, <1>7, <1>8, <2>1 DEF SenderFits
  <2> QED BY <1>1, <2>2, SenderChange
<1> HIDE DEF u
<1>10. Outcome(p, u, SendSegments(Fill(u)), d)
  BY Zenon, <1>1, <1>9, FillAndSend DEF Keeps, Opened
<1> QED BY <1>5, <1>9, <1>10, OutcomeOn

\* end_input_stream() once the whole stream is written.
LEMMA EndOutcome ==
    ASSUME StreamsFit, NEW p \in Peers, NEW c, NEW d, ConnState(p, c, d), View(p, d),
           c.active, ~InListen(c), ~Outbound(c).isInputEnd, Outbound(c).totin = ToSend[p]
    PROVE  Outcome(p, c, ConnEndInputStream(c), d)
<1> DEFINE s == c.sender
           a == Acked(s)
           t == [s EXCEPT !.stream = EndInput(@)]
           u == WithSender(c, t)
<1>1. ConnGood(p, c, d) /\ Opened(p, c) /\ s.syn
  BY BegunIsOpened, BegunHasSyn DEF ConnState
<1>2. a \in Nat /\ s \in Good(a, s) /\ c \in TCPConnectionState /\ s \in TCPSenderState
  BY <1>1, ConnFacts DEF ConnGood
<1>3. /\ t \in Good(a, t) /\ Extends(s, t) /\ t.stream.totin = s.stream.totin
      /\ t.syn = s.syn
  <2>1. ~s.stream.isInputEnd
    BY DEF Outbound
  <2> QED BY <1>2, <2>1, EndGood
<1>4. ConnEndInputStream(c) = SendSegments(Fill(u))
  BY <1>2 DEF ConnEndInputStream, WithSender, TCPConnectionState
<1> HIDE DEF t
<1>5. SenderWell(t) /\ Acked(t) \in Nat /\ Acked(t) <= a
  BY <1>2, <1>3, GoodIsAcked DEF Good
<1>6. ZeroIsNoAckno => Acked(t) <= Received(d.receiver)
  <2>1. (ZeroIsNoAckno => a <= Received(d.receiver)) /\ Received(d.receiver) \in Nat
    BY <1>1 DEF ConnGood, View
  <2> QED BY <1>2, <1>5, <2>1, SMTT(30)
<1>7. t.stream.totin = ToSend[p] /\ t.stream.totin <= ToSend[p] /\ t.syn
  BY <1>1, <1>3, PeerFacts, SMTT(30) DEF Outbound
<1>8. Keeps(p, c, u, d) /\ u.receiver = c.receiver
  <2>1. /\ SenderWell(t) /\ Extends(c.sender, t)
        /\ t.stream.isInputEnd => t.stream.totin = ToSend[p] /\ t.syn
    BY Zenon, <1>3, <1>5, <1>7
  <2>2. SenderFits(p, c, t, d)
    BY Zenon, <1>1, <1>6, <1>7, <2>1 DEF SenderFits
  <2> QED BY <1>1, <2>2, SenderChange
<1> HIDE DEF u
<1>9. Outcome(p, u, SendSegments(Fill(u)), d)
  BY ZenonT(30), <1>1, <1>8, FillAndSend DEF Keeps, Opened
<1> QED BY <1>4, <1>8, <1>9, OutcomeOn

\* The application reads all there is.
LEMMA ReadOutcome ==
    ASSUME StreamsFit, NEW p \in Peers, NEW c, NEW d, ConnState(p, c, d)
    PROVE  Outcome(p, c, [c EXCEPT !.receiver.reassembler.output =
                                       StreamRead(@, BufferSize(@))], d)
<1> DEFINE v == c.receiver
           k == BufferSize(StreamOut(v))
           s == [v.reassembler EXCEPT !.output = StreamRead(@, k)]
           x == WithReassembler(v, s)
           u == WithReceiver(c, x)
           isn == Cfg[Other(p)].isn
           cap == Cfg[p].recv_capacity
           total == ToSend[Other(p)]
           n == Outbound(d).totin
           e == Outbound(d).isInputEnd
<1>1. ConnGood(p, c, d)
  BY DEF ConnState
<1>2. RcvGood(v, isn, cap, total) /\ Within(v, n, e, total)
  BY <1>1 DEF ConnGood, ReceiverOf
<1>3. v \in TCPReceiverState /\ StreamOut(v).buff \in Seq(Nat) /\ c \in TCPConnectionState
  BY Zenon, <1>1, <1>2
     DEF RcvGood, TCPReceiverState, ReassemblerState, ByteStreamState, StreamOut,
                    ConnGood
<1>4. k \in Nat /\ k <= k
  BY <1>3, LenProperties DEF BufferSize
<1>5. cap \in Nat /\ total \in Nat /\ total < SIZE_MAX /\ Received(v) \in Nat
  BY <1>1, ConnFacts, PeerFacts DEF StreamsFit
<1>6. /\ RcvGood(x, isn, cap, total) /\ Within(x, n, e, total)
      /\ Received(x) = Received(v) /\ x.syn = v.syn
      /\ StreamOut(x).isInputEnd = StreamOut(v).isInputEnd
      /\ StreamOut(x).error = StreamOut(v).error
  <2> HIDE DEF isn, cap, total, n, e, v, k
  <2>1. k <= BufferSize(StreamOut(v))
    BY <1>4 DEF k
  <2> QED BY <1>2, <1>4, <1>5, <2>1, ReceiverRead
<1>7. u = [c EXCEPT !.receiver.reassembler.output = StreamRead(@, BufferSize(@))]
  BY <1>3 DEF WithReassembler, WithReceiver, StreamOut, TCPReceiverState, TCPConnectionState
<1> HIDE DEF x
<1>8. Keeps(p, c, u, d) /\ u.sender = c.sender /\ u.receiver = x
  <2>1. Received(v) <= Received(x) /\ (v.syn => x.syn)
    BY <1>5, <1>6, SMTT(30)
  <2>2. ReceiverFits(p, c, x, d)
    BY Zenon, <1>6, <2>1 DEF ReceiverFits
  <2> QED BY <1>1, <2>2, ReceiverChange
<1> HIDE DEF u
<1>9. ConnState(p, u, d)
  BY Zenon, <1>6, <1>8 DEF ConnState, Keeps, Complete, Inbound
<1> QED BY <1>7, <1>8, <1>9 DEF Outcome, Keeps

\* A connection that fails: both streams are marked, and it is no longer active.
FailedWith(c, q, n) ==
    LET t == [c.sender EXCEPT !.stream = SetError(@)]
        s == [c.receiver.reassembler EXCEPT !.output = SetError(@)]
        u == WithReceiver(WithSender(c, t), WithReassembler(c.receiver, s))
    IN  WithRest(u, q, FALSE, c.linger_after_streams_finish, n)

\* Failing, by a RST or by too many retransmissions, is a sound outcome.
LEMMA FailOutcome ==
    ASSUME StreamsFit, NEW p \in Peers, NEW c, NEW d, ConnGood(p, c, d), View(p, d),
           Settled(c.sender), NEW q \in Seq(Segment), NEW n \in Nat,
           \A i \in 1 .. Len(q) : Truthful(p, q[i], c)
    PROVE  Outcome(p, c, FailedWith(c, q, n), d)
<1> DEFINE t == [c.sender EXCEPT !.stream = SetError(@)]
           v == c.receiver
           s == [v.reassembler EXCEPT !.output = SetError(@)]
           x == WithReassembler(v, s)
           w == WithSender(c, t)
           u == WithReceiver(w, x)
           l == c.linger_after_streams_finish
           b == FALSE
           z == WithRest(u, q, b, l, n)
           a == Acked(c.sender)
           isn == Cfg[Other(p)].isn
           cap == Cfg[p].recv_capacity
           total == ToSend[Other(p)]
           m == Outbound(d).totin
           e == Outbound(d).isInputEnd
<1>1. FailedWith(c, q, n) = z
  BY DEF FailedWith
<1>2. a \in Nat /\ c.sender \in Good(a, c.sender) /\ l \in BOOLEAN /\ b \in BOOLEAN
  BY Zenon, ConnFacts DEF ConnGood, TCPConnectionState
<1>3. /\ t \in Good(a, c.sender) /\ Settled(t) /\ t.next_seqno = c.sender.next_seqno
      /\ t.syn = c.sender.syn /\ t.segments_out = c.sender.segments_out
  BY <1>2, SenderError
<1> HIDE DEF t, b
<1>4. Keeps(p, c, w, d) /\ w.sender = t /\ w.receiver = v
  <2>1. (ZeroIsNoAckno => a <= Received(d.receiver)) /\ Received(d.receiver) \in Nat
    BY Zenon DEF ConnGood, View
  <2>2. Opened(p, c) \/ (t.next_seqno = 0 /\ t.segments_out = <<>>)
    BY <1>3 DEF ConnGood, Quiet
  <2>3. c.sender.syn => t.syn
    BY <1>3
  <2> QED BY <1>2, <1>3, <2>1, <2>2, <2>3, GoodChange, ZenonT(30)
<1> HIDE DEF w
<1>5. RcvGood(v, isn, cap, total) /\ Within(v, m, e, total)
  BY DEF ConnGood, ReceiverOf
<1>6. cap \in Nat /\ total \in Nat /\ total < SIZE_MAX /\ Received(v) \in Nat
  BY ConnFacts, PeerFacts DEF StreamsFit
<1>7. /\ RcvGood(x, isn, cap, total) /\ Within(x, m, e, total)
      /\ Received(x) = Received(v) /\ x.syn = v.syn /\ StreamOut(x).error = TRUE
  <2> HIDE DEF isn, cap, total, m, e, v
  <2> QED BY Zenon, <1>5, <1>6, ReceiverError
<1> HIDE DEF x
<1>8. Keeps(p, w, u, d) /\ u.sender = t /\ u.receiver = x
  <2>1. Received(x) = Received(w.receiver) /\ Received(x) \in Nat /\ (w.receiver.syn => x.syn)
    BY Zenon, <1>4, <1>6, <1>7
  <2>2. Received(w.receiver) <= Received(x)
    BY <2>1
  <2>3. ConnGood(p, w, d)
    BY Zenon, <1>4 DEF Keeps
  <2>4. Keeps(p, w, u, d) /\ u.sender = w.sender /\ u.receiver = x
    <3>1. ReceiverFits(p, w, x, d)
      BY Zenon, <1>7, <2>1, <2>2 DEF ReceiverFits
    <3> QED BY <2>3, <3>1, ReceiverChange
  <2> QED BY Zenon, <1>4, <2>4
<1> HIDE DEF u
<1>9. Grows(c, u)
  BY <1>4, <1>8, GrowsOn DEF Keeps
<1>10. \A i \in 1 .. Len(q) : Truthful(p, q[i], u)
  <2>1. ASSUME NEW i \in 1 .. Len(q) PROVE Truthful(p, q[i], u)
    <3>1. q[i] \in Segment
      OBVIOUS
    <3> QED BY <1>9, <3>1, TruthfulGrows
  <2> QED BY <2>1
<1>11. /\ ConnGood(p, z, d) /\ Grows(u, z)
       /\ z.sender = u.sender /\ z.receiver = u.receiver
  <2>1. ConnGood(p, u, d)
    BY Zenon, <1>8 DEF Keeps
  <2>2. TruthfulQueue(p, u, q) /\ l \in BOOLEAN /\ b \in BOOLEAN
    BY Zenon, <1>2, <1>10 DEF TruthfulQueue
  <2> HIDE DEF v, l, a, isn, cap, total, m, e
  <2> QED BY <2>1, <2>2, OthersChange
<1> HIDE DEF z
<1>12. Grows(c, z)
  BY <1>9, <1>11, GrowsOn
<1>13. Settled(z.sender) /\ Inbound(z).error = TRUE
  BY ZenonT(30), <1>3, <1>7, <1>8, <1>11 DEF Inbound
<1> QED BY <1>1, <1>11, <1>12, <1>13 DEF Outcome, ConnState

\* While nothing was sent, nothing is outstanding.
LEMMA NothingOutstanding ==
    ASSUME NEW s, SenderWell(s), s.next_seqno = 0
    PROVE  s.outgoing = <<>>
<1>1. s.outgoing \in Seq(Entry)
  BY Fields
<1>2. SUFFICES ASSUME s.outgoing # <<>> PROVE FALSE
  OBVIOUS
<1>3. 1 \in 1 .. Len(s.outgoing)
  BY <1>1, <1>2, EmptySeq
<1>4. s.outgoing[1] \in Entry
  BY <1>1, <1>3
<1>5. s.outgoing[1].key \in Nat
  BY <1>4 DEF Entry
<1>6. EndOf(s.outgoing[1]) > s.outgoing[1].key /\ EndOf(s.outgoing[1]) <= 0
  BY <1>3 DEF SenderWell, ContiguousFlight, NonePast
<1>7. EndOf(s.outgoing[1]) \in Nat
  BY <1>4, <1>5, SegmentLength DEF EndOf, Entry
<1> QED BY <1>5, <1>6, <1>7

\* tick().
LEMMA TickOutcome ==
    ASSUME StreamsFit, NEW p \in Peers, NEW c, NEW d, ConnState(p, c, d), View(p, d),
           NEW ms \in Nat
    PROVE  Outcome(p, c, ConnTick(c, ms), d)
<1> DEFINE s == c.sender
           a == Acked(s)
           t == SenderTick(s, ms)
           w == WithSender(c, t)
           q == c.segments_out
           l == c.linger_after_streams_finish
           n == c.time_since_last + ms
           u == WithRest(w, q, c.active, l, n)
           rst == [EmptySegment(0) EXCEPT !.rst = TRUE]
<1>1. ConnGood(p, c, d) /\ Settled(s)
  BY DEF ConnState
<1>2. /\ c \in TCPConnectionState /\ a \in Nat /\ s \in Good(a, s) /\ SenderWell(s)
      /\ n \in Nat /\ l \in BOOLEAN /\ q \in Seq(Segment) /\ c.active \in BOOLEAN
  <2>1. c \in TCPConnectionState
    BY Zenon, <1>1 DEF ConnGood
  <2>2. a \in Nat /\ s \in Good(a, s) /\ SenderWell(s)
    BY Zenon, <1>1, ConnFacts
  <2>3. /\ c.time_since_last \in Nat /\ l \in BOOLEAN /\ q \in Seq(Segment)
        /\ c.active \in BOOLEAN
    BY <2>1 DEF TCPConnectionState
  <2>4. n \in Nat
    BY <2>3
  <2> QED BY Zenon, <2>1, <2>2, <2>3, <2>4
<1>3. /\ t \in Good(a, s) /\ t.next_seqno = s.next_seqno
      /\ t.outgoing_bytes = s.outgoing_bytes /\ t.win_size = s.win_size
      /\ t.stream = s.stream /\ t.syn = s.syn /\ t.fin = s.fin
      /\ s.outgoing = <<>> => t.segments_out = s.segments_out
  <2>1. a \in Nat /\ s \in Good(a, s)
    BY Zenon, <1>2
  <2> HIDE DEF s, a
  <2> QED BY <2>1, TickGood, SMTT(30)
<1>4. u = [c EXCEPT !.time_since_last = @ + ms, !.sender = SenderTick(@, ms)]
  BY Zenon, <1>2 DEF WithRest, WithSender, TCPConnectionState
<1> HIDE DEF t
<1>5. Keeps(p, c, w, d) /\ w.sender = t /\ w.receiver = c.receiver
  <2>1. (ZeroIsNoAckno => a <= Received(d.receiver)) /\ Received(d.receiver) \in Nat
    BY <1>1 DEF ConnGood, View
  <2>2. Opened(p, c) \/ (t.next_seqno = 0 /\ t.segments_out = <<>>)
    BY Zenon, <1>1, <1>2, <1>3, NothingOutstanding DEF ConnGood, Quiet
  <2>3. s.syn => t.syn
    BY <1>3
  <2> QED BY <1>1, <1>2, <1>3, <2>1, <2>2, <2>3, GoodChange, ZenonT(30)
<1> HIDE DEF w
<1>6. \A i \in 1 .. Len(q) : Truthful(p, q[i], w)
  <2>1. ASSUME NEW i \in 1 .. Len(q) PROVE Truthful(p, q[i], w)
    <3>1. q[i] \in Segment /\ Truthful(p, q[i], c)
      <4>1. q \in Seq(Segment)
        BY Zenon, <1>2
      <4>2. Truthful(p, q[i], c)
        BY Zenon, <1>1 DEF ConnGood
      <4> HIDE DEF q
      <4> QED BY <4>1, <4>2
    <3> QED BY <1>5, <3>1, TruthfulGrows DEF Keeps
  <2> QED BY <2>1
<1>7. /\ ConnGood(p, u, d) /\ Grows(w, u) /\ u.active = c.active /\ u.segments_out = q
      /\ u.sender = w.sender /\ u.receiver = w.receiver
  <2>1. ConnGood(p, w, d)
    BY Zenon, <1>5 DEF Keeps
  <2>2. TruthfulQueue(p, w, q) /\ l \in BOOLEAN /\ n \in Nat /\ c.active \in BOOLEAN
    BY Zenon, <1>2, <1>6 DEF TruthfulQueue
  <2> HIDE DEF s, a, q, l, n, rst
  <2> QED BY <2>1, <2>2, OthersChange
<1> HIDE DEF u
<1>8. Keeps(p, c, u, d) /\ Settled(u.sender)
  BY <1>1, <1>3, <1>5, <1>7, GrowsOn, SettledSame DEF Keeps
<1>9. ASSUME ~c.active
      PROVE  Outcome(p, c, ConnTick(c, ms), d)
  BY <1>9, OutcomeSame DEF ConnTick
<1>10. ASSUME c.active, u.sender.consecutive > MAX_RETX_ATTEMPTS
       PROVE  Outcome(p, c, ConnTick(c, ms), d)
  <2> DEFINE z == Append(q, rst)
             k == u.time_since_last
  <2>1. rst \in Segment /\ rst.rst = TRUE
    <3>1. 0 \in WrappingInt32
      BY MAssumption DEF WrappingInt32
    <3>2. <<>> \in Seq(Nat) /\ 0 \in Nat
      OBVIOUS
    <3>3. rst \in Segment
      BY Zenon, <3>1, <3>2 DEF EmptySegment, Segment
    <3>4. rst.rst = TRUE
      BY DEF EmptySegment
    <3> QED BY <3>3, <3>4
  <2>2. u \in TCPConnectionState /\ k \in Nat
    BY <1>7 DEF ConnGood, TCPConnectionState
  <2>3. ConnTick(c, ms) = ResetConnection(u)
    BY <1>4, <1>10 DEF ConnTick
  <2>4. ResetConnection(u) = FailedWith(u, z, k)
    <3>1. u.receiver \in TCPReceiverState /\ u.sender \in TCPSenderState
      BY <2>2 DEF TCPConnectionState
    <3> HIDE DEF rst
    <3>2. ResetConnection(u) = [Fail(u) EXCEPT !.segments_out = Append(@, rst)]
      BY DEF ResetConnection, rst
    <3>3. FailedWith(u, z, k) = [Fail(u) EXCEPT !.segments_out = Append(@, rst)]
      BY ZenonT(30), <1>7, <2>2, <3>1 DEF FailedWith, Fail, WithRest, WithReceiver, WithSender,
            WithReassembler, TCPConnectionState, TCPReceiverState
    <3> QED BY <3>2, <3>3
  <2> HIDE DEF rst
  <2>5. z \in Seq(Segment) /\ \A i \in 1 .. Len(z) : z[i] = rst \/ (i \in 1 .. Len(q) /\ z[i] = q[i])
    BY <1>2, <2>1
  <2>6. \A i \in 1 .. Len(z) : Truthful(p, z[i], u)
    <3>1. Truthful(p, rst, u)
      BY <2>1 DEF Truthful
    <3>2. \A i \in 1 .. Len(q) : Truthful(p, q[i], u)
      BY Zenon, <1>7 DEF ConnGood
    <3> HIDE DEF z
    <3> QED BY <2>5, <3>1, <3>2
  <2> HIDE DEF z, k
  <2>7. Outcome(p, u, FailedWith(u, z, k), d)
    BY ZenonT(30), <1>7, <1>8, <2>2, <2>5, <2>6, FailOutcome
  <2> QED BY <1>8, <2>3, <2>4, <2>7, OutcomeOn
<1>11. ASSUME c.active, ~(u.sender.consecutive > MAX_RETX_ATTEMPTS)
       PROVE  Outcome(p, c, ConnTick(c, ms), d)
  <2>1. ConnTick(c, ms) = SendSegments(u)
    BY <1>4, <1>11 DEF ConnTick
  <2>2. Outcome(p, u, SendSegments(u), d)
    BY Zenon, <1>7, <1>8, <1>11, ConnSend
  <2> QED BY <1>8, <2>1, <2>2, OutcomeOn
<1> QED BY <1>9, <1>10, <1>11
=============================================================================
