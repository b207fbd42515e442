--------------------------- MODULE TCPPairProofs ----------------------------
(***************************************************************************)
(* Two connections over a network that reorders, loses and repeats         *)
(* segments: what each side delivers, counts as acknowledged and ends      *)
(* with, for every stream that fits in the sequence space, every capacity, *)
(* timeout and number of faults.                                           *)
(***************************************************************************)
EXTENDS TCPPairLemmas

\* The inductive invariant: both connections are sound, each against the other, and the
\* segments on their way are truthful.
PairWell ==
    /\ conn \in [Peers -> TCPConnectionState] /\ net \in [Peers -> SUBSET Segment]
    /\ \A p \in Peers :
          /\ ConnState(p, conn[p], conn[Other(p)]) /\ conn[p].segments_out = <<>>
          /\ \A seg \in net[p] : Truthful(Other(p), seg, conn[Other(p)])
-----------------------------------------------------------------------------
(***************************************************************************)
(* segment_received(), branch by branch.                                   *)
(***************************************************************************)
\* The segment that arrives, in a connection that may send and has settled.
LEMMA AckAndReceiveKeeps ==
    ASSUME StreamsFit, NEW p \in Peers, NEW c, NEW d, ConnGood(p, c, d), View(p, d),
           Settled(c.sender), Opened(p, c),
           NEW seg \in Segment, Truthful(Other(p), seg, d), ~seg.rst
    PROVE  LET u == AckAndReceive(c, seg)
           IN  Keeps(p, c, u, d) /\ Settled(u.sender) /\ Opened(p, u)
<1> DEFINE w == TakeAck(c, seg)
           u == Receive(w, seg)
<1>1. Keeps(p, c, w, d) /\ Settled(w.sender)
  BY ConnTakeAck
<1>2. AckAndReceive(c, seg) = u
  BY DEF AckAndReceive
<1> HIDE DEF w
<1>3. Keeps(p, w, u, d) /\ u.sender = w.sender
  BY <1>1, ConnReceive DEF Keeps
<1> HIDE DEF u
<1>4. Keeps(p, c, u, d)
  BY <1>1, <1>3, KeepsOn
<1>5. Opened(p, u)
  BY <1>4 DEF Keeps, Opened
<1> QED BY <1>1, <1>2, <1>3, <1>4, <1>5

\* What c is to a branch of segment_received(), and what the segment is.
Attentive(p, c, d) ==
    ConnGood(p, c, d) /\ View(p, d) /\ Settled(c.sender) /\ c.active

\* ack_received(), segment_received() and the reply, the body most branches share.
LEMMA AckReceiveReplyOutcome ==
    ASSUME StreamsFit, NEW p \in Peers, NEW c, NEW d, Attentive(p, c, d), Opened(p, c),
           NEW seg \in Segment, Truthful(Other(p), seg, d), ~seg.rst
    PROVE  Outcome(p, c, AckReceiveReply(c, seg), d)
<1> DEFINE u == AckAndReceive(c, seg)
<1>1. Keeps(p, c, u, d) /\ Settled(u.sender) /\ Opened(p, u)
  BY AckAndReceiveKeeps DEF Attentive
<1> HIDE DEF u
<1>2. Outcome(p, u, SendSegments(Reply(u)), d)
  BY Zenon, <1>1, ReplyAndSend DEF Keeps, Attentive
<1>3. AckReceiveReply(c, seg) = SendSegments(Reply(u))
  BY DEF AckReceiveReply, u
<1> QED BY <1>1, <1>2, <1>3, OutcomeOn

\* LISTEN.
LEMMA ListenOutcome ==
    ASSUME StreamsFit, NEW p \in Peers, NEW c, NEW d, ConnState(p, c, d), Attentive(p, c, d),
           NEW seg \in Segment, Truthful(Other(p), seg, d), ~seg.rst
    PROVE  Outcome(p, c, OnListen(c, seg), d)
<1>1. CASE seg.syn
  <2> DEFINE u == Receive(c, seg)
  <2>1. Keeps(p, c, u, d) /\ u.sender = c.sender /\ u.receiver.syn
    BY <1>1, ConnReceive DEF Attentive
  <2>2. OnListen(c, seg) = SendSegments(Fill(u))
    BY <1>1 DEF OnListen, ConnConnect
  <2> HIDE DEF u
  <2>3. Outcome(p, u, SendSegments(Fill(u)), d)
    BY ZenonT(30), <2>1, FillAndSend DEF Keeps, Attentive, Opened
  <2> QED BY <2>1, <2>2, <2>3, OutcomeOn
<1>2. CASE ~seg.syn
  BY <1>2, OutcomeSame DEF OnListen
<1> QED BY <1>1, <1>2

\* SYN_SENT.
LEMMA SynSentOutcome ==
    ASSUME StreamsFit, NEW p \in Peers, NEW c, NEW d, ConnState(p, c, d), Attentive(p, c, d),
           Opened(p, c), NEW seg \in Segment, Truthful(Other(p), seg, d), ~seg.rst
    PROVE  Outcome(p, c, OnSynSent(c, seg), d)
<1>1. CASE seg.syn /\ seg.ack
  BY <1>1, AckReceiveReplyOutcome DEF OnSynSent
<1>2. CASE seg.syn /\ ~seg.ack
  <2> DEFINE u == Receive(c, seg)
  <2>1. Keeps(p, c, u, d) /\ u.sender = c.sender /\ u.receiver.syn
    BY <1>2, ConnReceive DEF Attentive
  <2>2. OnSynSent(c, seg) = SendSegments(Reply(u))
    BY <1>2 DEF OnSynSent
  <2> HIDE DEF u
  <2>3. Outcome(p, u, SendSegments(Reply(u)), d)
    BY Zenon, <2>1, ReplyAndSend DEF Keeps, Attentive, Opened
  <2> QED BY <2>1, <2>2, <2>3, OutcomeOn
<1>3. CASE ~seg.syn
  BY <1>3, OutcomeSame DEF OnSynSent
<1> QED BY <1>1, <1>2, <1>3

\* SYN_RCVD: nothing is sent.
LEMMA SynRcvdOutcome ==
    ASSUME StreamsFit, NEW p \in Peers, NEW c, NEW d, Attentive(p, c, d),
           Opened(p, c), NEW seg \in Segment, Truthful(Other(p), seg, d), ~seg.rst
    PROVE  Outcome(p, c, OnSynRcvd(c, seg), d)
<1> DEFINE u == AckAndReceive(c, seg)
<1>1. Keeps(p, c, u, d) /\ Settled(u.sender)
  BY AckAndReceiveKeeps DEF Attentive
<1>2. OnSynRcvd(c, seg) = u
  BY DEF OnSynRcvd
<1> HIDE DEF u
<1> QED BY ZenonT(30), <1>1, <1>2 DEF Keeps, Attentive, Outcome, ConnState

\* ESTAB and the last branch.
LEMMA EstabOutcome ==
    ASSUME StreamsFit, NEW p \in Peers, NEW c, NEW d, Attentive(p, c, d),
           Opened(p, c), NEW seg \in Segment, Truthful(Other(p), seg, d), ~seg.rst
    PROVE  Outcome(p, c, OnEstab(c, seg), d) /\ Outcome(p, c, OnOther(c, seg), d)
<1> DEFINE u == AckAndReceive(c, seg)
           w == Reply(u)
<1>1. Keeps(p, c, u, d) /\ Settled(u.sender) /\ Opened(p, u)
  BY AckAndReceiveKeeps DEF Attentive
<1>2. OnEstab(c, seg) = SendSegments(Fill(IF LengthInSequenceSpace(seg) > 0 THEN w ELSE u))
  BY DEF OnEstab
<1>3. OnOther(c, seg) = SendSegments(Fill(u))
  BY DEF OnOther
<1> HIDE DEF u
<1>4. Keeps(p, u, w, d) /\ w.receiver = u.receiver
  BY Zenon, <1>1, ConnReply DEF Keeps, Attentive
<1> HIDE DEF w
<1>5. Outcome(p, u, SendSegments(Fill(u)), d)
  BY ZenonT(30), <1>1, FillAndSend DEF Keeps, Attentive
<1>6. Outcome(p, w, SendSegments(Fill(w)), d)
  BY ZenonT(30), <1>1, <1>4, FillAndSend DEF Keeps, Attentive, Opened
<1>7. Outcome(p, c, SendSegments(Fill(u)), d)
  BY <1>1, <1>5, OutcomeOn
<1>8. Outcome(p, c, SendSegments(Fill(w)), d)
  BY <1>1, <1>4, <1>6, OutcomeOn
<1> QED BY <1>2, <1>3, <1>7, <1>8

\* FIN_WAIT_1, FIN_WAIT_2 and TIME_WAIT.
LEMMA ClosingOutcome ==
    ASSUME StreamsFit, NEW p \in Peers, NEW c, NEW d, ConnState(p, c, d), Attentive(p, c, d),
           Opened(p, c), NEW seg \in Segment, Truthful(Other(p), seg, d), ~seg.rst
    PROVE  /\ Outcome(p, c, OnFinWait1(c, seg), d) /\ Outcome(p, c, OnFinWait2(c, seg), d)
           /\ Outcome(p, c, OnTimeWait(c, seg), d)
<1> DEFINE u == AckAndReceive(c, seg)
<1>1. Outcome(p, c, c, d)
  BY OutcomeSame
<1>2. Outcome(p, c, AckReceiveReply(c, seg), d)
  BY AckReceiveReplyOutcome
<1>3. Keeps(p, c, u, d) /\ Settled(u.sender)
  BY AckAndReceiveKeeps DEF Attentive
<1> HIDE DEF u
<1>4. Outcome(p, u, SendSegments(u), d)
  BY Zenon, <1>3, ConnSend DEF Keeps, Attentive
<1>5. Outcome(p, c, SendSegments(u), d)
  BY <1>3, <1>4, OutcomeOn
<1>6. Outcome(p, c, OnFinWait1(c, seg), d)
  BY <1>1, <1>2, <1>5 DEF OnFinWait1, u
<1>7. Outcome(p, c, OnFinWait2(c, seg), d)
  BY <1>2 DEF OnFinWait2
<1>8. Outcome(p, c, OnTimeWait(c, seg), d)
  BY <1>1, <1>2 DEF OnTimeWait
<1> QED BY <1>6, <1>7, <1>8

\* A connection that has sent nothing is in the branch of LISTEN.
LEMMA ListenBranch ==
    ASSUME NEW c, InListen(c)
    PROVE  Branch(c) = "LISTEN"
<1> DEFINE cond == <<InListen(c), InSynSent(c), InSynRcvd(c), InEstab(c),
                     InFinWait1(c), InFinWait2(c), InTimeWait(c), TRUE>>
           First(i) == cond[i] /\ \A j \in 1 .. i - 1 : ~cond[j]
<1>1. Branch(c) = Branches[CHOOSE i \in 1 .. 8 : First(i)]
  BY DEF Branch
<1>2. cond[1] = TRUE
  OBVIOUS
<1> HIDE DEF cond
<1>3. 1 \in 1 .. 8 /\ First(1)
  BY <1>2
<1>4. \A i \in 1 .. 8 : First(i) => i = 1
  BY <1>2
<1> HIDE DEF First
<1>5. (CHOOSE i \in 1 .. 8 : First(i)) = 1
  BY <1>3, <1>4
<1>6. Branches[1] = "LISTEN"
  BY DEF Branches
<1> QED BY Zenon, <1>1, <1>5, <1>6

\* The whole handler.
LEMMA ArrivalOutcome ==
    ASSUME StreamsFit, NEW p \in Peers, NEW c, NEW d, ConnState(p, c, d), View(p, d),
           NEW seg \in Segment, Truthful(Other(p), seg, d)
    PROVE  Outcome(p, c, ConnSegmentReceived(c, seg), d)
<1> DEFINE q == c.segments_out
           l == c.linger_after_streams_finish
           u == WithRest(c, q, c.active, l, 0)
<1>1. ConnGood(p, c, d) /\ Settled(c.sender)
  BY DEF ConnState
<1>2. /\ c \in TCPConnectionState /\ q \in Seq(Segment) /\ l \in BOOLEAN /\ c.active \in BOOLEAN
      /\ \A i \in 1 .. Len(q) : Truthful(p, q[i], c)
      /\ c.receiver \in TCPReceiverState /\ c.sender \in TCPSenderState
  BY <1>1 DEF ConnGood, TCPConnectionState
<1>3. CASE ~c.active
  BY <1>3, OutcomeSame DEF ConnSegmentReceived
<1>4. CASE c.active /\ seg.rst
  <2>1. ConnSegmentReceived(c, seg) = [Fail(c) EXCEPT !.time_since_last = 0]
    BY <1>4 DEF ConnSegmentReceived
  <2>2. FailedWith(c, q, 0) = [Fail(c) EXCEPT !.time_since_last = 0]
    BY Zenon, <1>2 DEF FailedWith, Fail, WithRest, WithReceiver, WithSender,
          WithReassembler, TCPConnectionState, TCPReceiverState
  <2>3. Outcome(p, c, FailedWith(c, q, 0), d)
    BY <1>1, <1>2, FailOutcome
  <2> QED BY <2>1, <2>2, <2>3
<1>5. CASE c.active /\ ~seg.rst
  <2> DEFINE b == Branch(c)
  <2>1. u = [c EXCEPT !.time_since_last = 0]
    BY ZenonT(30), <1>2 DEF WithRest, TCPConnectionState
  <2>2. /\ ConnGood(p, u, d) /\ Grows(c, u) /\ u.active = c.active
        /\ u.sender = c.sender /\ u.receiver = c.receiver
    <3>1. TruthfulQueue(p, c, q) /\ 0 \in Nat
      BY <1>2 DEF TruthfulQueue
    <3> QED BY <1>1, <1>2, <3>1, OthersChange
  <2> HIDE DEF u
  <2>3. Attentive(p, u, d) /\ ConnState(p, u, d) /\ Keeps(p, c, u, d)
    BY <1>1, <1>5, <2>2 DEF Attentive, ConnState, Keeps
  <2>4. b # "LISTEN" => Opened(p, u)
    BY <2>2, <2>3, ListenBranch DEF ConnState, ConnGood, Quiet, InListen
  <2>5. ConnSegmentReceived(c, seg) = Handle(b, c, seg)
    BY <1>5 DEF ConnSegmentReceived
  <2> HIDE DEF b
  <2>6. CASE b = "LISTEN"
    BY <1>5, <2>1, <2>3, <2>5, <2>6, ListenOutcome, OutcomeOn DEF Handle
  <2>7. CASE b # "LISTEN"
    <3>1. /\ Outcome(p, u, OnSynSent(u, seg), d) /\ Outcome(p, u, OnSynRcvd(u, seg), d)
          /\ Outcome(p, u, OnEstab(u, seg), d) /\ Outcome(p, u, OnOther(u, seg), d)
          /\ Outcome(p, u, OnFinWait1(u, seg), d) /\ Outcome(p, u, OnFinWait2(u, seg), d)
          /\ Outcome(p, u, OnTimeWait(u, seg), d)
      BY <1>5, <2>3, <2>4, <2>7, SynSentOutcome, SynRcvdOutcome, EstabOutcome, ClosingOutcome
    <3>2. Handle(b, c, seg) \in {OnSynSent(u, seg), OnSynRcvd(u, seg), OnEstab(u, seg),
               OnOther(u, seg), OnFinWait1(u, seg), OnFinWait2(u, seg), OnTimeWait(u, seg)}
      BY <2>1, <2>7 DEF Handle
    <3>3. Outcome(p, u, Handle(b, c, seg), d)
      BY <3>1, <3>2
    <3> QED BY <2>3, <2>5, <3>3, OutcomeOn
  <2> QED BY <2>6, <2>7
<1> QED BY <1>2, <1>3, <1>4, <1>5
-----------------------------------------------------------------------------
(***************************************************************************)
(* Both sides together.                                                    *)
(***************************************************************************)
\* The owner takes the queue of a connection.
Emptied(u) == [u EXCEPT !.segments_out = <<>>]

\* That changes nothing the invariant speaks of but the queue.
LEMMA EmptiedState ==
    ASSUME StreamsFit, NEW p \in Peers, NEW u, NEW e, ConnState(p, u, e)
    PROVE  LET x == Emptied(u)
           IN  /\ ConnState(p, x, e) /\ Grows(u, x) /\ x.segments_out = <<>>
               /\ x \in TCPConnectionState
<1> DEFINE q == <<>>
           b == u.active
           l == u.linger_after_streams_finish
           n == u.time_since_last
           x == WithRest(u, q, b, l, n)
<1>1. ConnGood(p, u, e) /\ u \in TCPConnectionState
  BY DEF ConnState, ConnGood
<1>2. q \in Seq(Segment) /\ Len(q) = 0
  OBVIOUS
<1>3. \A i \in 1 .. Len(q) : Truthful(p, q[i], u)
  BY <1>2
<1>4. b \in BOOLEAN /\ l \in BOOLEAN /\ n \in Nat
  BY <1>1 DEF TCPConnectionState
<1>5. x = Emptied(u)
  BY ZenonT(30), <1>1 DEF WithRest, Emptied, TCPConnectionState
<1> HIDE DEF q, b, l, n
<1>6. /\ ConnGood(p, x, e) /\ Grows(u, x) /\ x.active = b /\ x.segments_out = q
      /\ x.sender = u.sender /\ x.receiver = u.receiver
  <2>1. TruthfulQueue(p, u, q)
    BY Zenon, <1>2, <1>3 DEF TruthfulQueue
  <2> QED BY <1>1, <1>4, <2>1, OthersChange
<1> HIDE DEF x
<1>7. ConnState(p, x, e) /\ x \in TCPConnectionState
  BY <1>6 DEF ConnState, ConnGood, Complete, Inbound, b
<1> QED BY <1>5, <1>6, <1>7 DEF q

\* The peer's state survives a step of the other side.
LEMMA StateMoves ==
    ASSUME StreamsFit, NEW p \in Peers, NEW d, NEW c, NEW u, ConnState(p, d, c), Grows(c, u)
    PROVE  ConnState(p, d, u)
BY PeerMoves DEF ConnState

\* When both sides have moved, W[p] being what p's call left, and every segment on its way
\* was on its way before or has just been queued, the invariant holds again.
LEMMA Compose ==
    ASSUME StreamsFit, PairWell, NEW W,
           \A p \in Peers : Outcome(p, conn[p], W[p], conn[Other(p)]),
           conn' = [p \in Peers |-> Emptied(W[p])],
           net' = [p \in Peers |-> net'[p]],
           \A p \in Peers : \A seg \in net'[p] :
               seg \in net[p] \/ \E i \in 1 .. Len(W[Other(p)].segments_out) :
                                     seg = W[Other(p)].segments_out[i]
    PROVE  PairWell'
<1>1. ASSUME NEW p \in Peers
      PROVE  /\ ConnState(p, conn'[p], conn'[Other(p)]) /\ conn'[p].segments_out = <<>>
             /\ conn'[p] \in TCPConnectionState
             /\ \A seg \in net'[p] : seg \in Segment /\ Truthful(Other(p), seg, conn'[Other(p)])
  <2> DEFINE o == Other(p)
             c == conn[p]
             d == conn[o]
             u == W[p]
             e == W[o]
             x == conn'[p]
             y == conn'[o]
  <2>1. o \in Peers /\ Other(o) = p
    BY PeerFacts
  <2>2. ConnState(p, u, d) /\ ConnState(o, e, c) /\ Grows(c, u) /\ Grows(d, e)
    BY <2>1 DEF Outcome
  <2>3. x = Emptied(u) /\ y = Emptied(e)
    BY <2>1
  <2> HIDE DEF o, c, d, u, e, x, y
  <2>4. ConnState(p, u, e) /\ ConnState(o, e, u)
    BY <2>1, <2>2, StateMoves
  <2>5. /\ ConnState(p, x, e) /\ x.segments_out = <<>> /\ x \in TCPConnectionState
        /\ Grows(e, y)
    BY ZenonT(30), <2>1, <2>3, <2>4, EmptiedState
  <2>6. ConnState(p, x, y) /\ Grows(d, y)
    BY <2>2, <2>5, StateMoves, GrowsOn
  <2>7. ASSUME NEW seg \in net'[p]
        PROVE  seg \in Segment /\ Truthful(o, seg, y)
    <3>1. CASE seg \in net[p]
      <4>1. seg \in Segment /\ Truthful(o, seg, d)
        BY <3>1 DEF PairWell, o, d
      <4> QED BY <2>6, <4>1, TruthfulGrows
    <3>2. CASE \E i \in 1 .. Len(e.segments_out) : seg = e.segments_out[i]
      <4>1. PICK i \in 1 .. Len(e.segments_out) : seg = e.segments_out[i]
        BY <3>2
      <4>2. e.segments_out \in Seq(Segment) /\ Truthful(o, seg, e)
        BY <2>2, <4>1 DEF ConnState, ConnGood, TCPConnectionState
      <4>3. seg \in Segment
        BY <4>1, <4>2
      <4> QED BY <2>5, <4>2, <4>3, TruthfulGrows
    <3> QED BY <3>1, <3>2 DEF o, e
  <2> QED BY <2>5, <2>6, <2>7 DEF o, x, y
<1>2. conn' \in [Peers -> TCPConnectionState]
  BY Zenon, <1>1
<1>3. net' \in [Peers -> SUBSET Segment]
  BY Zenon, <1>1
<1> QED BY Zenon, <1>1, <1>2, <1>3 DEF PairWell

\* A call of p, or a segment for p.
LEMMA AfterWell ==
    ASSUME StreamsFit, PairWell, NEW p \in Peers, NEW c,
           Outcome(p, conn[p], c, conn[Other(p)]),
           NEW inflight, inflight \subseteq net[p], After(p, c, inflight)
    PROVE  PairWell'
<1> DEFINE o == Other(p)
           W == [conn EXCEPT ![p] = c]
<1>1. o \in Peers /\ Other(o) = p /\ o # p /\ Peers = {p, o}
  BY PeerFacts
<1>2. conn \in [Peers -> TCPConnectionState] /\ net \in [Peers -> SUBSET Segment]
  BY DEF PairWell
<1>3. W[p] = c /\ W[o] = conn[o]
  BY <1>1, <1>2
<1>4. Outcome(o, conn[o], W[o], conn[p])
  <2>1. ConnState(o, conn[o], conn[p])
    BY <1>1 DEF PairWell
  <2> QED BY <1>1, <1>3, <2>1, OutcomeSame
<1>5. \A q \in Peers : Outcome(q, conn[q], W[q], conn[Other(q)])
  BY <1>1, <1>3, <1>4
<1>6. conn[o] = Emptied(conn[o])
  <2>1. conn[o] \in TCPConnectionState /\ conn[o].segments_out = <<>>
    BY <1>1, <1>2 DEF PairWell
  <2> QED BY <2>1 DEF Emptied, TCPConnectionState
<1>7. conn' = [conn EXCEPT ![p] = Emptied(c)]
  BY DEF After, Emptied
<1> HIDE DEF W
<1>8. conn' = [q \in Peers |-> Emptied(W[q])]
  BY Zenon, <1>1, <1>2, <1>3, <1>6, <1>7
<1>9. net' = [net EXCEPT ![p] = inflight, ![o] = @ \cup Range(c.segments_out)]
  BY DEF After
<1>10. /\ net' = [q \in Peers |-> net'[q]]
       /\ net'[p] = inflight /\ net'[o] = net[o] \cup Range(c.segments_out)
  BY Zenon, <1>1, <1>2, <1>9
<1>11. ASSUME NEW seg \in Range(c.segments_out)
       PROVE  \E i \in 1 .. Len(c.segments_out) : seg = c.segments_out[i]
  <2>1. c.segments_out \in Seq(Segment)
    BY DEF Outcome, ConnState, ConnGood, TCPConnectionState
  <2> QED BY <2>1 DEF Range
<1>12. \A q \in Peers : \A seg \in net'[q] :
           seg \in net[q] \/ \E i \in 1 .. Len(W[Other(q)].segments_out) :
                                 seg = W[Other(q)].segments_out[i]
  BY <1>1, <1>3, <1>10, <1>11
<1> QED BY <1>5, <1>8, <1>10, <1>12, Compose

\* What a call of p may assume.
LEMMA SideFacts ==
    ASSUME StreamsFit, PairWell, NEW p \in Peers
    PROVE  /\ ConnState(p, conn[p], conn[Other(p)]) /\ View(p, conn[Other(p)])
           /\ \A seg \in net[p] : seg \in Segment /\ Truthful(Other(p), seg, conn[Other(p)])
<1>1. Other(p) \in Peers /\ Other(Other(p)) = p
  BY PeerFacts
<1>2. ConnGood(Other(p), conn[Other(p)], conn[p])
  BY <1>1 DEF PairWell, ConnState
<1>3. View(p, conn[Other(p)])
  BY <1>2, Viewed
<1> QED BY <1>3 DEF PairWell

\* The steps of an application.
LEMMA AppWell ==
    ASSUME StreamsFit, PairWell, NEW p \in Peers, AppStep(p)
    PROVE  PairWell'
<1> DEFINE c == conn[p]
           d == conn[Other(p)]
<1>1. ConnState(p, c, d) /\ View(p, d)
  BY SideFacts
<1>2. ASSUME NEW u, Outcome(p, c, u, d), Call(p, u)
      PROVE  PairWell'
  BY <1>2, AfterWell DEF Call
<1> HIDE DEF d
<1>3. CASE Connect(p)
  <2>1. Outcome(p, c, ConnConnect(c), d)
    BY <1>1, <1>3, ConnectOutcome DEF Connect
  <2> QED BY <1>2, <1>3, <2>1 DEF Connect
<1>4. CASE Write(p)
  <2>1. Outcome(p, c, ConnWrite(c, <<Outbound(c).totin>>), d)
    BY <1>1, <1>4, WriteOutcome DEF Write, Open
  <2> QED BY <1>2, <1>4, <2>1 DEF Write
<1>5. CASE EndInputStream(p)
  <2>1. Outcome(p, c, ConnEndInputStream(c), d)
    BY <1>1, <1>5, EndOutcome DEF EndInputStream, Open
  <2> QED BY <1>2, <1>5, <2>1 DEF EndInputStream
<1>6. CASE Read(p)
  <2> DEFINE u == [c EXCEPT !.receiver.reassembler.output = StreamRead(@, BufferSize(@))]
  <2>1. Outcome(p, c, u, d)
    BY <1>1, ReadOutcome
  <2>2. Call(p, u)
    BY <1>6 DEF Read
  <2> HIDE DEF u
  <2> QED BY <1>2, <2>1, <2>2
<1> QED BY <1>3, <1>4, <1>5, <1>6 DEF AppStep

\* A segment arrives or is lost.
LEMMA NetWell ==
    ASSUME StreamsFit, PairWell, NEW p \in Peers, NetStep(p)
    PROVE  PairWell'
<1>1. /\ ConnState(p, conn[p], conn[Other(p)]) /\ View(p, conn[Other(p)])
      /\ \A seg \in net[p] : seg \in Segment /\ Truthful(Other(p), seg, conn[Other(p)])
  BY SideFacts
<1>2. ASSUME NEW seg \in net[p], NEW again \in BOOLEAN, Deliver(p, seg, again)
      PROVE  PairWell'
  <2>1. Outcome(p, conn[p], ConnSegmentReceived(conn[p], seg), conn[Other(p)])
    BY <1>1, ArrivalOutcome
  <2> DEFINE inflight == IF again THEN net[p] ELSE net[p] \ {seg}
  <2>2. inflight \subseteq net[p] /\ After(p, ConnSegmentReceived(conn[p], seg), inflight)
    BY <1>2 DEF Deliver
  <2> HIDE DEF inflight
  <2> QED BY <2>1, <2>2, AfterWell
<1>3. ASSUME NEW seg \in net[p], Lose(p, seg)
      PROVE  PairWell'
  <2>1. conn' = conn /\ net' = [net EXCEPT ![p] = @ \ {seg}]
    BY <1>3 DEF Lose
  <2>2. net \in [Peers -> SUBSET Segment]
    BY DEF PairWell
  <2>3. net' \in [Peers -> SUBSET Segment] /\ \A q \in Peers : net'[q] \subseteq net[q]
    BY <2>1, <2>2
  <2> QED BY <2>1, <2>3 DEF PairWell
<1>4. ASSUME NEW seg \in net[p], NEW again \in BOOLEAN, Arrivals(p, seg, again)
      PROVE  Deliver(p, seg, again)
  BY <1>4 DEF Arrivals, DeliverRst, DeliverTo, DeliverToInactive
<1> QED BY <1>2, <1>3, <1>4 DEF NetStep

\* Time passes on both sides.
LEMMA TickWell ==
    ASSUME StreamsFit, PairWell, NEW ms \in Nat, Tick(ms)
    PROVE  PairWell'
<1> DEFINE W == [p \in Peers |-> Ticked(p, ms)]
<1>1. ASSUME NEW p \in Peers
      PROVE  Outcome(p, conn[p], W[p], conn[Other(p)])
  <2>1. ConnState(p, conn[p], conn[Other(p)]) /\ View(p, conn[Other(p)])
    BY SideFacts
  <2>2. W[p] = IF TickMatters(conn[p]) THEN ConnTick(conn[p], ms) ELSE conn[p]
    BY DEF Ticked
  <2> QED BY <2>1, <2>2, TickOutcome, OutcomeSame
<1>2. /\ conn' = [p \in Peers |-> Emptied(W[p])]
      /\ net' = [p \in Peers |-> net[p] \cup Range(Ticked(Other(p), ms).segments_out)]
  BY DEF Tick, Emptied
<1>3. net' = [p \in Peers |-> net'[p]]
  BY <1>2
<1>4. ASSUME NEW p \in Peers, NEW seg \in net'[p], seg \notin net[p]
      PROVE  \E i \in 1 .. Len(W[Other(p)].segments_out) : seg = W[Other(p)].segments_out[i]
  <2>1. Other(p) \in Peers
    BY PeerFacts
  <2>2. seg \in Range(W[Other(p)].segments_out)
    BY <1>2, <1>4, <2>1
  <2>3. W[Other(p)].segments_out \in Seq(Segment)
    BY <1>1, <2>1 DEF Outcome, ConnState, ConnGood, TCPConnectionState
  <2> HIDE DEF W
  <2> QED BY <2>2, <2>3 DEF Range
<1>5. \A p \in Peers : Outcome(p, conn[p], W[p], conn[Other(p)])
  BY <1>1
<1>6. conn' = [p \in Peers |-> Emptied(W[p])]
  BY <1>2
<1> HIDE DEF W
<1>7. \A p \in Peers : \A seg \in net'[p] :
          seg \in net[p] \/ \E i \in 1 .. Len(W[Other(p)].segments_out) :
                                seg = W[Other(p)].segments_out[i]
  BY <1>4
<1> QED BY <1>3, <1>5, <1>6, <1>7, Compose

\* The invariant holds initially, when nobody has sent or received anything.
LEMMA InitWell ==
    ASSUME StreamsFit, Init
    PROVE  PairWell
<1>1. ASSUME NEW p \in Peers
      PROVE  /\ ConnState(p, conn[p], conn[Other(p)]) /\ conn[p].segments_out = <<>>
             /\ conn[p] \in TCPConnectionState
  <2> DEFINE o == Other(p)
             c == conn[p]
             d == conn[o]
             s == NewTCPSender(Cfg[p].send_capacity, Cfg[p].rt_timeout, Cfg[p].isn)
             t == NewTCPSender(Cfg[o].send_capacity, Cfg[o].rt_timeout, Cfg[o].isn)
             v == NewTCPReceiver(Cfg[p].recv_capacity)
             w == NewTCPReceiver(Cfg[o].recv_capacity)
  <2>1. /\ o \in Peers /\ Other(o) = p
        /\ Cfg[p].isn \in WrappingInt32 /\ Cfg[p].recv_capacity \in Nat
        /\ Cfg[p].send_capacity \in Nat /\ Cfg[p].rt_timeout \in Nat \ {0}
        /\ Cfg[o].isn \in WrappingInt32 /\ Cfg[o].recv_capacity \in Nat
        /\ Cfg[o].send_capacity \in Nat /\ Cfg[o].rt_timeout \in Nat \ {0}
        /\ ToSend[p] \in Nat /\ ToSend[o] \in Nat
    BY PeerFacts
  <2>2. /\ c = [sender |-> s, receiver |-> v, segments_out |-> <<>>, active |-> TRUE,
                linger_after_streams_finish |-> TRUE, time_since_last |-> 0]
        /\ d = [sender |-> t, receiver |-> w, segments_out |-> <<>>, active |-> TRUE,
                linger_after_streams_finish |-> TRUE, time_since_last |-> 0]
    BY <2>1 DEF Init, NewTCPConnection
  <2>3. /\ s \in Good(0, s) /\ s.isn = Cfg[p].isn /\ s.segments_out = <<>>
        /\ s.next_seqno = 0 /\ s.outgoing_bytes = 0 /\ ~s.syn
        /\ s.stream = NewByteStream(Cfg[p].send_capacity)
    BY <2>1, NewGood, SMTT(30)
  <2>4. t.stream = NewByteStream(Cfg[o].send_capacity)
    BY <2>1, NewGood, SMTT(30)
  <2>5. /\ s.stream.totin = 0 /\ s.stream.isInputEnd = FALSE
        /\ t.stream.totin = 0 /\ t.stream.isInputEnd = FALSE
    BY <2>3, <2>4, SMTT(30) DEF NewByteStream
  <2>6. ToSend[o] < SIZE_MAX /\ ToSend[p] < SIZE_MAX
    BY <2>1 DEF StreamsFit
  <2> DEFINE z == 0
             b == FALSE
  <2>7. z \in Nat
    OBVIOUS
  <2> HIDE DEF z, b
  <2>8. RcvGood(v, Cfg[o].isn, Cfg[p].recv_capacity, ToSend[o]) /\ Within(v, z, b, ToSend[o])
    BY Zenon, <2>1, <2>6, <2>7, NewReceiverGood
  <2>9. Received(w) = 0
    BY <2>1, <2>6, <2>7, NewReceiverGood
  <2> HIDE DEF o, c, d, s, t, v, w
  <2>10. SenderWell(s) /\ s \in TCPSenderState /\ v \in TCPReceiverState
    BY <2>3, <2>8 DEF Good, RcvGood
  <2>11. /\ c.sender = s /\ c.receiver = v /\ c.segments_out = <<>> /\ c.active = TRUE
         /\ d.sender = t /\ d.receiver = w
    BY <2>2
  <2>12. c \in TCPConnectionState
    BY <2>2, <2>10 DEF TCPConnectionState
  <2>13. SenderOf(p, c)
    BY <2>1, <2>3, <2>5, <2>10, <2>11 DEF SenderOf, Outbound
  <2>14. ReceiverOf(p, c, d)
    BY ZenonT(30), <2>5, <2>8, <2>11 DEF ReceiverOf, Outbound, z, b, o
  <2>15. Acked(c.sender) <= Received(d.receiver)
    BY <2>3, <2>9, <2>11 DEF Acked
  <2>16. \A i \in 1 .. Len(c.segments_out) : Truthful(p, c.segments_out[i], c)
    BY <2>11
  <2>17. Quiet(c) /\ Settled(c.sender)
    BY <2>3, <2>11 DEF Quiet, Settled
  <2>18. ConnState(p, c, d)
    BY <2>11, <2>12, <2>13, <2>14, <2>15, <2>16, <2>17 DEF ConnState, ConnGood
  <2> QED BY <2>11, <2>12, <2>18 DEF c, d, o
<1>2. conn \in [Peers -> TCPConnectionState]
  BY ZenonT(30), <1>1 DEF Init
<1>3. net \in [Peers -> SUBSET Segment] /\ \A p \in Peers : net[p] = {}
  BY DEF Init
<1> QED BY <1>1, <1>2, <1>3 DEF PairWell

\* Every step preserves it.
LEMMA NextWell ==
    ASSUME StreamsFit, PairWell, [Next]_vars
    PROVE  PairWell'
<1>1. ASSUME NEW p \in Peers, AppStep(p) PROVE PairWell'
  BY <1>1, AppWell
<1>2. ASSUME NEW p \in Peers, NetStep(p) PROVE PairWell'
  BY <1>2, NetWell
<1>3. ASSUME NEW ms \in TickSizes, Tick(ms) PROVE PairWell'
  <2>1. ms \in Nat
    BY PairAssumption
  <2> QED BY <1>3, <2>1, TickWell
<1>4. CASE UNCHANGED vars
  BY <1>4 DEF vars, PairWell
<1> QED BY <1>1, <1>2, <1>3, <1>4 DEF Next

\* What the invariant says of the streams.
LEMMA WellIsIntact ==
    ASSUME StreamsFit, PairWell
    PROVE  StreamsArriveIntact
<1>1. ASSUME NEW p \in Peers
      PROVE  /\ Inbound(conn[p]).totin <= Outbound(conn[Other(p)]).totin
             /\ \A i \in 1 .. Len(Inbound(conn[p]).buff) :
                    Inbound(conn[p]).buff[i] = Inbound(conn[p]).totout + i - 1
             /\ Inbound(conn[p]).isInputEnd =>
                    /\ Outbound(conn[Other(p)]).isInputEnd
                    /\ Inbound(conn[p]).totin = Outbound(conn[Other(p)]).totin
  <2> DEFINE v == conn[p].receiver
             in == StreamOut(v)
             out == Outbound(conn[Other(p)])
             total == ToSend[Other(p)]
  <2>1. /\ RcvGood(v, Cfg[Other(p)].isn, Cfg[p].recv_capacity, total)
        /\ Within(v, out.totin, out.isInputEnd, total)
    BY Zenon DEF PairWell, ConnState, ConnGood, ReceiverOf
  <2>2. Cfg[p].recv_capacity \in Nat /\ total \in Nat /\ total < SIZE_MAX
    BY PeerFacts DEF StreamsFit
  <2>3. View(p, conn[Other(p)])
    BY SideFacts
  <2>4. out.totin \in Nat /\ (out.isInputEnd => out.totin = total)
    BY <2>3 DEF View
  <2>5. /\ in.totin \in Nat /\ in.totin <= total
        /\ in.isInputEnd => in.totin = total /\ v.reassembler.posEOF = total
        /\ FromStream(in.buff, in.totout)
    BY <2>1, <2>2, ReceivedFacts, SMTT(30)
  <2>6. in.totin <= out.totin /\ (v.reassembler.posEOF = total => out.isInputEnd)
    BY <2>1 DEF Within, StreamOut
  <2>7. \A i \in 1 .. Len(in.buff) : in.buff[i] = in.totout + i - 1
    BY <2>5 DEF FromStream
  <2>8. in = Inbound(conn[p])
    BY DEF Inbound
  <2> HIDE DEF in, out, v, total
  <2>9. in.isInputEnd => out.isInputEnd /\ in.totin = out.totin
    BY <2>4, <2>5, <2>6
  <2> QED BY <2>6, <2>7, <2>8, <2>9 DEF out
<1> QED BY <1>1 DEF StreamsArriveIntact

\* What it says of acknowledgments.
LEMMA WellIsReceived ==
    ASSUME StreamsFit, ZeroIsNoAckno, PairWell
    PROVE  AcknowledgedIsReceived
<1>1. ASSUME NEW p \in Peers
      PROVE  AckedBy(p) <= ReceivedBy(Other(p))
  <2>1. Acked(conn[p].sender) <= Received(conn[Other(p)].receiver)
    BY DEF PairWell, ConnState, ConnGood
  <2>2. AckedBy(p) = Acked(conn[p].sender)
    BY DEF AckedBy, Acked
  <2>3. ReceivedBy(Other(p)) = Received(conn[Other(p)].receiver)
    BY DEF ReceivedBy, Received, Inbound
  <2> QED BY <2>1, <2>2, <2>3
<1> QED BY <1>1 DEF AcknowledgedIsReceived

\* What it says of a connection that has ended.
LEMMA WellIsComplete ==
    ASSUME StreamsFit, ZeroIsNoAckno, PairWell
    PROVE  CleanEndIsComplete
<1>1. ASSUME NEW p \in Peers, ~conn[p].active, ~Inbound(conn[p]).error
      PROVE  /\ Inbound(conn[p]).isInputEnd /\ Inbound(conn[Other(p)]).isInputEnd
             /\ Inbound(conn[Other(p)]).totin = ToSend[p]
  <2> DEFINE o == Other(p)
             s == conn[p].sender
             v == conn[o].receiver
             in == StreamOut(v)
             n == ToSend[p]
  <2>1. /\ Inbound(conn[p]).isInputEnd /\ s.fin /\ s.outgoing_bytes = 0
        /\ SenderWell(s) /\ Acked(s) <= Received(v)
        /\ s.stream.isInputEnd => s.stream.totin = n
    BY ZenonT(30), <1>1 DEF PairWell, ConnState, ConnGood, SenderOf, Complete, Outbound
  <2>2. o \in Peers /\ Other(o) = p /\ n \in Nat /\ n < SIZE_MAX /\ Cfg[o].recv_capacity \in Nat
    BY PeerFacts DEF StreamsFit
  <2>3. RcvGood(v, Cfg[p].isn, Cfg[o].recv_capacity, n)
    BY <2>2 DEF PairWell, ConnState, ConnGood, ReceiverOf
  <2>4. /\ Received(v) \in Nat /\ in.totin \in Nat /\ in.totin <= n
        /\ in.isInputEnd => in.totin = n
    BY <2>2, <2>3, ReceivedFacts, SMTT(30)
  <2>5. s.stream.isInputEnd /\ s.next_seqno = s.stream.totin + 2
    BY ZenonT(30), <2>1 DEF SenderWell, FinIsLast, StreamEof
  <2>6. v.syn \in BOOLEAN /\ in.isInputEnd \in BOOLEAN
    <3>1. in \in ByteStreamState(Nat)
      BY ZenonT(30), <2>3 DEF RcvGood, Well, Sound, StreamOut, ReassemblerState
    <3> QED BY Zenon, <2>3, <3>1 DEF RcvGood, TCPReceiverState, ByteStreamState
  <2>7. Acked(s) = n + 2
    BY <2>1, <2>2, <2>5, SMTT(30) DEF Acked
  <2>8. Received(v) = in.totin + Bit(v.syn) + Bit(in.isInputEnd)
    BY DEF Received
  <2> HIDE DEF s, v, in, n
  <2>9. in.isInputEnd
    BY <2>1, <2>2, <2>4, <2>6, <2>7, <2>8 DEF Bit
  <2> QED BY <2>1, <2>4, <2>9 DEF Inbound, in, v, n, o
<1> QED BY <1>1 DEF CleanEndIsComplete
-----------------------------------------------------------------------------
(***************************************************************************)
(* Theorems, for all capacities, timeouts, numbers of faults and streams   *)
(* that fit.                                                               *)
(***************************************************************************)
\* The two connections stay sound against each other, and nothing untrue is on its way,
\* through every loss, repetition, reordering and early timeout.
THEOREM PairWellIsInvariant ==
    ASSUME StreamsFit
    PROVE  Spec => []PairWell
<1>1. Init => PairWell
  BY InitWell
<1>2. PairWell /\ [Next]_vars => PairWell'
  BY NextWell
<1> QED BY <1>1, <1>2, PTL DEF Spec

\* write() on one side to read() on the other, across TCPSender, TCPConnection, the network,
\* TCPReceiver and StreamReassembler: each application reads a prefix of what the other
\* wrote, in order, and is told of the end only at the end.
THEOREM StreamsAreIntact ==
    ASSUME StreamsFit
    PROVE  Spec => []StreamsArriveIntact
<1>1. PairWell => StreamsArriveIntact
  BY WellIsIntact
<1> QED BY <1>1, PairWellIsInvariant, PTL

\* What a sender stops keeping for retransmission has arrived in order on the other side,
\* provided a zero ackno of a segment without the ACK flag acknowledges nothing.
THEOREM AcknowledgedWasReceived ==
    ASSUME StreamsFit, ZeroIsNoAckno
    PROVE  Spec => []AcknowledgedIsReceived
<1>1. PairWell => AcknowledgedIsReceived
  BY WellIsReceived
<1> QED BY <1>1, PairWellIsInvariant, PTL

\* A connection that is no longer active and has no error has received the whole stream of
\* the other side, and the other side has received all of its own.
THEOREM CleanEndsAreComplete ==
    ASSUME StreamsFit, ZeroIsNoAckno
    PROVE  Spec => []CleanEndIsComplete
<1>1. PairWell => CleanEndIsComplete
  BY WellIsComplete
<1> QED BY <1>1, PairWellIsInvariant, PTL
=============================================================================
