--------------------------- MODULE TCPSenderLemmas ---------------------------
(***************************************************************************)
(* What the operations of TCPSender keep, for every capacity, window,      *)
(* timeout and modulus: lemmas about TCPSenderOps that the proofs of the   *)
(* sender and of two connections share.                                    *)
(***************************************************************************)
EXTENDS TCPSenderOps, BasicLemmas

Entry == [key : Nat, seg : Segment]

\* A segment of the stream that sender s sends.
InStream(seg, s) ==
    \E a \in 0 .. s.stream.totin + 2 :
        Numbered(seg, a, s.isn, s.stream.totin, s.stream.isInputEnd)

\* The sender leaves the acknowledgment to the connection.
Bare(seg) == ~seg.ack /\ seg.ackno = 0

OfStream(seg, s) == InStream(seg, s) /\ Bare(seg)

\* What is queued and what would be sent again is of the stream.
Queued(s) ==
    /\ \A i \in 1 .. Len(s.segments_out) : OfStream(s.segments_out[i], s)
    /\ \A i \in 1 .. Len(s.outgoing) : OfStream(s.outgoing[i].seg, s)

\* What the loops rely on besides the invariants themselves: where the stream is
\* in sequence space, and that no outstanding segment reaches past next_seqno.
InPlace(s) ==
    /\ s.next_seqno = s.stream.totout + Bit(s.syn) + Bit(s.fin)
    /\ ~s.syn => s.stream.totout = 0 /\ ~s.fin
    /\ s.stream.totin = s.stream.totout + Len(s.stream.buff)
    /\ \A i \in 1 .. Len(s.stream.buff) : s.stream.buff[i] = s.stream.totout + i - 1

NonePast(s) == \A i \in 1 .. Len(s.outgoing) : EndOf(s.outgoing[i]) <= s.next_seqno

SenderWell(s) ==
    /\ s \in TCPSenderState
    /\ s.stream \in Bounded(Nat)
    /\ InPlace(s) /\ NonePast(s) /\ ContiguousFlight(s)
    /\ Armed(s) /\ CarriesStream(s) /\ FinIsLast(s) /\ Queued(s)

\* Senders r and s have the same stream, and the same part of it is written.
SameStream(r, s) ==
    /\ s.isn = r.isn /\ s.initial_timeout = r.initial_timeout
    /\ s.stream.totin = r.stream.totin
    /\ s.stream.isInputEnd <=> r.stream.isInputEnd

\* The states of the sender with the stream of r when the highest accepted ackno is a.
Good(a, r) == {s \in TCPSenderState : /\ SenderWell(s) /\ SameStream(r, s)
                                      /\ Kept(s, a) /\ a <= s.next_seqno}

\* The stream of t continues the stream of s.
Extends(s, t) ==
    /\ t.isn = s.isn
    /\ s.stream.totin \in Nat /\ t.stream.totin \in Nat /\ s.stream.totin <= t.stream.totin
    /\ s.stream.isInputEnd => t.stream.isInputEnd /\ t.stream.totin = s.stream.totin

\* A segment of a stream stays one.
LEMMA InStreamGrows ==
    ASSUME NEW s, NEW t, Extends(s, t), NEW seg, Len(seg.payload) \in Nat, InStream(seg, s)
    PROVE  InStream(seg, t)
<1> DEFINE n == s.stream.totin
           m == t.stream.totin
           e == s.stream.isInputEnd
           k == Len(seg.payload)
           y == Bit(seg.syn)
<1>1. PICK a \in 0 .. n + 2 : Numbered(seg, a, s.isn, n, e)
  BY DEF InStream
<1>2. n \in Nat /\ m \in Nat /\ n <= m /\ y \in 0 .. 1 /\ k \in Nat /\ t.isn = s.isn
  BY DEF Extends, Bit
<1>3. e => t.stream.isInputEnd /\ m = n
  BY DEF Extends
<1>4. k > 0 \/ seg.fin => a + y >= 1 /\ a + y + k <= n + 1
  BY <1>1 DEF Numbered
<1>5. seg.fin => e /\ a + y + k = n + 1
  BY <1>1 DEF Numbered
<1>6. k > 0 \/ seg.fin => a + y >= 1 /\ a + y + k <= m + 1
  <2> HIDE DEF n, m, k, y
  <2> QED BY <1>2, <1>4
<1>7. seg.fin => t.stream.isInputEnd /\ a + y + k = m + 1
  <2> HIDE DEF n, m, k, y
  <2> QED BY <1>3, <1>5
<1>8. Numbered(seg, a, t.isn, m, t.stream.isInputEnd)
  BY <1>1, <1>2, <1>6, <1>7 DEF Numbered
<1>9. a \in 0 .. m + 2
  <2> HIDE DEF n, m
  <2> QED BY <1>2
<1> QED BY <1>8, <1>9 DEF InStream

\* So does one of the same stream.
LEMMA InStreamSame ==
    ASSUME NEW s, NEW t, SameStream(s, t), NEW seg, InStream(seg, s)
    PROVE  InStream(seg, t)
<1>1. PICK a \in 0 .. s.stream.totin + 2 :
           Numbered(seg, a, s.isn, s.stream.totin, s.stream.isInputEnd)
  BY DEF InStream
<1>2. /\ t.isn = s.isn /\ t.stream.totin = s.stream.totin
      /\ t.stream.isInputEnd <=> s.stream.isInputEnd
  BY DEF SameStream
<1>3. Numbered(seg, a, t.isn, t.stream.totin, t.stream.isInputEnd)
  BY <1>1, <1>2 DEF Numbered
<1> QED BY <1>1, <1>2, <1>3 DEF InStream

\* The same for the segments of a sender.
LEMMA OfStreamGrows ==
    ASSUME NEW s, NEW t, Extends(s, t), NEW seg, Len(seg.payload) \in Nat, OfStream(seg, s)
    PROVE  OfStream(seg, t)
BY InStreamGrows DEF OfStream

\* And for a sender with the same stream.
LEMMA OfStreamSame ==
    ASSUME NEW s, NEW t, SameStream(s, t), NEW seg, OfStream(seg, s)
    PROVE  OfStream(seg, t)
BY InStreamSame DEF OfStream

\* The length of a segment.
LEMMA SegmentLength ==
    ASSUME NEW seg \in Segment
    PROVE  /\ Len(seg.payload) \in Nat
           /\ LengthInSequenceSpace(seg) = Len(seg.payload) + Bit(seg.syn) + Bit(seg.fin)
           /\ LengthInSequenceSpace(seg) \in Nat
           /\ Bit(seg.syn) \in 0 .. 1 /\ Bit(seg.fin) \in 0 .. 1
<1>1. Len(seg.payload) \in Nat
  BY LenProperties DEF Segment
<1>2. Bit(seg.syn) \in 0 .. 1 /\ Bit(seg.fin) \in 0 .. 1
  BY DEF Bit
<1> QED BY <1>1, <1>2 DEF LengthInSequenceSpace

\* The fields of a sender.
LEMMA Fields ==
    ASSUME NEW s, SenderWell(s)
    PROVE  /\ s.isn \in WrappingInt32
           /\ s.initial_timeout \in Nat /\ s.initial_timeout > 0
           /\ s.outgoing \in Seq(Entry) /\ Len(s.outgoing) \in Nat
           /\ s.segments_out \in Seq(Segment)
           /\ s.next_seqno \in Nat /\ s.outgoing_bytes \in Nat /\ s.win_size \in Nat
           /\ s.timeout \in Nat /\ s.timecount \in Nat /\ s.consecutive \in Nat
           /\ s.syn \in BOOLEAN /\ s.fin \in BOOLEAN
           /\ s.stream.buff \in Seq(Nat) /\ Len(s.stream.buff) \in Nat
           /\ s.stream.totin \in Nat /\ s.stream.totout \in Nat
           /\ s.stream.isInputEnd \in BOOLEAN
           /\ Bit(s.syn) \in 0 .. 1 /\ Bit(s.fin) \in 0 .. 1
<1>1. s \in TCPSenderState /\ s.stream \in ByteStreamState(Nat)
  BY DEF SenderWell, TCPSenderState
<1>2. s.outgoing \in Seq(Entry) /\ s.stream.buff \in Seq(Nat)
  BY <1>1 DEF TCPSenderState, ByteStreamState, Entry
<1>3. Len(s.outgoing) \in Nat /\ Len(s.stream.buff) \in Nat
  BY <1>2, LenProperties
<1>4. Bit(s.syn) \in 0 .. 1 /\ Bit(s.fin) \in 0 .. 1
  BY DEF Bit
<1>5. /\ s.stream.totin \in Nat /\ s.stream.totout \in Nat
      /\ s.stream.isInputEnd \in BOOLEAN
  BY <1>1 DEF ByteStreamState
<1> QED BY <1>1, <1>2, <1>3, <1>4, <1>5 DEF TCPSenderState

\* next_seqno is a number of the stream.
LEMMA SeqnoBound ==
    ASSUME NEW s, SenderWell(s)
    PROVE  s.next_seqno \in 0 .. s.stream.totin + 2
<1> DEFINE x == s.next_seqno
           m == s.stream.totin
           z == s.stream.totout
           k == Len(s.stream.buff)
           y == Bit(s.syn)
           f == Bit(s.fin)
<1>1. /\ x \in Nat /\ m \in Nat /\ z \in Nat /\ k \in Nat /\ y \in 0 .. 1 /\ f \in 0 .. 1
  BY Fields
<1>2. x = z + y + f /\ m = z + k
  BY DEF SenderWell, InPlace
<1> HIDE DEF x, m, z, k, y, f
<1>3. x \in 0 .. m + 2
  BY <1>1, <1>2
<1> QED BY <1>3 DEF x, m

\* Queueing a segment of the stream.
LEMMA AppendOfStream ==
    ASSUME NEW s, NEW q \in Seq(Segment), \A i \in 1 .. Len(q) : OfStream(q[i], s),
           NEW seg \in Segment, OfStream(seg, s)
    PROVE  /\ Append(q, seg) \in Seq(Segment)
           /\ \A i \in 1 .. Len(Append(q, seg)) : OfStream(Append(q, seg)[i], s)
<1>1. /\ Append(q, seg) \in Seq(Segment) /\ Len(Append(q, seg)) = Len(q) + 1
      /\ Len(q) \in Nat
      /\ \A i \in 1 .. Len(q) : Append(q, seg)[i] = q[i]
      /\ Append(q, seg)[Len(q) + 1] = seg
  BY AppendProperties, LenProperties
<1>2. ASSUME NEW i \in 1 .. Len(q) + 1 PROVE OfStream(Append(q, seg)[i], s)
  <2>1. i = Len(q) + 1 \/ i \in 1 .. Len(q)
    BY <1>1
  <2> QED BY <1>1, <2>1
<1> QED BY <1>1, <1>2

\* The payload of the next segment is the head of the stream's buffer and fits
\* the window.
LEMMA PayloadFacts ==
    ASSUME NEW s, SenderWell(s), NEW win \in Nat, win > s.outgoing_bytes
    PROVE  /\ NextPayload(s, win) \in Seq(Nat)
           /\ Len(NextPayload(s, win)) \in Nat
           /\ Len(NextPayload(s, win)) <= Len(s.stream.buff)
           /\ Len(NextPayload(s, win)) + s.outgoing_bytes + Bit(~s.syn) <= win
           /\ \A j \in 1 .. Len(NextPayload(s, win)) :
                 NextPayload(s, win)[j] = s.stream.buff[j]
<1> DEFINE len == Lesser(MAX_PAYLOAD_SIZE, win - s.outgoing_bytes - Bit(~s.syn))
<1>1. s.outgoing_bytes \in Nat /\ Bit(~s.syn) \in 0 .. 1 /\ s.stream \in Bounded(Nat)
  BY Fields DEF Bit, SenderWell
<1>2. len \in Nat /\ len + s.outgoing_bytes + Bit(~s.syn) <= win
  BY <1>1, PayloadAssumption DEF Lesser
<1> HIDE DEF len
<1>3. NextPayload(s, win) = PeekOutput(s.stream, len)
  BY DEF NextPayload, len
<1>4. /\ PeekOutput(s.stream, len) \in Seq(Nat)
      /\ Len(PeekOutput(s.stream, len)) <= len
      /\ Len(PeekOutput(s.stream, len)) <= Len(s.stream.buff)
      /\ \A j \in 1 .. Len(PeekOutput(s.stream, len)) :
            PeekOutput(s.stream, len)[j] = s.stream.buff[j]
  BY <1>1, <1>2, PeekFacts
<1>5. Len(PeekOutput(s.stream, len)) \in Nat
  BY <1>4, LenProperties
<1>6. Len(PeekOutput(s.stream, len)) + s.outgoing_bytes + Bit(~s.syn) <= win
  BY <1>1, <1>2, <1>4, <1>5
<1> QED BY <1>3, <1>4, <1>5, <1>6

\* The segment one iteration builds.
LEMMA SegmentFacts ==
    ASSUME NEW s, SenderWell(s), NEW win \in Nat, win > s.outgoing_bytes
    PROVE  /\ NextSegment(s, win) \in Segment
           /\ NextSegment(s, win).seqno = Wrap(s.next_seqno, s.isn)
           /\ NextSegment(s, win).syn <=> ~s.syn
           /\ NextSegment(s, win).fin <=> NextFin(s, win)
           /\ NextSegment(s, win).payload = NextPayload(s, win)
           /\ Bare(NextSegment(s, win))
<1>1. s.next_seqno \in Nat /\ s.isn \in WrappingInt32
  BY Fields
<1>2. Wrap(s.next_seqno, s.isn) \in WrappingInt32
  BY <1>1, WrapType
<1>3. 0 \in WrappingInt32
  BY MAssumption DEF WrappingInt32
<1>4. NextFin(s, win) \in BOOLEAN
  BY DEF NextFin
<1>5. s.syn \in BOOLEAN /\ NextPayload(s, win) \in Seq(Nat)
  BY Fields, PayloadFacts
<1> DEFINE y == ~s.syn
           f == NextFin(s, win)
           p == NextPayload(s, win)
           q == Wrap(s.next_seqno, s.isn)
<1>6. NextSegment(s, win) = [EmptySegment(q) EXCEPT !.syn = y, !.fin = f, !.payload = p]
  BY <1>1 DEF NextSegment, NextSeqno
<1>7. y \in BOOLEAN /\ f \in BOOLEAN /\ p \in Seq(Nat) /\ q \in WrappingInt32
  BY <1>2, <1>4, <1>5
<1> HIDE DEF y, f, p, q
<1>8. NextSegment(s, win) \in Segment
  <2>1. EmptySegment(q) \in Segment
    BY <1>3, <1>7, EmptySeq DEF Segment, EmptySegment
  <2> QED BY Zenon, <1>6, <1>7, <2>1 DEF Segment
<1>9. /\ NextSegment(s, win).syn = y /\ NextSegment(s, win).fin = f
      /\ NextSegment(s, win).payload = p /\ NextSegment(s, win).seqno = q
  BY <1>6, <1>7 DEF EmptySegment
<1>10. Bare(NextSegment(s, win))
  BY <1>6, <1>7 DEF EmptySegment, Bare
<1> QED BY Zenon, <1>8, <1>9, <1>10 DEF y, f, p, q

\* The stream once the payload is read.
LEMMA ReadStream ==
    ASSUME NEW s, SenderWell(s), NEW n \in Nat, n <= Len(s.stream.buff)
    PROVE  LET b == StreamRead(s.stream, n)
           IN  /\ b \in Bounded(Nat)
               /\ b.isInputEnd = s.stream.isInputEnd
               /\ b.totin = s.stream.totin
               /\ b.totout = s.stream.totout + n
               /\ Len(b.buff) = Len(s.stream.buff) - n
               /\ \A i \in 1 .. Len(b.buff) : b.buff[i] = s.stream.buff[i + n]
<1>1. s.stream \in Bounded(Nat) /\ Len(s.stream.buff) \in Nat
  BY Fields DEF SenderWell
<1>2. Lesser(n, Len(s.stream.buff)) = n
  BY <1>1 DEF Lesser
<1>3. StreamRead(s.stream, n) = PopOutput(s.stream, n)
  BY <1>1, ReadFacts
<1> DEFINE c == s.stream
           m == Lesser(n, Len(c.buff))
           b == PopOutput(c, n)
<1>4. c \in Bounded(Nat)
  BY <1>1
<1> HIDE DEF c
<1>5. /\ b \in Bounded(Nat) /\ SameButBytes(b, c) /\ b.totin = c.totin
      /\ b.totout = c.totout + m
      /\ Len(b.buff) = Len(c.buff) - m
      /\ \A i \in 1 .. Len(b.buff) : b.buff[i] = c.buff[i + m]
  BY <1>4, PopFacts
<1>6. m = n
  BY <1>2 DEF c
<1>7. StreamRead(s.stream, n) = b
  BY <1>3 DEF c
<1> HIDE DEF m, b
<1> QED BY <1>5, <1>6, <1>7 DEF SameButBytes, c

\* An idle timer is restarted; nothing else changes.
LEMMA RestartFacts ==
    ASSUME NEW s, SenderWell(s)
    PROVE  LET r == RestartIfIdle(s)
           IN  /\ r \in TCPSenderState
               /\ r.isn = s.isn /\ r.initial_timeout = s.initial_timeout
               /\ r.stream = s.stream /\ r.segments_out = s.segments_out
               /\ r.next_seqno = s.next_seqno /\ r.consecutive = s.consecutive
               /\ r.outgoing = s.outgoing /\ r.outgoing_bytes = s.outgoing_bytes
               /\ r.syn = s.syn /\ r.fin = s.fin /\ r.win_size = s.win_size
               /\ r.timecount < r.timeout /\ r.timeout >= s.initial_timeout
<1>1. s \in TCPSenderState /\ Armed(s)
  BY DEF SenderWell
<1>2. CASE s.outgoing = <<>>
  <2>1. RestartIfIdle(s) = [s EXCEPT !.timeout = s.initial_timeout, !.timecount = 0]
    BY <1>2 DEF RestartIfIdle
  <2> DEFINE r == RestartIfIdle(s)
  <2> HIDE DEF r
  <2>2. r = [s EXCEPT !.timeout = s.initial_timeout, !.timecount = 0]
    BY <2>1 DEF r
  <2>3. r \in TCPSenderState
    BY Zenon, <1>1, <2>2 DEF TCPSenderState
  <2>4. /\ r.isn = s.isn /\ r.initial_timeout = s.initial_timeout
        /\ r.stream = s.stream /\ r.segments_out = s.segments_out
        /\ r.next_seqno = s.next_seqno /\ r.consecutive = s.consecutive
        /\ r.outgoing = s.outgoing /\ r.outgoing_bytes = s.outgoing_bytes
        /\ r.syn = s.syn /\ r.fin = s.fin /\ r.win_size = s.win_size
        /\ r.timecount = 0 /\ r.timeout = s.initial_timeout
    BY <1>1, <2>2 DEF TCPSenderState
  <2>5. r.timecount < r.timeout /\ r.timeout >= s.initial_timeout
    BY <1>1, <2>4, Fields
  <2> QED BY <2>3, <2>4, <2>5 DEF r
<1>3. CASE s.outgoing # <<>>
  <2>1. RestartIfIdle(s) = s
    BY <1>3 DEF RestartIfIdle
  <2> QED BY <1>1, <1>3, <2>1 DEF Armed
<1> QED BY <1>2, <1>3

\* The state after an iteration that sends seg.
LEMMA SendFacts ==
    ASSUME NEW s, SenderWell(s), NEW seg \in Segment, Len(seg.payload) <= Len(s.stream.buff)
    PROVE  LET t == SendNew(s, seg)
           IN  /\ t \in TCPSenderState
               /\ t.isn = s.isn /\ t.initial_timeout = s.initial_timeout
               /\ t.stream = StreamRead(s.stream, Len(seg.payload))
               /\ t.segments_out = Append(s.segments_out, seg)
               /\ t.outgoing = Append(s.outgoing, [key |-> s.next_seqno, seg |-> seg])
               /\ t.outgoing_bytes = s.outgoing_bytes + LengthInSequenceSpace(seg)
               /\ t.next_seqno = s.next_seqno + LengthInSequenceSpace(seg)
               /\ t.syn /\ (t.fin <=> (s.fin \/ seg.fin))
               /\ t.win_size = s.win_size
               /\ t.timecount < t.timeout /\ t.timeout >= s.initial_timeout
<1> DEFINE r == RestartIfIdle(s)
           b == StreamRead(s.stream, Len(seg.payload))
           e == [key |-> s.next_seqno, seg |-> seg]
           n == LengthInSequenceSpace(seg)
           f == s.fin \/ seg.fin
           q == Append(s.segments_out, seg)
           o == Append(s.outgoing, e)
           x == s.next_seqno + n
           y == s.outgoing_bytes + n
<1>1. /\ r \in TCPSenderState
      /\ r.isn = s.isn /\ r.initial_timeout = s.initial_timeout
      /\ r.stream = s.stream /\ r.segments_out = s.segments_out
      /\ r.next_seqno = s.next_seqno /\ r.consecutive = s.consecutive
      /\ r.outgoing = s.outgoing /\ r.outgoing_bytes = s.outgoing_bytes
      /\ r.syn = s.syn /\ r.fin = s.fin /\ r.win_size = s.win_size
      /\ r.timecount < r.timeout /\ r.timeout >= s.initial_timeout
  BY RestartFacts
<1>2. b \in ByteStreamState(Nat)
  <2>1. Len(seg.payload) \in Nat
    BY SegmentLength
  <2> QED BY <2>1, ReadStream DEF Bounded
<1>3. n \in Nat /\ x \in Nat /\ y \in Nat
  BY SegmentLength, Fields
<1>4. q \in Seq(Segment)
  BY Fields, AppendProperties
<1>5. o \in Seq([key : Nat, seg : Segment])
  <2>1. e \in Entry
    BY Fields DEF Entry
  <2> HIDE DEF e
  <2> QED BY Zenon, <2>1, Fields, AppendProperties DEF Entry
<1>6. f \in BOOLEAN
  BY Fields
<1>7. SendNew(s, seg) = [r EXCEPT !.syn = TRUE, !.fin = f, !.stream = b,
                                  !.segments_out = q, !.outgoing = o,
                                  !.outgoing_bytes = y, !.next_seqno = x]
  <2> HIDE DEF r
  <2> QED BY <1>1 DEF SendNew, r
<1> HIDE DEF r, b, e, n, f, q, o, x, y
<1>8. SendNew(s, seg) \in TCPSenderState
  BY <1>1, <1>2, <1>3, <1>4, <1>5, <1>6, <1>7, ZenonT(60) DEF TCPSenderState
<1>9. LET t == SendNew(s, seg)
      IN  /\ t.isn = r.isn /\ t.initial_timeout = r.initial_timeout
          /\ t.segments_out = q
          /\ t.stream = b /\ t.outgoing = o /\ t.outgoing_bytes = y
          /\ t.next_seqno = x /\ t.syn /\ t.fin = f
          /\ t.win_size = r.win_size
          /\ t.timecount = r.timecount /\ t.timeout = r.timeout
  BY <1>1, <1>7 DEF TCPSenderState
<1> QED BY Zenon, <1>1, <1>8, <1>9 DEF b, o, y, x, f, e, n, q

\* One iteration of fill_window() that sends keeps the invariants.  The segment it
\* adds starts at next_seqno, where the last one ended, and carries the bytes the
\* stream holds there; once FIN is sent no further segment is.
LEMMA SendKeepsWell ==
    ASSUME NEW s, SenderWell(s), NEW win \in Nat, win > s.outgoing_bytes,
           LengthInSequenceSpace(NextSegment(s, win)) > 0
    PROVE  /\ SenderWell(SendNew(s, NextSegment(s, win)))
           /\ SameStream(s, SendNew(s, NextSegment(s, win)))
<1> DEFINE seg == NextSegment(s, win)
           p == seg.payload
           t == SendNew(s, seg)
           e == [key |-> s.next_seqno, seg |-> seg]
           n == LengthInSequenceSpace(seg)
           o == s.outgoing
           L == Len(s.outgoing)
<1>1. /\ seg \in Segment /\ seg.seqno = Wrap(s.next_seqno, s.isn)
      /\ (seg.syn <=> ~s.syn) /\ (seg.fin <=> NextFin(s, win))
      /\ p = NextPayload(s, win)
  BY SegmentFacts
<1>bare. Bare(seg)
  BY SegmentFacts
<1>2. /\ Len(p) \in Nat /\ Len(p) <= Len(s.stream.buff)
      /\ Len(p) + s.outgoing_bytes + Bit(~s.syn) <= win
      /\ \A j \in 1 .. Len(p) : p[j] = s.stream.buff[j]
  BY <1>1, PayloadFacts
<1>3. n \in Nat /\ n = Len(p) + Bit(seg.syn) + Bit(seg.fin) /\ n > 0
  BY <1>1, SegmentLength
<1>4. seg.fin => ~s.fin /\ StreamEof(StreamRead(s.stream, Len(p)))
  BY <1>1 DEF NextFin
<1> DEFINE b == StreamRead(s.stream, Len(p))
<1>b. /\ b \in Bounded(Nat)
      /\ b.isInputEnd = s.stream.isInputEnd
      /\ b.totin = s.stream.totin
      /\ b.totout = s.stream.totout + Len(p)
      /\ Len(b.buff) = Len(s.stream.buff) - Len(p)
      /\ \A i \in 1 .. Len(b.buff) : b.buff[i] = s.stream.buff[i + Len(p)]
  <2> DEFINE k == Len(p)
  <2>1. k \in Nat /\ k <= Len(s.stream.buff)
    BY <1>2
  <2> HIDE DEF k
  <2> DEFINE c == StreamRead(s.stream, k)
  <2>2. /\ c \in Bounded(Nat)
        /\ c.isInputEnd = s.stream.isInputEnd
        /\ c.totin = s.stream.totin
        /\ c.totout = s.stream.totout + k
        /\ Len(c.buff) = Len(s.stream.buff) - k
        /\ \A i \in 1 .. Len(c.buff) : c.buff[i] = s.stream.buff[i + k]
    BY Zenon, <2>1, ReadStream
  <2> QED BY Zenon, <2>2 DEF k
<1> HIDE DEF seg
<1>5. /\ t \in TCPSenderState
      /\ t.isn = s.isn /\ t.initial_timeout = s.initial_timeout
      /\ t.stream = b
      /\ t.segments_out = Append(s.segments_out, seg)
      /\ t.outgoing = Append(o, e)
      /\ t.outgoing_bytes = s.outgoing_bytes + n
      /\ t.next_seqno = s.next_seqno + n
      /\ t.syn /\ (t.fin <=> (s.fin \/ seg.fin))
      /\ t.timecount < t.timeout /\ t.timeout >= s.initial_timeout
  BY <1>1, <1>2, SendFacts
<1>6. /\ t.stream \in Bounded(Nat)
      /\ t.stream.isInputEnd = s.stream.isInputEnd
      /\ t.stream.totin = s.stream.totin
      /\ t.stream.totout = s.stream.totout + Len(p)
      /\ Len(t.stream.buff) = Len(s.stream.buff) - Len(p)
      /\ \A i \in 1 .. Len(t.stream.buff) : t.stream.buff[i] = s.stream.buff[i + Len(p)]
  <2> HIDE DEF b
  <2> QED BY <1>5, <1>b
<1> HIDE DEF t, p, b
<1>7. /\ Len(t.outgoing) = L + 1 /\ L \in Nat
      /\ \A i \in 1 .. L : t.outgoing[i] = o[i]
      /\ t.outgoing[L + 1] = e
  <2>1. e \in Entry
    BY <1>1, Fields DEF Entry
  <2> HIDE DEF e
  <2> QED BY <1>5, <2>1, Fields, AppendProperties
<1>8. EndOf(e) = s.next_seqno + n /\ e.key = s.next_seqno /\ e.seg = seg
  BY DEF EndOf
<1> HIDE DEF e, n
<1>9. \A i \in 1 .. L : /\ EndOf(t.outgoing[i]) = EndOf(o[i])
                        /\ t.outgoing[i].key = o[i].key
                        /\ t.outgoing[i].seg = o[i].seg
  BY <1>7
<1>10. EndOf(t.outgoing[L + 1]) = t.next_seqno /\ t.outgoing[L + 1].key = s.next_seqno
  BY <1>5, <1>7, <1>8
<1>fin. ~s.fin
  <2>1. SUFFICES ASSUME s.fin PROVE FALSE
    OBVIOUS
  <2>2. s.stream.buff = <<>> /\ s.syn
    BY <2>1 DEF SenderWell, FinIsLast, StreamEof, InPlace
  <2>3. Len(s.stream.buff) = 0
    BY <2>2
  <2>4. Len(p) = 0 /\ ~seg.fin /\ ~seg.syn
    <3>1. Len(p) = 0
      BY <1>2, <2>3
    <3> QED BY <1>1, <1>4, <2>1, <2>2, <3>1
  <2> QED BY <1>3, <2>4 DEF Bit
<1>11. InPlace(t)
  <2>1. t.next_seqno = t.stream.totout + Bit(t.syn) + Bit(t.fin)
    <3>1. s.next_seqno = s.stream.totout + Bit(s.syn)
      BY <1>fin, Fields DEF SenderWell, InPlace, Bit
    <3>2. Bit(t.fin) = Bit(seg.fin) /\ Bit(t.syn) = Bit(s.syn) + Bit(seg.syn)
      BY <1>1, <1>5, <1>fin, Fields DEF Bit
    <3>3. /\ s.stream.totout \in Nat /\ Bit(s.syn) \in 0 .. 1
          /\ Bit(seg.syn) \in 0 .. 1 /\ Bit(seg.fin) \in 0 .. 1
      BY <1>1, Fields, SegmentLength
    <3>4. n = Len(p) + Bit(seg.syn) + Bit(seg.fin) /\ Len(p) \in Nat
      BY <1>2, <1>3
    <3>5. t.next_seqno = s.next_seqno + n /\ t.stream.totout = s.stream.totout + Len(p)
      BY <1>5, <1>6
    <3> DEFINE x == s.next_seqno
               z == s.stream.totout
               y == Bit(s.syn)
               u == Bit(seg.syn)
               v == Bit(seg.fin)
               k == Len(p)
    <3>6. /\ x = z + y /\ n = k + u + v
          /\ z \in Int /\ y \in Int /\ u \in Int /\ v \in Int /\ k \in Int
      BY <3>1, <3>3, <3>4
    <3>7. /\ t.next_seqno = x + n /\ t.stream.totout = z + k
          /\ Bit(t.syn) = y + u /\ Bit(t.fin) = v
      BY <3>2, <3>5
    <3> HIDE DEF x, y, z, u, v, k
    <3>8. x + n = (z + k) + (y + u) + v
      BY <3>6
    <3> QED BY <3>7, <3>8
  <2>2. t.stream.totin = t.stream.totout + Len(t.stream.buff)
    <3> DEFINE k == Len(p)
               m == s.stream.totin
               z == s.stream.totout
               u == Len(s.stream.buff)
    <3>1. /\ t.stream.totin = m /\ t.stream.totout = z + k /\ Len(t.stream.buff) = u - k
          /\ m = z + u /\ z \in Nat /\ u \in Nat /\ k \in Nat
      BY <1>2, <1>6, Fields DEF SenderWell, InPlace
    <3> HIDE DEF k, m, z, u
    <3> QED BY <3>1
  <2>3. ASSUME NEW i \in 1 .. Len(t.stream.buff)
        PROVE  t.stream.buff[i] = t.stream.totout + i - 1
    <3>1. i + Len(p) \in 1 .. Len(s.stream.buff)
      BY <1>2, <1>6, Fields, SMTT(30)
    <3>2. s.stream.buff[i + Len(p)] = s.stream.totout + (i + Len(p)) - 1
      BY <3>1 DEF SenderWell, InPlace
    <3> QED BY <1>2, <1>6, <3>2, Fields, SMTT(30)
  <2> QED BY Zenon, <1>5, <2>1, <2>2, <2>3 DEF InPlace
<1>12. NonePast(t)
  <2>1. ASSUME NEW i \in 1 .. L + 1 PROVE EndOf(t.outgoing[i]) <= t.next_seqno
    <3>1. CASE i = L + 1
      BY <1>3, <1>5, <1>10, <3>1, Fields DEF n
    <3>2. CASE i \in 1 .. L
      <4>1. EndOf(o[i]) <= s.next_seqno /\ o[i] \in Entry
        BY <3>2, Fields, ElementOfSeq DEF SenderWell, NonePast
      <4>2. EndOf(o[i]) \in Nat
        BY <4>1, SegmentLength DEF EndOf, Entry
      <4> QED BY <1>3, <1>5, <1>9, <3>2, <4>1, <4>2, Fields DEF n
    <3> QED BY <1>7, <3>1, <3>2
  <2> QED BY <1>7, <2>1 DEF NonePast
<1>13. ContiguousFlight(t)
  <2>1. ASSUME NEW i \in 1 .. L + 1
        PROVE  /\ EndOf(t.outgoing[i]) > t.outgoing[i].key
               /\ EndOf(t.outgoing[i]) = IF i = L + 1 THEN t.next_seqno
                                         ELSE t.outgoing[i + 1].key
    <3>1. CASE i = L + 1
      BY <1>3, <1>5, <1>10, <3>1, Fields DEF n
    <3>2. CASE i = L
      <4>1. EndOf(o[i]) > o[i].key /\ EndOf(o[i]) = s.next_seqno
        BY <1>7, <3>2 DEF SenderWell, ContiguousFlight
      <4> QED BY <1>7, <1>9, <1>10, <3>2, <4>1
    <3>3. CASE i \in 1 .. L - 1
      <4>1. /\ EndOf(o[i]) > o[i].key /\ EndOf(o[i]) = o[i + 1].key
            /\ i \in 1 .. L /\ i + 1 \in 1 .. L
        BY <1>7, <3>3 DEF SenderWell, ContiguousFlight
      <4> QED BY <1>7, <1>9, <3>3, <4>1
    <3> QED BY <1>7, <3>1, <3>2, <3>3
  <2>2. t.outgoing # <<>>
    BY <1>7
  <2>3. t.outgoing_bytes = t.next_seqno - t.outgoing[1].key
    <3>1. CASE o = <<>>
      <4>1. L = 0 /\ s.outgoing_bytes = 0
        BY <3>1 DEF SenderWell, ContiguousFlight
      <4> QED BY <1>3, <1>5, <1>10, <4>1, Fields DEF n
    <3>2. CASE o # <<>>
      <4>1. L \in Nat \ {0} /\ o[1] \in Entry
        BY <3>2, Fields, EmptySeq, ElementOfSeq
      <4>2. s.outgoing_bytes = s.next_seqno - o[1].key /\ o[1].key \in Nat
        BY <3>2, <4>1 DEF SenderWell, ContiguousFlight, Entry
      <4>3. t.outgoing[1].key = o[1].key
        BY <1>9, <4>1
      <4> QED BY <1>3, <1>5, <4>2, <4>3, Fields, SMTT(30) DEF n
    <3> QED BY <3>1, <3>2
  <2> QED BY <1>7, <2>1, <2>2, <2>3 DEF ContiguousFlight
<1>14. Armed(t)
  BY <1>5 DEF Armed
<1>15. CarriesStream(t)
  <2> DEFINE Carries(x) == /\ x.seg.seqno = Wrap(x.key, s.isn)
                           /\ x.seg.syn <=> x.key = 0
                           /\ \A j \in 1 .. Len(x.seg.payload) :
                                 x.seg.payload[j] = x.key + Bit(x.seg.syn) + j - 2
  <2>1. Carries(e)
    <3>1. seg.syn <=> s.next_seqno = 0
      <4>1. /\ s.next_seqno = s.stream.totout + Bit(s.syn) + Bit(s.fin)
            /\ ~s.syn => s.stream.totout = 0 /\ ~s.fin
        BY DEF SenderWell, InPlace
      <4>2. s.stream.totout \in Nat /\ Bit(s.fin) \in 0 .. 1
        BY Fields
      <4>3. CASE s.syn
        BY <1>1, <4>1, <4>2, <4>3 DEF Bit
      <4>4. CASE ~s.syn
        BY <1>1, <4>1, <4>2, <4>4 DEF Bit
      <4> QED BY <4>3, <4>4
    <3>2. ASSUME NEW j \in 1 .. Len(p)
          PROVE  p[j] = s.next_seqno + Bit(seg.syn) + j - 2
      <4>1. j \in 1 .. Len(s.stream.buff) /\ p[j] = s.stream.buff[j]
        BY <1>2, Fields
      <4>2. p[j] = s.stream.totout + j - 1
        BY <4>1 DEF SenderWell, InPlace
      <4>3. s.next_seqno + Bit(seg.syn) = s.stream.totout + 1
        BY <1>1, <1>fin, Fields DEF SenderWell, InPlace, Bit
      <4>4. j \in Nat /\ Bit(seg.syn) \in 0 .. 1
        BY <1>1, <1>2, SegmentLength
      <4>5. s.stream.totout \in Nat /\ s.next_seqno \in Nat
        BY Fields
      <4> DEFINE y == Bit(seg.syn)
                 x == s.next_seqno
                 z == s.stream.totout
      <4>6. x + y = z + 1 /\ y \in Int /\ x \in Int /\ z \in Int /\ p[j] = z + j - 1
        BY <4>2, <4>3, <4>4, <4>5
      <4> HIDE DEF x, y, z
      <4>7. p[j] = x + y + j - 2
        BY <4>4, <4>6
      <4> QED BY <4>7 DEF x, y, z
    <3> QED BY <1>1, <1>8, <3>1, <3>2 DEF p
  <2>2. ASSUME NEW i \in 1 .. L PROVE Carries(o[i])
    BY DEF SenderWell, CarriesStream
  <2>3. ASSUME NEW i \in 1 .. L + 1 PROVE Carries(t.outgoing[i])
    <3> HIDE DEF Carries
    <3>1. i = L + 1 \/ i \in 1 .. L
      BY <1>7
    <3> QED BY <1>7, <2>1, <2>2, <3>1
  <2> QED BY <1>5, <1>7, <2>3, SMTT(40) DEF CarriesStream, SenderWell
<1>16. FinIsLast(t)
  <2>1. ASSUME t.fin PROVE StreamEof(t.stream) /\ t.next_seqno = t.stream.totin + 2
    <3>1. seg.fin
      BY <1>5, <1>fin, <2>1
    <3>2. StreamEof(t.stream)
      BY <1>4, <1>5, <3>1 DEF b
    <3>3. Len(t.stream.buff) = 0
      BY <3>2 DEF StreamEof
    <3>4. Bit(t.syn) = 1 /\ Bit(t.fin) = 1
      BY <1>5, <2>1 DEF Bit
    <3>5. /\ t.next_seqno = t.stream.totout + Bit(t.syn) + Bit(t.fin)
          /\ t.stream.totin = t.stream.totout + Len(t.stream.buff)
      BY <1>11 DEF InPlace
    <3>6. t.stream.totout \in Nat
      BY <1>6 DEF Bounded, ByteStreamState
    <3>7. t.next_seqno = t.stream.totin + 2
      BY <3>3, <3>4, <3>5, <3>6
    <3> QED BY <3>2, <3>7
  <2>2. ASSUME NEW i \in 1 .. L + 1, t.outgoing[i].seg.fin PROVE t.fin /\ i = L + 1
    <3>1. CASE i = L + 1
      BY <1>5, <1>7, <1>8, <2>2, <3>1
    <3>2. CASE i \in 1 .. L
      <4>1. o[i].seg.fin
        BY <1>9, <2>2, <3>2
      <4>2. s.fin
        BY <3>2, <4>1 DEF SenderWell, FinIsLast
      <4> QED BY <1>fin, <4>2
    <3> QED BY <1>7, <3>1, <3>2
  <2> QED BY <1>7, <2>1, <2>2 DEF FinIsLast
<1>17. SameStream(s, t)
  BY <1>5, <1>6 DEF SameStream
<1>18. OfStream(seg, s)
  <2> DEFINE z == s.stream.totout
             m == s.stream.totin
             a == s.next_seqno
             y == Bit(seg.syn)
             k == Len(p)
  <2>1. a + y = z + 1
    BY <1>1, <1>fin, Fields DEF SenderWell, InPlace, Bit
  <2>2. /\ a \in Nat /\ z \in Nat /\ m \in Nat /\ y \in 0 .. 1 /\ k \in Nat
    BY <1>1, <1>2, Fields, SegmentLength
  <2>3. m = z + Len(s.stream.buff) /\ k <= Len(s.stream.buff) /\ Len(s.stream.buff) \in Nat
    BY <1>2, Fields DEF SenderWell, InPlace
  <2>4. a \in 0 .. m + 2 /\ a + y >= 1 /\ a + y + k <= m + 1
    <3> HIDE DEF a, y, z, m, k
    <3> QED BY <2>1, <2>2, <2>3
  <2>5. seg.syn => a = 0
    BY <1>1, Fields DEF SenderWell, InPlace, Bit
  <2>6. seg.fin => s.stream.isInputEnd /\ a + y + k = m + 1
    <3>1. SUFFICES ASSUME seg.fin PROVE s.stream.isInputEnd /\ a + y + k = m + 1
      OBVIOUS
    <3>2. StreamEof(b)
      BY <1>4, <3>1 DEF b
    <3>3. b.isInputEnd /\ Len(b.buff) = 0
      BY <3>2 DEF StreamEof
    <3>4. s.stream.isInputEnd /\ Len(s.stream.buff) = k
      <4>1. b.isInputEnd = s.stream.isInputEnd /\ Len(b.buff) = Len(s.stream.buff) - k
        BY <1>b
      <4> HIDE DEF k
      <4> QED BY <2>2, <2>3, <3>3, <4>1
    <3> HIDE DEF a, y, z, m, k
    <3> QED BY <2>1, <2>2, <2>3, <3>4
  <2>7. FromStream(p, a + y - 1)
    <3>1. ASSUME NEW j \in 1 .. k PROVE p[j] = (a + y - 1) + j - 1
      <4>1. j \in 1 .. Len(s.stream.buff) /\ p[j] = s.stream.buff[j]
        BY <1>2, <2>3
      <4>2. p[j] = z + j - 1
        BY <4>1 DEF SenderWell, InPlace
      <4>3. j \in Nat
        BY <2>2
      <4> HIDE DEF a, y, z, m, k
      <4> QED BY <2>1, <2>2, <4>2, <4>3
    <3> QED BY <3>1 DEF FromStream
  <2>8. seg.seqno = Wrap(a, s.isn)
    BY <1>1
  <2>9. Numbered(seg, a, s.isn, m, s.stream.isInputEnd)
    <3> HIDE DEF a, m
    <3> QED BY <2>4, <2>5, <2>6, <2>7, <2>8 DEF Numbered, p
  <2> QED BY <1>bare, <2>4, <2>9 DEF OfStream, InStream
<1>19. Queued(t)
  <2> DEFINE q == s.segments_out
             K == Len(s.segments_out)
  <2>1. /\ Len(t.segments_out) = K + 1 /\ K \in Nat
        /\ \A i \in 1 .. K : t.segments_out[i] = q[i]
        /\ t.segments_out[K + 1] = seg
    BY <1>1, <1>5, Fields, LenProperties, AppendProperties
  <2>2. /\ \A i \in 1 .. K : OfStream(q[i], s)
        /\ \A i \in 1 .. L : OfStream(o[i].seg, s)
    BY DEF SenderWell, Queued
  <2> HIDE DEF q, K
  <2>3. ASSUME NEW i \in 1 .. K + 1 PROVE OfStream(t.segments_out[i], t)
    <3>1. OfStream(t.segments_out[i], s)
      <4>1. i = K + 1 \/ i \in 1 .. K
        BY <2>1
      <4> QED BY <1>18, <2>1, <2>2, <4>1
    <3> QED BY <1>17, <3>1, OfStreamSame
  <2>4. ASSUME NEW i \in 1 .. L + 1 PROVE OfStream(t.outgoing[i].seg, t)
    <3>1. OfStream(t.outgoing[i].seg, s)
      <4>1. i = L + 1 \/ i \in 1 .. L
        BY <1>7
      <4> QED BY <1>7, <1>8, <1>9, <1>18, <2>2, <4>1
    <3> QED BY <1>17, <3>1, OfStreamSame
  <2> QED BY <1>7, <2>1, <2>3, <2>4 DEF Queued
<1>20. SenderWell(t)
  BY <1>5, <1>6, <1>11, <1>12, <1>13, <1>14, <1>15, <1>16, <1>19 DEF SenderWell
<1> QED BY <1>17, <1>20 DEF t, seg

\* The window in force.
LEMMA TargetFacts ==
    ASSUME NEW s, SenderWell(s)
    PROVE  FillTarget(s) \in Nat /\ FillTarget(s) > 0
BY Fields DEF FillTarget

\* One iteration keeps what is acknowledged and what is outstanding apart.
LEMMA FillOnceGood ==
    ASSUME NEW a \in Nat, NEW base, NEW s \in Good(a, base)
    PROVE  FillOnce(s) \in Good(a, base)
<1> DEFINE win == FillTarget(s)
           seg == NextSegment(s, win)
           t == SendNew(s, seg)
<1>1. /\ SenderWell(s) /\ Kept(s, a) /\ a <= s.next_seqno /\ s \in TCPSenderState
      /\ SameStream(base, s)
  BY DEF Good
<1>2. CASE ~(win > s.outgoing_bytes /\ LengthInSequenceSpace(seg) > 0)
  <2>1. FillOnce(s) = s
    BY <1>2 DEF FillOnce
  <2> QED BY <2>1
<1>3. CASE win > s.outgoing_bytes /\ LengthInSequenceSpace(seg) > 0
  <2>1. FillOnce(s) = t
    BY <1>3 DEF FillOnce
  <2>2. win \in Nat
    BY <1>1, TargetFacts
  <2> HIDE DEF win
  <2>3. SenderWell(t) /\ SameStream(s, t)
    BY <1>1, <1>3, <2>2, SendKeepsWell
  <2>4. seg \in Segment /\ Len(seg.payload) <= Len(s.stream.buff)
    BY <1>1, <1>3, <2>2, SegmentFacts, PayloadFacts
  <2> HIDE DEF seg
  <2> DEFINE e == [key |-> s.next_seqno, seg |-> seg]
             n == LengthInSequenceSpace(seg)
             o == s.outgoing
  <2>5. t.outgoing = Append(o, e) /\ t.next_seqno = s.next_seqno + n
    BY <1>1, <2>4, SendFacts
  <2>6. n \in Nat /\ n > 0 /\ s.next_seqno \in Nat
    BY <1>1, <1>3, <2>4, SegmentLength, Fields
  <2>7. e \in Entry /\ e.key = s.next_seqno /\ EndOf(e) = s.next_seqno + n
    BY <2>4, <2>6 DEF Entry, EndOf
  <2> HIDE DEF t, e, n
  <2>8. /\ Len(t.outgoing) = Len(o) + 1
        /\ \A i \in 1 .. Len(o) : t.outgoing[i] = o[i]
        /\ t.outgoing[Len(o) + 1] = e /\ Len(o) \in Nat
    BY <1>1, <2>5, <2>7, Fields, AppendProperties
  <2>9. t.outgoing # <<>>
    BY <2>8
  <2>10. t.outgoing[1].key <= a /\ a < EndOf(t.outgoing[1])
    <3>1. CASE o = <<>>
      <4>1. a = s.next_seqno /\ Len(o) = 0
        BY <1>1, <3>1 DEF Kept
      <4> QED BY <2>6, <2>7, <2>8, <4>1
    <3>2. CASE o # <<>>
      <4>1. 1 \in 1 .. Len(o)
        BY <1>1, <3>2, Fields, EmptySeq
      <4> QED BY <1>1, <2>8, <3>2, <4>1 DEF Kept
    <3> QED BY <3>1, <3>2
  <2>11. Kept(t, a)
    BY <2>9, <2>10 DEF Kept
  <2>12. a <= t.next_seqno
    BY <1>1, <2>5, <2>6
  <2>13. t \in TCPSenderState
    BY <2>3 DEF SenderWell
  <2>14. SameStream(base, t)
    BY <1>1, <2>3 DEF SameStream
  <2>15. t \in Good(a, base)
    BY <2>3, <2>11, <2>12, <2>13, <2>14 DEF Good
  <2> QED BY <2>1, <2>15 DEF t
<1> QED BY <1>2, <1>3

\* An iteration that sends after the SYN stays within the window.
LEMMA FillOnceWindow ==
    ASSUME NEW a \in Nat, NEW base, NEW s \in Good(a, base), s.syn
    PROVE  /\ FillOnce(s).syn
           /\ FillOnce(s).win_size = s.win_size
           /\ FillOnce(s).next_seqno >= s.next_seqno
           /\ FillOnce(s) = s \/ FillOnce(s).outgoing_bytes <= FillTarget(s)
<1> DEFINE win == FillTarget(s)
           seg == NextSegment(s, win)
           t == SendNew(s, seg)
           p == NextPayload(s, win)
<1>1. SenderWell(s) /\ s.next_seqno \in Nat /\ s.outgoing_bytes \in Nat
  BY Fields DEF Good
<1>2. CASE ~(win > s.outgoing_bytes /\ LengthInSequenceSpace(seg) > 0)
  <2>1. FillOnce(s) = s
    BY <1>2 DEF FillOnce
  <2> QED BY <1>1, <2>1
<1>3. CASE win > s.outgoing_bytes /\ LengthInSequenceSpace(seg) > 0
  <2>1. FillOnce(s) = t
    BY <1>3 DEF FillOnce
  <2>2. win \in Nat
    BY <1>1, TargetFacts
  <2> HIDE DEF win
  <2>3. /\ seg \in Segment /\ seg.payload = p
        /\ (seg.syn <=> ~s.syn) /\ (seg.fin <=> NextFin(s, win))
    BY <1>1, <1>3, <2>2, SegmentFacts
  <2>4. /\ Len(p) <= Len(s.stream.buff) /\ Len(p) \in Nat
        /\ Len(p) + s.outgoing_bytes + Bit(~s.syn) <= win
    BY <1>1, <1>3, <2>2, PayloadFacts
  <2>5. NextFin(s, win) => Len(p) + s.outgoing_bytes < win
    BY DEF NextFin
  <2> HIDE DEF seg, p
  <2>6. /\ t.outgoing_bytes = s.outgoing_bytes + LengthInSequenceSpace(seg)
        /\ t.next_seqno = s.next_seqno + LengthInSequenceSpace(seg)
        /\ t.syn /\ t.win_size = s.win_size
    BY Zenon, <1>1, <2>3, <2>4, SendFacts
  <2>7. /\ LengthInSequenceSpace(seg) = Len(p) + Bit(seg.syn) + Bit(seg.fin)
        /\ LengthInSequenceSpace(seg) \in Nat
    BY <2>3, SegmentLength
  <2>8. Bit(seg.syn) = 0 /\ Bit(~s.syn) = 0
    BY <2>3 DEF Bit
  <2> HIDE DEF t
  <2>9. t.outgoing_bytes <= win
    <3>1. CASE seg.fin
      <4>1. Bit(seg.fin) = 1 /\ Len(p) + s.outgoing_bytes < win
        BY <2>3, <2>5, <3>1 DEF Bit
      <4> QED BY <1>1, <2>2, <2>4, <2>6, <2>7, <2>8, <4>1
    <3>2. CASE ~seg.fin
      <4>1. Bit(seg.fin) = 0
        BY <3>2 DEF Bit
      <4> QED BY <1>1, <2>2, <2>4, <2>6, <2>7, <2>8, <4>1
    <3> QED BY <3>1, <3>2
  <2> QED BY <1>1, <2>1, <2>6, <2>7, <2>9 DEF t, win
<1> QED BY <1>2, <1>3

\* The loop of fill_window().
LEMMA FillLoop ==
    ASSUME NEW P, NEW s \in P, FillTarget(s) \in Nat,
           \A t \in P : FillOnce(t) \in P
    PROVE  \E F : /\ F[0] = s /\ \A k \in 1 .. FillTarget(s) : F[k] = FillOnce(F[k - 1])
                  /\ FillWindow(s) = F[FillTarget(s)]
<1> DEFINE n == FillTarget(s)
           Body(f) == [k \in 0 .. n |-> IF k = 0 THEN s ELSE FillOnce(f[k - 1])]
           F == CHOOSE f : f = Body(f)
           g == [t \in P |-> FillOnce(t)]
<1>1. g \in [P -> P]
  OBVIOUS
<1>2. PICK f \in [0 .. n -> P] : f[0] = s /\ \A k \in 1 .. n : f[k] = g[f[k - 1]]
  <2> HIDE DEF g, n
  <2>1. n \in Nat /\ s \in P
    BY DEF n
  <2> HIDE DEF F, Body
  <2>2. \E f : IsLoop(f, P, g, s, n)
    BY <1>1, <2>1, LoopExists
  <2> QED BY Zenon, <2>2 DEF IsLoop
<1> HIDE DEF n
<1>n. n \in Nat
  BY DEF n
<1>3. f = Body(f)
  <2>1. ASSUME NEW k \in 1 .. n PROVE f[k] = FillOnce(f[k - 1])
    <3>1. f[k - 1] \in P
      BY <1>2, <1>n
    <3> QED BY Zenon, <1>2, <3>1
  <2> QED BY <1>2, <1>n, <2>1
<1>4. F = Body(F)
  <2>1. \E h : h = Body(h)
    BY Zenon, <1>3
  <2> HIDE DEF Body
  <2> QED BY <2>1
<1>5. FillWindow(s) = F[n]
  BY DEF FillWindow, n
<1> HIDE DEF F
<1>6. F[0] = s /\ \A k \in 1 .. n : F[k] = FillOnce(F[k - 1])
  BY <1>4, <1>n
<1> QED BY <1>5, <1>6 DEF n

\* What every iteration keeps, fill_window() keeps.
LEMMA FillKeeps ==
    ASSUME NEW P, NEW s \in P, FillTarget(s) \in Nat,
           \A t \in P : FillOnce(t) \in P
    PROVE  FillWindow(s) \in P
<1> DEFINE n == FillTarget(s)
<1>1. PICK F : /\ F[0] = s /\ \A k \in 1 .. n : F[k] = FillOnce(F[k - 1])
               /\ FillWindow(s) = F[n]
  BY FillLoop
<1>2. n \in Nat
  OBVIOUS
<1> HIDE DEF n
<1>3. F[0] \in P /\ \A k \in 1 .. n : F[k - 1] \in P => F[k] \in P
  BY <1>1
<1> QED BY <1>1, <1>2, <1>3, LoopStays

\* The state after one iteration of the loop in ack_received().
LEMMA EraseFacts ==
    ASSUME NEW s, SenderWell(s), s.outgoing # <<>>
    PROVE  LET t == EraseOldest(s)
           IN  /\ SenderWell(t) /\ SameStream(s, t)
               /\ t.next_seqno = s.next_seqno /\ t.syn = s.syn
               /\ Len(t.outgoing) = Len(s.outgoing) - 1
               /\ t.outgoing = <<>> => EndOf(s.outgoing[1]) = s.next_seqno
               /\ t.outgoing # <<>> => /\ t.outgoing[1].key = EndOf(s.outgoing[1])
                                       /\ EndOf(t.outgoing[1]) > t.outgoing[1].key
<1> DEFINE t == EraseOldest(s)
           o == s.outgoing
           L == Len(s.outgoing)
           n == LengthInSequenceSpace(o[1].seg)
           y == s.outgoing_bytes - n
<1>1. /\ s \in TCPSenderState /\ o \in Seq(Entry) /\ L \in Nat
      /\ s.next_seqno \in Nat /\ s.outgoing_bytes \in Nat
  BY Fields DEF SenderWell
<1>2. L > 0 /\ \A i \in 1 .. L : o[i] \in Entry
  BY <1>1, EmptySeq, ElementOfSeq
<1>3. \A i \in 1 .. L : EndOf(o[i]) \in Nat /\ o[i].key \in Nat /\ o[i].seg \in Segment
  BY <1>2, SegmentLength DEF Entry, EndOf
<1>4. n \in Nat /\ EndOf(o[1]) = o[1].key + n
  BY <1>2, <1>3, SegmentLength DEF EndOf
<1>5. s.outgoing_bytes = s.next_seqno - o[1].key
  BY DEF SenderWell, ContiguousFlight
<1>6. EndOf(o[1]) <= s.next_seqno
  BY <1>2 DEF SenderWell, NonePast
<1>7. y \in Nat /\ y = s.next_seqno - EndOf(o[1])
  BY <1>1, <1>2, <1>3, <1>4, <1>5, <1>6
<1>8. /\ Tail(o) \in Seq(Entry) /\ Len(Tail(o)) = L - 1
      /\ \A i \in 1 .. L - 1 : Tail(o)[i] = o[i + 1]
  BY <1>1, HeadTailProperties
<1> DEFINE q == Tail(o)
           r == s.initial_timeout
<1>9. t = [s EXCEPT !.outgoing_bytes = y, !.outgoing = q, !.timeout = r, !.timecount = 0]
  BY DEF EraseOldest
<1>10. q \in Seq([key : Nat, seg : Segment]) /\ r \in Nat /\ r > 0
  BY <1>8, Fields DEF Entry
<1> HIDE DEF t, y, q, r
<1>11. t \in TCPSenderState
  BY Zenon, <1>1, <1>7, <1>9, <1>10 DEF TCPSenderState
<1>12. /\ t.isn = s.isn /\ t.initial_timeout = s.initial_timeout /\ t.stream = s.stream
       /\ t.next_seqno = s.next_seqno /\ t.syn = s.syn /\ t.fin = s.fin
       /\ t.outgoing = q /\ t.outgoing_bytes = y /\ t.timeout = r /\ t.timecount = 0
       /\ t.segments_out = s.segments_out
  BY <1>1, <1>9 DEF TCPSenderState
<1>13. Len(q) = L - 1 /\ \A i \in 1 .. L - 1 : q[i] = o[i + 1] /\ i + 1 \in 1 .. L
  BY <1>1, <1>8 DEF q
<1>14. InPlace(t)
  BY <1>12 DEF SenderWell, InPlace
<1>15. NonePast(t)
  BY <1>12, <1>13 DEF SenderWell, NonePast
<1>16. q = <<>> => EndOf(o[1]) = s.next_seqno
  <2>1. SUFFICES ASSUME q = <<>> PROVE EndOf(o[1]) = s.next_seqno
    OBVIOUS
  <2>2. L = 1
    BY <1>1, <1>13, <2>1
  <2> QED BY <2>2 DEF SenderWell, ContiguousFlight
<1>17. q # <<>> => q[1].key = EndOf(o[1]) /\ EndOf(q[1]) > q[1].key
  <2>1. SUFFICES ASSUME q # <<>> PROVE q[1].key = EndOf(o[1]) /\ EndOf(q[1]) > q[1].key
    OBVIOUS
  <2>2. L - 1 > 0
    BY <1>10, <1>13, <2>1, EmptySeq
  <2>3. /\ 1 \in 1 .. L /\ 2 \in 1 .. L /\ 1 # L
        /\ q[1] = o[2]
    BY <1>1, <1>13, <2>2
  <2>4. EndOf(o[1]) = o[1 + 1].key /\ EndOf(o[2]) > o[2].key
    BY <2>3 DEF SenderWell, ContiguousFlight
  <2> QED BY <2>3, <2>4
<1>18. ContiguousFlight(t)
  <2>1. ASSUME NEW i \in 1 .. Len(q)
        PROVE  /\ EndOf(q[i]) > q[i].key
               /\ EndOf(q[i]) = IF i = Len(q) THEN s.next_seqno ELSE q[i + 1].key
    <3>1. i + 1 \in 1 .. L /\ q[i] = o[i + 1] /\ (i = Len(q) <=> i + 1 = L)
      BY <1>1, <1>13
    <3>2. /\ EndOf(o[i + 1]) > o[i + 1].key
          /\ EndOf(o[i + 1]) = IF i + 1 = L THEN s.next_seqno ELSE o[(i + 1) + 1].key
      BY <3>1 DEF SenderWell, ContiguousFlight
    <3>3. CASE i = Len(q)
      BY <3>1, <3>2, <3>3
    <3>4. CASE i # Len(q)
      <4>1. q[i + 1] = o[(i + 1) + 1]
        BY <1>1, <1>13, <3>1, <3>4
      <4> QED BY <3>1, <3>2, <3>4, <4>1
    <3> QED BY <3>3, <3>4
  <2>2. y = IF q = <<>> THEN 0 ELSE s.next_seqno - q[1].key
    BY <1>1, <1>7, <1>16, <1>17
  <2> QED BY <1>12, <2>1, <2>2 DEF ContiguousFlight
<1>19. Armed(t)
  BY <1>10, <1>12 DEF Armed, r
<1>20. CarriesStream(t)
  <2>1. ASSUME NEW i \in 1 .. Len(q) PROVE i + 1 \in 1 .. L /\ q[i] = o[i + 1]
    BY <1>1, <1>13
  <2>2. CarriesStream(s)
    BY DEF SenderWell
  <2> QED BY <1>12, <2>1, <2>2, SMTT(40) DEF CarriesStream
<1>21. FinIsLast(t)
  <2>1. t.fin => StreamEof(t.stream) /\ t.next_seqno = t.stream.totin + 2
    BY <1>12 DEF SenderWell, FinIsLast
  <2>2. ASSUME NEW i \in 1 .. Len(q), q[i].seg.fin PROVE t.fin /\ i = Len(q)
    <3>1. i + 1 \in 1 .. L /\ o[i + 1].seg.fin
      BY <1>13, <2>2
    <3>2. s.fin /\ i + 1 = L
      BY <3>1 DEF SenderWell, FinIsLast
    <3> QED BY <1>1, <1>12, <1>13, <3>2
  <2> QED BY <1>12, <2>1, <2>2 DEF FinIsLast
<1>22. SameStream(s, t)
  BY <1>12 DEF SameStream
<1>23. Queued(t)
  <2>1. ASSUME NEW i \in 1 .. Len(t.segments_out) PROVE OfStream(t.segments_out[i], t)
    BY <1>12, <1>22, OfStreamSame DEF SenderWell, Queued
  <2>2. ASSUME NEW i \in 1 .. Len(q) PROVE OfStream(q[i].seg, t)
    <3>1. i + 1 \in 1 .. L /\ q[i] = o[i + 1]
      BY <1>1, <1>13
    <3>2. OfStream(q[i].seg, s)
      BY <3>1 DEF SenderWell, Queued
    <3> QED BY <1>22, <3>2, OfStreamSame
  <2> QED BY <1>12, <2>1, <2>2 DEF Queued
<1>24. SenderWell(t)
  BY <1>11, <1>12, <1>14, <1>15, <1>18, <1>19, <1>20, <1>21, <1>23 DEF SenderWell
<1> QED BY <1>12, <1>13, <1>16, <1>17, <1>22, <1>24 DEF t

\* A change of the other fields keeps what is said of the outstanding segments.
LEMMA Reframe ==
    ASSUME NEW a \in Nat, NEW base, NEW s \in Good(a, base), NEW t \in TCPSenderState,
           t.isn = s.isn, t.initial_timeout = s.initial_timeout,
           t.next_seqno = s.next_seqno, t.outgoing = s.outgoing,
           t.outgoing_bytes = s.outgoing_bytes, t.syn = s.syn, t.fin = s.fin,
           t.stream \in Bounded(Nat), InPlace(t), Armed(t),
           t.fin => StreamEof(t.stream) /\ t.stream.totin = s.stream.totin,
           Extends(s, t),
           \A i \in 1 .. Len(t.segments_out) : OfStream(t.segments_out[i], t)
    PROVE  t \in Good(a, t)
<1>1. SenderWell(s) /\ Kept(s, a) /\ a <= s.next_seqno
  BY DEF Good
<1>2. NonePast(t)
  BY <1>1 DEF SenderWell, NonePast
<1>3. ContiguousFlight(t)
  BY <1>1 DEF SenderWell, ContiguousFlight
<1>4. CarriesStream(t)
  BY <1>1, SMTT(40) DEF SenderWell, CarriesStream
<1>5. FinIsLast(t)
  BY <1>1 DEF SenderWell, FinIsLast
<1>6. Queued(t)
  <2>1. ASSUME NEW i \in 1 .. Len(s.outgoing) PROVE OfStream(s.outgoing[i].seg, t)
    <3>1. OfStream(s.outgoing[i].seg, s)
      BY <1>1 DEF SenderWell, Queued
    <3>2. s.outgoing[i] \in Entry
      BY <1>1, Fields, ElementOfSeq
    <3>3. Len(s.outgoing[i].seg.payload) \in Nat
      BY <3>2, SegmentLength DEF Entry
    <3> QED BY <3>1, <3>3, OfStreamGrows
  <2> QED BY <2>1 DEF Queued
<1>7. SenderWell(t)
  BY <1>1, <1>2, <1>3, <1>4, <1>5, <1>6 DEF SenderWell
<1>8. Kept(t, a)
  BY <1>1 DEF Kept
<1>9. SameStream(t, t)
  BY DEF SameStream
<1> QED BY <1>1, <1>7, <1>8, <1>9 DEF Good

\* A change of the timer, the window or the queue keeps all of it.
LEMMA Retouch ==
    ASSUME NEW a \in Nat, NEW base, NEW s \in Good(a, base), NEW t \in TCPSenderState,
           t.isn = s.isn, t.initial_timeout = s.initial_timeout, t.stream = s.stream,
           t.next_seqno = s.next_seqno, t.outgoing = s.outgoing,
           t.outgoing_bytes = s.outgoing_bytes, t.syn = s.syn, t.fin = s.fin,
           Armed(t),
           \A i \in 1 .. Len(t.segments_out) : OfStream(t.segments_out[i], s)
    PROVE  t \in Good(a, base)
<1>1. SenderWell(s) /\ SameStream(base, s) /\ s.stream.totin \in Nat
  BY Fields DEF Good
<1>2. InPlace(t) /\ t.stream \in Bounded(Nat)
  BY <1>1 DEF SenderWell, InPlace
<1>3. t.fin => StreamEof(t.stream) /\ t.stream.totin = s.stream.totin
  BY <1>1 DEF SenderWell, FinIsLast
<1>4. Extends(s, t) /\ SameStream(s, t)
  BY <1>1 DEF Extends, SameStream
<1>5. \A i \in 1 .. Len(t.segments_out) : OfStream(t.segments_out[i], t)
  BY <1>4, OfStreamSame
<1>6. t \in Good(a, t)
  BY <1>2, <1>3, <1>4, <1>5, Reframe
<1>7. SameStream(base, t)
  BY <1>1, <1>4 DEF SameStream
<1> QED BY <1>6, <1>7 DEF Good

\* The iterations of the loop in ack_received().
LEMMA EraseLoop ==
    ASSUME NEW s, SenderWell(s), NEW x \in Nat
    PROVE  \E f : /\ f[0] = s
                  /\ \A k \in 1 .. Len(s.outgoing) : f[k] = EraseOnce(f[k - 1], x)
                  /\ EraseAcked(s, x) = f[Len(s.outgoing)]
<1> DEFINE P == {t \in TCPSenderState : SenderWell(t)}
           n == Len(s.outgoing)
           Body(f) == [k \in 0 .. n |-> IF k = 0 THEN s ELSE EraseOnce(f[k - 1], x)]
           F == CHOOSE f : f = Body(f)
           g == [t \in P |-> EraseOnce(t, x)]
<1>1. ASSUME NEW t \in P PROVE EraseOnce(t, x) \in P
  <2>1. CASE OldestAcked(t, x)
    <3>1. SenderWell(EraseOldest(t))
      BY <2>1, EraseFacts DEF OldestAcked
    <3>2. EraseOldest(t) \in TCPSenderState
      BY <3>1 DEF SenderWell
    <3> QED BY <2>1, <3>1, <3>2 DEF EraseOnce
  <2>2. CASE ~OldestAcked(t, x)
    BY <2>2 DEF EraseOnce
  <2> QED BY <2>1, <2>2
<1>2. n \in Nat /\ s \in P
  BY Fields DEF SenderWell
<1> HIDE DEF P, n
<1>3. g \in [P -> P]
  BY <1>1
<1>4. PICK f : IsLoop(f, P, g, s, n)
  <2> HIDE DEF g, F, Body
  <2>1. \E f : IsLoop(f, P, g, s, n)
    BY <1>2, <1>3, LoopExists
  <2> QED BY <2>1
<1>5. f = Body(f)
  <2>1. ASSUME NEW k \in 1 .. n PROVE f[k] = EraseOnce(f[k - 1], x)
    <3>1. f[k - 1] \in P
      BY <1>2, <1>4 DEF IsLoop
    <3> QED BY Zenon, <1>4, <3>1 DEF IsLoop
  <2> QED BY <1>2, <1>4, <2>1 DEF IsLoop
<1>6. F = Body(F)
  <2>1. \E h : h = Body(h)
    BY Zenon, <1>5
  <2> HIDE DEF Body
  <2> QED BY <2>1
<1>7. EraseAcked(s, x) = F[n]
  BY DEF EraseAcked, n
<1> HIDE DEF F
<1>8. F[0] = s /\ \A k \in 1 .. n : F[k] = EraseOnce(F[k - 1], x)
  BY <1>2, <1>6
<1> QED BY <1>7, <1>8 DEF n

\* Every segment the ackno covers is forgotten, and no other: afterwards the oldest
\* outstanding segment is the one that holds the highest ackno.
LEMMA EraseAckedGood ==
    ASSUME NEW a \in Nat, NEW base, NEW s \in Good(a, base), NEW x \in Nat, x <= s.next_seqno
    PROVE  /\ EraseAcked(s, x) \in Good(Greater(a, x), base)
           /\ EraseAcked(s, x).next_seqno = s.next_seqno
           /\ EraseAcked(s, x).syn = s.syn
<1> DEFINE L == Len(s.outgoing)
           N == s.next_seqno
           hi == Greater(a, x)
           Mid(t) == IF t.outgoing = <<>> THEN hi = N
                     ELSE t.outgoing[1].key <= hi /\ a < EndOf(t.outgoing[1])
           Q == {z \in Nat \X TCPSenderState :
                    /\ SenderWell(z[2]) /\ z[2].next_seqno = N /\ z[2].syn = s.syn
                    /\ SameStream(base, z[2]) /\ Mid(z[2])
                    /\ OldestAcked(z[2], x) => Len(z[2].outgoing) <= L - z[1]}
<1>1. PICK f : /\ f[0] = s
               /\ \A k \in 1 .. L : f[k] = EraseOnce(f[k - 1], x)
               /\ EraseAcked(s, x) = f[L]
  BY EraseLoop DEF Good
<1>2. /\ SenderWell(s) /\ Kept(s, a) /\ a <= N /\ N \in Nat /\ L \in Nat
      /\ s \in TCPSenderState /\ SameStream(base, s)
  BY Fields DEF Good
<1>3. hi \in Nat /\ a <= hi /\ x <= hi /\ hi <= N /\ (hi = a \/ hi = x)
  BY <1>2 DEF Greater
<1> HIDE DEF hi
<1>4. Mid(s)
  <2>1. CASE s.outgoing = <<>>
    BY <1>2, <1>3, <2>1 DEF Kept
  <2>2. CASE s.outgoing # <<>>
    <3>1. s.outgoing[1] \in Entry
      BY <1>2, <2>2, Fields, EmptySeq, ElementOfSeq
    <3>2. s.outgoing[1].key \in Nat
      BY <3>1 DEF Entry
    <3> QED BY <1>2, <1>3, <2>2, <3>2 DEF Kept
  <2> QED BY <2>1, <2>2
<1>5. <<0, f[0]>> \in Q
  BY <1>1, <1>2, <1>4
<1>6. ASSUME NEW k \in 1 .. L, <<k - 1, f[k - 1]>> \in Q PROVE <<k, f[k]>> \in Q
  <2> DEFINE t == f[k - 1]
             u == f[k]
  <2>1. /\ SenderWell(t) /\ t.next_seqno = N /\ t.syn = s.syn /\ Mid(t)
        /\ SameStream(base, t)
        /\ OldestAcked(t, x) => Len(t.outgoing) <= L - (k - 1)
    BY <1>6
  <2>2. u = EraseOnce(t, x)
    BY <1>1
  <2>3. k \in Nat /\ Len(t.outgoing) \in Nat
    BY <1>2, <2>1, Fields
  <2> HIDE DEF t, u
  <2>4. CASE ~OldestAcked(t, x)
    <3>1. u = t /\ t \in TCPSenderState
      BY <2>1, <2>2, <2>4 DEF EraseOnce, SenderWell
    <3>2. <<k, u>> \in Q
      BY <2>1, <2>3, <2>4, <3>1
    <3> QED BY <3>2 DEF u
  <2>5. CASE OldestAcked(t, x)
    <3>1. u = EraseOldest(t) /\ t.outgoing # <<>> /\ EndOf(t.outgoing[1]) <= x
      BY <2>2, <2>5 DEF EraseOnce, OldestAcked, EndOf
    <3>2. /\ SenderWell(u) /\ u.next_seqno = N /\ u.syn = s.syn /\ SameStream(t, u)
          /\ Len(u.outgoing) = Len(t.outgoing) - 1
          /\ u.outgoing = <<>> => EndOf(t.outgoing[1]) = N
          /\ u.outgoing # <<>> => /\ u.outgoing[1].key = EndOf(t.outgoing[1])
                                  /\ EndOf(u.outgoing[1]) > u.outgoing[1].key
      BY <2>1, <3>1, EraseFacts
    <3>3. a < EndOf(t.outgoing[1])
      BY <2>1, <3>1
    <3>4. Mid(u)
      <4>1. CASE u.outgoing = <<>>
        BY <1>2, <1>3, <3>1, <3>2, <4>1
      <4>2. CASE u.outgoing # <<>>
        <5>1. u.outgoing[1] \in Entry
          BY <3>2, <4>2, Fields, EmptySeq, ElementOfSeq
        <5>2. u.outgoing[1].key \in Nat /\ EndOf(u.outgoing[1]) \in Nat
          BY <5>1, SegmentLength DEF Entry, EndOf
        <5> QED BY <1>3, <3>1, <3>2, <3>3, <4>2, <5>2
      <4> QED BY <4>1, <4>2
    <3>5. Len(u.outgoing) <= L - k
      BY <1>2, <2>1, <2>3, <2>5, <3>2
    <3>6. u \in TCPSenderState
      BY <3>2 DEF SenderWell
    <3>7. SameStream(base, u)
      BY <2>1, <3>2 DEF SameStream
    <3> HIDE DEF Mid
    <3>8. <<k, u>> \in Q
      BY Zenon, <2>3, <3>2, <3>4, <3>5, <3>6, <3>7
    <3> QED BY <3>8 DEF u
  <2> QED BY <2>4, <2>5
<1>7. <<L, f[L]>> \in Q
  <2> HIDE DEF Q, L, Mid
  <2> QED BY <1>2, <1>5, <1>6, LoopStaysIndexed
<1> DEFINE t == f[L]
<1>8. /\ SenderWell(t) /\ t.next_seqno = N /\ t.syn = s.syn /\ Mid(t) /\ t \in TCPSenderState
      /\ SameStream(base, t)
      /\ OldestAcked(t, x) => Len(t.outgoing) <= L - L
  BY <1>7
<1> HIDE DEF t
<1>9. ~OldestAcked(t, x)
  <2>1. Len(t.outgoing) <= 0 => t.outgoing = <<>>
    BY <1>8, Fields, EmptySeq
  <2> QED BY <1>2, <1>8, <2>1 DEF OldestAcked
<1>10. Kept(t, hi)
  <2>1. CASE t.outgoing = <<>>
    BY <1>8, <2>1 DEF Kept
  <2>2. CASE t.outgoing # <<>>
    <3>1. t.outgoing[1] \in Entry
      BY <1>8, <2>2, Fields, EmptySeq, ElementOfSeq
    <3>2. EndOf(t.outgoing[1]) \in Nat
      BY <3>1, SegmentLength DEF Entry, EndOf
    <3>3. EndOf(t.outgoing[1]) > x
      BY <1>9, <2>2, <3>2 DEF OldestAcked, EndOf
    <3> QED BY <1>3, <1>8, <2>2, <3>2, <3>3 DEF Kept
  <2> QED BY <2>1, <2>2
<1>11. t \in Good(hi, base)
  BY <1>3, <1>8, <1>10 DEF Good
<1> QED BY <1>1, <1>8, <1>11 DEF t, hi

\* fill_window() keeps the invariants, and once the SYN is out what it adds fits the
\* window.
LEMMA FillGood ==
    ASSUME NEW a \in Nat, NEW base, NEW s \in Good(a, base)
    PROVE  /\ FillWindow(s) \in Good(a, base)
           /\ s.syn => \/ FillWindow(s).next_seqno = s.next_seqno
                       \/ FillWindow(s).outgoing_bytes <= FillTarget(FillWindow(s))
<1>1. FillTarget(s) \in Nat
  BY TargetFacts DEF Good
<1>2. FillWindow(s) \in Good(a, base)
  <2>1. \A t \in Good(a, base) : FillOnce(t) \in Good(a, base)
    BY FillOnceGood
  <2> QED BY <1>1, <2>1, FillKeeps
<1>3. ASSUME s.syn
      PROVE  \/ FillWindow(s).next_seqno = s.next_seqno
             \/ FillWindow(s).outgoing_bytes <= FillTarget(FillWindow(s))
  <2> DEFINE P == {t \in Good(a, base) : /\ t.syn /\ t.win_size = s.win_size
                                   /\ \/ t.next_seqno = s.next_seqno
                                      \/ t.outgoing_bytes <= FillTarget(s)}
  <2>1. s \in P
    BY <1>3
  <2>2. ASSUME NEW t \in P PROVE FillOnce(t) \in P
    <3>1. t \in Good(a, base) /\ t.syn /\ t.win_size = s.win_size
      OBVIOUS
    <3>2. FillOnce(t) \in Good(a, base)
      BY <3>1, FillOnceGood
    <3>3. /\ FillOnce(t).syn /\ FillOnce(t).win_size = t.win_size
          /\ FillOnce(t) = t \/ FillOnce(t).outgoing_bytes <= FillTarget(t)
      BY <3>1, FillOnceWindow
    <3>4. FillTarget(t) = FillTarget(s)
      BY <3>1 DEF FillTarget
    <3> QED BY <3>1, <3>2, <3>3, <3>4
  <2>3. FillWindow(s) \in P
    <3> HIDE DEF P
    <3> QED BY <1>1, <2>1, <2>2, FillKeeps
  <2>4. FillTarget(FillWindow(s)) = FillTarget(s)
    BY <2>3 DEF FillTarget
  <2> QED BY <2>3, <2>4
<1> QED BY <1>2, <1>3

\* An iteration that sends puts something into the window.
LEMMA FillOnceSends ==
    ASSUME NEW s, SenderWell(s)
    PROVE  /\ FillOnce(s).win_size = s.win_size
           /\ s.syn => FillOnce(s).syn
           /\ FillOnce(s) = s \/ FillOnce(s).outgoing_bytes > s.outgoing_bytes
           /\ s.outgoing_bytes < FillTarget(s)
                /\ LengthInSequenceSpace(NextSegment(s, FillTarget(s))) > 0 => FillOnce(s) # s
<1> DEFINE win == FillTarget(s)
           seg == NextSegment(s, win)
           t == SendNew(s, seg)
           n == LengthInSequenceSpace(seg)
<1>1. s.outgoing_bytes \in Nat /\ win \in Nat
  BY Fields, TargetFacts
<1>2. ASSUME ~(win > s.outgoing_bytes /\ n > 0)
      PROVE  FillOnce(s) = s
  BY <1>2 DEF FillOnce
<1>3. ASSUME win > s.outgoing_bytes, n > 0
      PROVE  /\ FillOnce(s).win_size = s.win_size /\ FillOnce(s).syn
             /\ FillOnce(s).outgoing_bytes > s.outgoing_bytes
  <2>1. FillOnce(s) = t
    BY <1>3 DEF FillOnce
  <2> HIDE DEF win
  <2>2. seg \in Segment /\ Len(seg.payload) <= Len(s.stream.buff)
    BY <1>1, <1>3, SegmentFacts, PayloadFacts
  <2>3. n \in Nat
    BY <2>2, SegmentLength
  <2> HIDE DEF seg, n
  <2>4. t.outgoing_bytes = s.outgoing_bytes + n /\ t.win_size = s.win_size /\ t.syn
    BY Zenon, <2>2, SendFacts DEF n
  <2> HIDE DEF t
  <2>5. t.outgoing_bytes > s.outgoing_bytes
    BY <1>1, <1>3, <2>3, <2>4 DEF n
  <2> QED BY <2>1, <2>4, <2>5
<1> QED BY <1>1, <1>2, <1>3

\* fill_window() goes on until the window is full or there is nothing to send.
LEMMA FillStops ==
    ASSUME NEW a \in Nat, NEW base, NEW s \in Good(a, base)
    PROVE  LET t == FillWindow(s) IN FillOnce(t) = t /\ (s.syn => t.syn)
<1> DEFINE n == FillTarget(s)
           G == Good(a, base)
           Done(k, t) == /\ t.win_size = s.win_size /\ (s.syn => t.syn)
                         /\ FillOnce(t) = t \/ t.outgoing_bytes >= k
           P == {q \in Nat \X G : Done(q[1], q[2])}
<1>1. n \in Nat
  BY TargetFacts DEF Good
<1>2. ASSUME NEW t \in G
      PROVE  SenderWell(t) /\ FillOnce(t) \in G /\ t.outgoing_bytes \in Nat
                /\ FillOnce(t).outgoing_bytes \in Nat
  <2>1. FillOnce(t) \in G
    BY FillOnceGood
  <2> QED BY <2>1, Fields DEF Good
<1>3. PICK F : /\ F[0] = s /\ \A k \in 1 .. n : F[k] = FillOnce(F[k - 1])
               /\ FillWindow(s) = F[n]
  <2>1. \A t \in G : FillOnce(t) \in G
    BY <1>2
  <2> HIDE DEF G
  <2> QED BY <1>1, <2>1, FillLoop DEF G
<1> HIDE DEF n, G
<1>4. s \in G
  BY DEF G
<1>5. <<0, F[0]>> \in P
  BY <1>2, <1>3, <1>4
<1>6. ASSUME NEW k \in 1 .. n, <<k - 1, F[k - 1]>> \in P
      PROVE  <<k, F[k]>> \in P
  <2> DEFINE t == F[k - 1]
  <2>1. t \in G /\ Done(k - 1, t) /\ k \in Nat /\ F[k] = FillOnce(t)
    BY <1>1, <1>3, <1>6
  <2> HIDE DEF t
  <2>2. /\ SenderWell(t) /\ FillOnce(t) \in G /\ t.outgoing_bytes \in Nat
        /\ FillOnce(t).outgoing_bytes \in Nat
    BY <1>2, <2>1
  <2>3. /\ FillOnce(t).win_size = t.win_size /\ (t.syn => FillOnce(t).syn)
        /\ FillOnce(t) = t \/ FillOnce(t).outgoing_bytes > t.outgoing_bytes
    BY <2>2, FillOnceSends
  <2>4. Done(k, FillOnce(t))
    BY <2>1, <2>2, <2>3
  <2> QED BY <2>1, <2>2, <2>4
<1>7. <<n, F[n]>> \in P
  <2> HIDE DEF P
  <2> QED BY <1>1, <1>5, <1>6, LoopStaysIndexed
<1> DEFINE t == FillWindow(s)
<1>8. t \in G /\ Done(n, t)
  BY <1>3, <1>7
<1>9. SenderWell(t) /\ t.outgoing_bytes \in Nat
  BY <1>2, <1>8
<1>10. FillTarget(t) = n
  BY <1>8 DEF FillTarget, n
<1>11. ASSUME t.outgoing_bytes >= n
       PROVE  FillOnce(t) = t
  <2>1. ~(FillTarget(t) > t.outgoing_bytes)
    BY <1>1, <1>9, <1>10, <1>11
  <2> QED BY <2>1 DEF FillOnce
<1> QED BY <1>8, <1>11

\* Once the application has ended its stream and all of it is sent, a FIN that is
\* missing is missing for want of room.
Settled(s) == s.syn /\ StreamEof(s.stream) /\ ~s.fin => s.outgoing_bytes >= FillTarget(s)

\* fill_window() leaves the sender so.
LEMMA FillSettles ==
    ASSUME NEW a \in Nat, NEW base, NEW s \in Good(a, base)
    PROVE  Settled(FillWindow(s))
<1> DEFINE t == FillWindow(s)
           win == FillTarget(t)
           seg == NextSegment(t, win)
           p == NextPayload(t, win)
<1>1. SenderWell(t) /\ FillOnce(t) = t
  BY FillGood, FillStops DEF Good
<1> HIDE DEF t
<1>2. t.outgoing_bytes \in Nat /\ win \in Nat
  BY <1>1, Fields, TargetFacts
<1> SUFFICES ASSUME t.syn, StreamEof(t.stream), ~t.fin, win > t.outgoing_bytes
             PROVE  FALSE
  BY <1>2 DEF Settled, t
<1> HIDE DEF win
<1>3. t.stream.isInputEnd /\ Len(t.stream.buff) = 0
  BY DEF StreamEof
<1>4. Len(p) = 0
  <2>1. Len(p) \in Nat /\ Len(p) <= Len(t.stream.buff)
    BY <1>1, <1>2, PayloadFacts
  <2> HIDE DEF p
  <2> QED BY <1>3, <2>1
<1>5. StreamEof(StreamRead(t.stream, 0))
  <2> DEFINE b == StreamRead(t.stream, 0)
  <2>a. 0 \in Nat /\ 0 <= Len(t.stream.buff)
    BY <1>3
  <2>b. /\ b \in Bounded(Nat) /\ b.isInputEnd = t.stream.isInputEnd
        /\ Len(b.buff) = Len(t.stream.buff) - 0
    BY <1>1, <2>a, ReadStream
  <2> HIDE DEF b
  <2>1. b \in Bounded(Nat) /\ b.isInputEnd = t.stream.isInputEnd /\ Len(b.buff) = 0
    BY <1>3, <2>b
  <2>2. b.buff = <<>>
    BY <2>1, EmptySeq DEF Bounded, ByteStreamState
  <2> QED BY Zenon, <1>3, <2>1, <2>2 DEF StreamEof, b
<1>6. NextFin(t, win)
  BY <1>2, <1>4, <1>5 DEF NextFin
<1>7. seg \in Segment /\ seg.fin
  BY <1>1, <1>2, <1>6, SegmentFacts
<1>8. LengthInSequenceSpace(seg) > 0
  <2>1. Len(seg.payload) \in Nat /\ Bit(seg.syn) \in 0 .. 1 /\ Bit(seg.fin) = 1
    BY <1>7, LenProperties DEF Segment, Bit
  <2> HIDE DEF seg
  <2> QED BY <2>1 DEF LengthInSequenceSpace
<1> QED BY <1>1, <1>8, FillOnceSends DEF win

\* The first absolute sequence number that is not acknowledged.
Acked(s) == s.next_seqno - s.outgoing_bytes

\* It is the highest ackno a sender must have accepted.
LEMMA AckedIsGood ==
    ASSUME NEW s, SenderWell(s)
    PROVE  Acked(s) \in Nat /\ s \in Good(Acked(s), s)
<1>1. s.next_seqno \in Nat /\ s.outgoing \in Seq(Entry) /\ s \in TCPSenderState
  BY Fields DEF SenderWell
<1>2. CASE s.outgoing = <<>>
  <2>1. s.outgoing_bytes = 0
    BY <1>2 DEF SenderWell, ContiguousFlight
  <2>2. Acked(s) = s.next_seqno
    BY <1>1, <2>1 DEF Acked
  <2> QED BY <1>1, <1>2, <2>2 DEF Good, Kept, SameStream
<1>3. CASE s.outgoing # <<>>
  <2> DEFINE k == s.outgoing[1].key
             e == EndOf(s.outgoing[1])
  <2>a. 1 \in 1 .. Len(s.outgoing)
    BY <1>1, <1>3, Fields, EmptySeq
  <2>b. s.outgoing[1] \in Entry
    BY <1>1, <2>a
  <2>1. 1 \in 1 .. Len(s.outgoing) /\ k \in Nat
    BY <2>a, <2>b DEF Entry
  <2>2. s.outgoing_bytes = s.next_seqno - k
    BY <1>3 DEF SenderWell, ContiguousFlight
  <2>3. e > k /\ e <= s.next_seqno
    BY <2>1 DEF SenderWell, ContiguousFlight, NonePast
  <2>e. e \in Nat
    <3>1. s.outgoing[1].seg \in Segment
      BY <2>b DEF Entry
    <3> QED BY <2>1, <3>1, SegmentLength DEF EndOf
  <2> HIDE DEF k, e
  <2>4. Acked(s) = k /\ k <= s.next_seqno
    BY <1>1, <2>1, <2>2, <2>3, <2>e DEF Acked
  <2>5. Kept(s, k)
    BY <1>3, <2>1, <2>3 DEF Kept, k, e
  <2> QED BY <1>1, <2>1, <2>4, <2>5 DEF Good, SameStream
<1> QED BY <1>2, <1>3

\* A sender that has accepted ackno a counts no more than a as acknowledged.
LEMMA GoodIsAcked ==
    ASSUME NEW a \in Nat, NEW base, NEW s \in Good(a, base)
    PROVE  Acked(s) \in Nat /\ Acked(s) <= a
<1>1. SenderWell(s) /\ Kept(s, a) /\ s.next_seqno \in Nat /\ s.outgoing \in Seq(Entry)
  BY Fields DEF Good
<1>2. CASE s.outgoing = <<>>
  <2>1. s.outgoing_bytes = 0 /\ a = s.next_seqno
    BY <1>1, <1>2 DEF SenderWell, ContiguousFlight, Kept
  <2> QED BY <1>1, <2>1 DEF Acked
<1>3. CASE s.outgoing # <<>>
  <2> DEFINE k == s.outgoing[1].key
  <2>a. 1 \in 1 .. Len(s.outgoing)
    BY <1>1, <1>3, Fields, EmptySeq
  <2>b. s.outgoing[1] \in Entry
    BY <1>1, <2>a
  <2>1. k \in Nat
    BY <2>b DEF Entry
  <2>2. s.outgoing_bytes = s.next_seqno - k /\ k <= a
    BY <1>1, <1>3 DEF SenderWell, ContiguousFlight, Kept
  <2> HIDE DEF k
  <2> QED BY <1>1, <2>1, <2>2 DEF Acked
<1> QED BY <1>2, <1>3

\* The owner takes the queued segments.
LEMMA TakeGood ==
    ASSUME NEW a \in Nat, NEW base, NEW s \in Good(a, base)
    PROVE  LET t == [s EXCEPT !.segments_out = <<>>]
           IN  /\ t \in Good(a, base) /\ s.segments_out \in Seq(Segment)
               /\ t.next_seqno = s.next_seqno /\ t.win_size = s.win_size
               /\ t.outgoing_bytes = s.outgoing_bytes
               /\ t.segments_out = <<>> /\ t.stream = s.stream
               /\ t.syn = s.syn /\ t.fin = s.fin
<1> DEFINE t == [s EXCEPT !.segments_out = <<>>]
<1>1. SenderWell(s) /\ s \in TCPSenderState
  BY DEF Good
<1>2. <<>> \in Seq(Segment) /\ s.segments_out \in Seq(Segment)
  BY <1>1, EmptySeq DEF TCPSenderState
<1>3. t \in TCPSenderState
  BY Zenon, <1>1, <1>2 DEF TCPSenderState
<1>4. /\ t.isn = s.isn /\ t.initial_timeout = s.initial_timeout /\ t.stream = s.stream
      /\ t.next_seqno = s.next_seqno /\ t.outgoing = s.outgoing
      /\ t.outgoing_bytes = s.outgoing_bytes /\ t.syn = s.syn /\ t.fin = s.fin
      /\ t.timeout = s.timeout /\ t.timecount = s.timecount /\ t.win_size = s.win_size
      /\ t.segments_out = <<>>
  BY <1>1 DEF TCPSenderState
<1> HIDE DEF t
<1>5. Armed(t)
  BY <1>1, <1>4 DEF SenderWell, Armed
<1>6. \A i \in 1 .. Len(t.segments_out) : OfStream(t.segments_out[i], s)
  BY <1>4
<1>7. t \in Good(a, base)
  BY <1>3, <1>4, <1>5, <1>6, Retouch
<1> QED BY <1>2, <1>4, <1>7 DEF t

\* The sender as ack_received() leaves it to fill_window(): a new window size, and the count
\* of consecutive retransmissions reset.
Windowed(s, w) == [s EXCEPT !.win_size = w, !.consecutive = 0]

\* An accepted acknowledgment changes the window and the count of retransmissions.
LEMMA WindowGood ==
    ASSUME NEW a \in Nat, NEW base, NEW s \in Good(a, base), NEW w \in Nat
    PROVE  LET t == Windowed(s, w)
           IN  t \in Good(a, base) /\ t.next_seqno = s.next_seqno /\ t.syn = s.syn
<1> DEFINE t == [s EXCEPT !.win_size = w, !.consecutive = 0]
<1>0. t = Windowed(s, w)
  BY DEF Windowed
<1>1. SenderWell(s) /\ s \in TCPSenderState
  BY DEF Good
<1>2. t \in TCPSenderState
  BY Zenon, <1>1 DEF TCPSenderState
<1>3. /\ t.isn = s.isn /\ t.initial_timeout = s.initial_timeout /\ t.stream = s.stream
      /\ t.next_seqno = s.next_seqno /\ t.outgoing = s.outgoing
      /\ t.outgoing_bytes = s.outgoing_bytes /\ t.syn = s.syn /\ t.fin = s.fin
      /\ t.timeout = s.timeout /\ t.timecount = s.timecount
      /\ t.segments_out = s.segments_out
  BY <1>1 DEF TCPSenderState
<1> HIDE DEF t
<1>4. Armed(t)
  BY <1>1, <1>3 DEF SenderWell, Armed
<1>5. \A i \in 1 .. Len(t.segments_out) : OfStream(t.segments_out[i], s)
  BY <1>1, <1>3 DEF SenderWell, Queued
<1>6. t \in Good(a, base)
  BY <1>2, <1>3, <1>4, <1>5, Retouch
<1> QED BY <1>0, <1>3, <1>6

\* A change of the stream by the application, before the FIN is sent.
LEMMA StreamGood ==
    ASSUME NEW a \in Nat, NEW base, NEW s \in Good(a, base), NEW b \in Bounded(Nat),
           ~s.stream.isInputEnd, b.totout = s.stream.totout,
           b.totin = b.totout + Len(b.buff), s.stream.totin <= b.totin,
           \A i \in 1 .. Len(b.buff) : b.buff[i] = b.totout + i - 1
    PROVE  LET t == [s EXCEPT !.stream = b]
           IN  /\ t \in Good(a, t) /\ Extends(s, t) /\ t.stream = b
               /\ t.next_seqno = s.next_seqno /\ t.syn = s.syn
<1> DEFINE t == [s EXCEPT !.stream = b]
<1>1. /\ SenderWell(s) /\ s \in TCPSenderState /\ b \in ByteStreamState(Nat)
      /\ s.stream.totin \in Nat /\ b.totin \in Nat
  BY Fields DEF Good, Bounded, ByteStreamState
<1>2. t \in TCPSenderState
  BY Zenon, <1>1 DEF TCPSenderState
<1>3. /\ t.isn = s.isn /\ t.initial_timeout = s.initial_timeout /\ t.stream = b
      /\ t.next_seqno = s.next_seqno /\ t.outgoing = s.outgoing
      /\ t.outgoing_bytes = s.outgoing_bytes /\ t.syn = s.syn /\ t.fin = s.fin
      /\ t.timeout = s.timeout /\ t.timecount = s.timecount
      /\ t.segments_out = s.segments_out
  BY <1>1 DEF TCPSenderState
<1> HIDE DEF t
<1>4. ~s.fin
  BY <1>1 DEF SenderWell, FinIsLast, StreamEof
<1>5. InPlace(t)
  BY <1>1, <1>3 DEF SenderWell, InPlace
<1>6. Armed(t)
  BY <1>1, <1>3 DEF SenderWell, Armed
<1>7. Extends(s, t)
  BY <1>1, <1>3 DEF Extends
<1>8. \A i \in 1 .. Len(t.segments_out) : OfStream(t.segments_out[i], t)
  <2>1. ASSUME NEW i \in 1 .. Len(s.segments_out) PROVE OfStream(s.segments_out[i], t)
    <3>1. OfStream(s.segments_out[i], s)
      BY <1>1 DEF SenderWell, Queued
    <3>2. s.segments_out[i] \in Segment
      BY <1>1, Fields, ElementOfSeq
    <3>3. Len(s.segments_out[i].payload) \in Nat
      BY <3>2, SegmentLength
    <3> QED BY <1>7, <3>1, <3>3, OfStreamGrows
  <2> QED BY <1>3, <2>1
<1>9. t \in Good(a, t)
  BY <1>2, <1>3, <1>4, <1>5, <1>6, <1>7, <1>8, Reframe
<1> QED BY <1>3, <1>7, <1>9 DEF t

\* tick() sends an overdue segment again and never leaves one overdue.
LEMMA TickGood ==
    ASSUME NEW a \in Nat, NEW base, NEW s \in Good(a, base), NEW ms \in Nat
    PROVE  LET t == SenderTick(s, ms)
           IN  /\ t \in Good(a, base) /\ t.next_seqno = s.next_seqno
               /\ t.outgoing_bytes = s.outgoing_bytes /\ t.win_size = s.win_size
               /\ t.stream = s.stream /\ t.syn = s.syn /\ t.fin = s.fin
               /\ s.outgoing = <<>> => t.segments_out = s.segments_out
<1> DEFINE t == SenderTick(s, ms)
           count == s.timecount + ms
           late == count >= s.timeout /\ s.outgoing # <<>>
           out == IF late THEN Append(s.segments_out, s.outgoing[1].seg)
                  ELSE s.segments_out
           rto == IF late /\ s.win_size > 0 THEN 2 * s.timeout ELSE s.timeout
           c == IF late THEN s.consecutive + 1 ELSE s.consecutive
           tc == IF late THEN 0 ELSE count
<1>1. SenderWell(s) /\ s \in TCPSenderState
  BY DEF Good
<1>2. count \in Nat /\ rto \in Nat /\ c \in Nat /\ tc \in Nat
  BY <1>1, Fields
<1>3. out \in Seq(Segment) /\ \A i \in 1 .. Len(out) : OfStream(out[i], s)
  <2>1. /\ s.segments_out \in Seq(Segment)
        /\ \A i \in 1 .. Len(s.segments_out) : OfStream(s.segments_out[i], s)
    BY <1>1, Fields DEF SenderWell, Queued
  <2>2. CASE late
    <3>1. s.outgoing[1] \in Entry /\ 1 \in 1 .. Len(s.outgoing)
      BY <1>1, <2>2, Fields, EmptySeq, ElementOfSeq
    <3>2. s.outgoing[1].seg \in Segment /\ OfStream(s.outgoing[1].seg, s)
      BY <1>1, <3>1 DEF Entry, SenderWell, Queued
    <3>3. out = Append(s.segments_out, s.outgoing[1].seg)
      BY <2>2
    <3> HIDE DEF out
    <3> QED BY <2>1, <3>2, <3>3, AppendOfStream
  <2>3. CASE ~late
    BY <2>1, <2>3
  <2> QED BY <2>2, <2>3
<1>4. s.outgoing # <<>> => tc < rto /\ rto >= s.initial_timeout
  <2>1. SUFFICES ASSUME s.outgoing # <<>> PROVE tc < rto /\ rto >= s.initial_timeout
    OBVIOUS
  <2>2. s.timeout >= s.initial_timeout /\ s.timeout \in Nat /\ s.timecount \in Nat
    BY <1>1, <2>1, Fields DEF SenderWell, Armed
  <2>3. s.initial_timeout \in Nat /\ s.initial_timeout > 0
    BY <1>1, Fields
  <2> QED BY <2>1, <2>2, <2>3
<1>5. t = [s EXCEPT !.timeout = rto, !.segments_out = out, !.consecutive = c,
                    !.timecount = tc]
  <2>1. CASE late
    BY <2>1 DEF SenderTick
  <2>2. CASE ~late
    <3>1. t = [s EXCEPT !.timecount = count]
      BY <2>2 DEF SenderTick
    <3>2. rto = s.timeout /\ out = s.segments_out /\ c = s.consecutive /\ tc = count
      BY <2>2
    <3> HIDE DEF t, rto, out, c, tc, count, late
    <3> QED BY Zenon, <1>1, <3>1, <3>2 DEF TCPSenderState
  <2> QED BY <2>1, <2>2
<1>6. s.outgoing = <<>> => out = s.segments_out
  OBVIOUS
<1> HIDE DEF t, rto, out, c, tc
<1>7. t \in TCPSenderState
  BY Zenon, <1>1, <1>2, <1>3, <1>5 DEF TCPSenderState
<1>8. /\ t.isn = s.isn /\ t.initial_timeout = s.initial_timeout /\ t.stream = s.stream
      /\ t.next_seqno = s.next_seqno /\ t.outgoing = s.outgoing
      /\ t.outgoing_bytes = s.outgoing_bytes /\ t.syn = s.syn /\ t.fin = s.fin
      /\ t.timeout = rto /\ t.timecount = tc /\ t.segments_out = out
      /\ t.win_size = s.win_size
  BY <1>1, <1>5 DEF TCPSenderState
<1>9. Armed(t)
  BY <1>4, <1>8 DEF Armed
<1>10. \A i \in 1 .. Len(t.segments_out) : OfStream(t.segments_out[i], s)
  BY <1>3, <1>8
<1>11. t \in Good(a, base)
  BY <1>7, <1>8, <1>9, <1>10, Retouch
<1> QED BY <1>6, <1>8, <1>11 DEF t

\* send_empty_segment() queues a segment that is not kept.
LEMMA EmptyGood ==
    ASSUME NEW a \in Nat, NEW base, NEW s \in Good(a, base)
    PROVE  LET t == SendEmptySegment(s)
           IN  /\ t \in Good(a, base) /\ t.next_seqno = s.next_seqno
               /\ t.outgoing_bytes = s.outgoing_bytes /\ t.win_size = s.win_size
               /\ t.stream = s.stream /\ t.syn = s.syn /\ t.fin = s.fin
<1> DEFINE t == SendEmptySegment(s)
           seg == EmptySegment(NextSeqno(s))
           q == Append(s.segments_out, seg)
<1>1. SenderWell(s) /\ s \in TCPSenderState /\ s.isn \in WrappingInt32 /\ s.next_seqno \in Nat
  BY Fields DEF Good
<1>2. seg \in Segment
  <2>1. NextSeqno(s) \in WrappingInt32
    BY <1>1, WrapType DEF NextSeqno
  <2>2. 0 \in WrappingInt32
    BY MAssumption DEF WrappingInt32
  <2> QED BY <2>1, <2>2, EmptySeq DEF EmptySegment, Segment
<1>3. OfStream(seg, s)
  <2>1. /\ ~seg.syn /\ ~seg.fin /\ seg.payload = <<>>
        /\ seg.seqno = Wrap(s.next_seqno, s.isn)
    BY DEF EmptySegment, NextSeqno
  <2>0. Bare(seg)
    BY DEF EmptySegment, Bare
  <2> HIDE DEF seg
  <2>2. Len(seg.payload) = 0 /\ FromStream(seg.payload, s.next_seqno + Bit(seg.syn) - 1)
    BY <2>1 DEF FromStream
  <2>3. Numbered(seg, s.next_seqno, s.isn, s.stream.totin, s.stream.isInputEnd)
    BY <2>1, <2>2 DEF Numbered
  <2>4. s.next_seqno \in 0 .. s.stream.totin + 2
    BY <1>1, SeqnoBound
  <2> QED BY <2>0, <2>3, <2>4 DEF OfStream, InStream
<1> HIDE DEF seg
<1>4. q \in Seq(Segment) /\ \A i \in 1 .. Len(q) : OfStream(q[i], s)
  <2>1. /\ s.segments_out \in Seq(Segment)
        /\ \A i \in 1 .. Len(s.segments_out) : OfStream(s.segments_out[i], s)
    BY <1>1, Fields DEF SenderWell, Queued
  <2> QED BY <1>2, <1>3, <2>1, AppendOfStream
<1>5. t = [s EXCEPT !.segments_out = q]
  BY DEF SendEmptySegment, seg
<1> HIDE DEF t, q
<1>6. t \in TCPSenderState
  BY Zenon, <1>1, <1>4, <1>5 DEF TCPSenderState
<1>7. /\ t.isn = s.isn /\ t.initial_timeout = s.initial_timeout /\ t.stream = s.stream
      /\ t.next_seqno = s.next_seqno /\ t.outgoing = s.outgoing
      /\ t.outgoing_bytes = s.outgoing_bytes /\ t.syn = s.syn /\ t.fin = s.fin
      /\ t.timeout = s.timeout /\ t.timecount = s.timecount /\ t.segments_out = q
      /\ t.win_size = s.win_size
  BY <1>1, <1>5 DEF TCPSenderState
<1>8. Armed(t)
  BY <1>1, <1>7 DEF SenderWell, Armed
<1>9. \A i \in 1 .. Len(t.segments_out) : OfStream(t.segments_out[i], s)
  BY <1>4, <1>7
<1>10. t \in Good(a, base)
  BY <1>6, <1>7, <1>8, <1>9, Retouch
<1> QED BY <1>7, <1>10 DEF t

\* ack_received() of any wire ackno: what it stands for is accepted if it was sent.
LEMMA AckGood ==
    ASSUME NEW a \in Nat, NEW base, NEW s \in Good(a, base), NEW wire \in WrappingInt32,
           NEW w \in Nat
    PROVE  LET x == Unwrap(wire, s.isn, s.next_seqno)
               t == AckReceived(s, wire, w)
           IN  /\ x \in Nat
               /\ t \in Good(IF x <= s.next_seqno THEN Greater(x, a) ELSE a, base)
               /\ s.syn => \/ t.next_seqno = s.next_seqno
                           \/ t.outgoing_bytes <= FillTarget(t)
               /\ (s.syn => t.syn) /\ (Settled(s) => Settled(t))
<1> DEFINE x == Unwrap(wire, s.isn, s.next_seqno)
<1>1. SenderWell(s) /\ s.isn \in WrappingInt32 /\ s.next_seqno \in Nat
  BY Fields DEF Good
<1>2. x \in Nat
  <2>1. PICK y \in Nat : wire = Wrap(y, s.isn)
    BY <1>1, WireHasNumber
  <2> QED BY Zenon, <1>1, <2>1, UnwrapIsCongruent
<1>a. AckReceived(s, wire, w) = IF x > s.next_seqno THEN s
                                ELSE FillWindow([EraseAcked(s, x) EXCEPT
                                                   !.win_size = w, !.consecutive = 0])
  BY DEF AckReceived
<1> HIDE DEF x
<1>3. CASE x > s.next_seqno
  <2>1. AckReceived(s, wire, w) = s
    BY <1>3, <1>a
  <2>2. ~(x <= s.next_seqno)
    BY <1>1, <1>2, <1>3
  <2> QED BY <1>2, <2>1, <2>2 DEF x
<1>4. CASE x <= s.next_seqno
  <2> DEFINE hi == Greater(a, x)
             e == EraseAcked(s, x)
             r == Windowed(e, w)
  <2>1. e \in Good(hi, base) /\ e.next_seqno = s.next_seqno /\ e.syn = s.syn
    BY <1>2, <1>4, EraseAckedGood
  <2>2. hi \in Nat /\ hi = Greater(x, a)
    BY <1>2 DEF Greater
  <2>3. AckReceived(s, wire, w) = FillWindow(r)
    BY <1>1, <1>2, <1>4, <1>a DEF Windowed
  <2> HIDE DEF e, hi
  <2>4. r \in Good(hi, base) /\ r.next_seqno = s.next_seqno /\ r.syn = s.syn
    <3>1. r \in Good(hi, base) /\ r.next_seqno = e.next_seqno /\ r.syn = e.syn
      <4>1. e \in Good(hi, base) /\ hi \in Nat
        BY <2>1, <2>2
      <4> QED BY <4>1, WindowGood
    <3> HIDE DEF r
    <3> QED BY <2>1, <3>1
  <2> HIDE DEF r
  <2>5. /\ FillWindow(r) \in Good(hi, base)
        /\ s.syn => \/ FillWindow(r).next_seqno = s.next_seqno
                    \/ FillWindow(r).outgoing_bytes <= FillTarget(FillWindow(r))
    BY <2>2, <2>4, FillGood
  <2>6. (s.syn => FillWindow(r).syn) /\ Settled(FillWindow(r))
    BY <2>2, <2>4, FillStops, FillSettles
  <2> QED BY <1>2, <1>4, <2>2, <2>3, <2>5, <2>6 DEF x
<1> QED BY <1>1, <1>2, <1>3, <1>4

\* The bytes the application writes continue its stream.
LEMMA WriteGood ==
    ASSUME NEW a \in Nat, NEW base, NEW s \in Good(a, base), ~s.stream.isInputEnd,
           NEW data \in Seq(Nat), FromStream(data, s.stream.totin)
    PROVE  LET t == [s EXCEPT !.stream = StreamWrite(@, data)]
           IN  /\ t \in Good(a, t) /\ Extends(s, t)
               /\ t.stream.totin <= s.stream.totin + Len(data)
               /\ ~t.stream.isInputEnd
               /\ t.next_seqno = s.next_seqno /\ t.syn = s.syn
<1> DEFINE c == s.stream
           b == StreamWrite(c, data)
           d == Accepted(c, data)
           n == Len(data)
<1>1. SenderWell(s) /\ c \in Bounded(Nat)
  BY DEF Good, SenderWell
<1>2. /\ c.buff \in Seq(Nat) /\ Len(c.buff) \in Nat /\ c.totin \in Nat /\ c.totout \in Nat
      /\ c.totin = c.totout + Len(c.buff)
      /\ \A i \in 1 .. Len(c.buff) : c.buff[i] = c.totout + i - 1
  BY <1>1, Fields DEF SenderWell, InPlace
<1>3. n \in Nat /\ \A i \in 1 .. n : data[i] = c.totin + i - 1
  BY LenProperties DEF FromStream
<1>e. ~c.isInputEnd
  OBVIOUS
<1> HIDE DEF c, n
<1>4. /\ d \in Seq(Nat) /\ b \in Bounded(Nat) /\ SameButBytes(b, c)
      /\ b.totout = c.totout /\ b.totin = c.totin + Len(d)
      /\ b.buff = c.buff \o d /\ Len(b.buff) = Len(c.buff) + Len(d)
      /\ \A i \in 1 .. Len(d) : d[i] = data[i]
  BY <1>1, WriteFacts
<1>5. Len(d) \in Nat /\ Len(d) <= n
  <2>1. Len(d) \in Nat
    BY <1>4, LenProperties
  <2> DEFINE m == Lesser(Len(data), RemainingCapacity(c))
  <2>2. m \in Int /\ m <= n
    BY <1>1, <1>2, <1>3 DEF Lesser, RemainingCapacity, Bounded, ByteStreamState, n
  <2>3. d = SubSeq(data, 1, m)
    BY DEF Accepted
  <2> HIDE DEF m, d
  <2>4. \A i \in 1 .. m : data[i] \in Nat
    BY <1>2, <1>3, <2>2
  <2>5. Len(d) = IF 1 <= m THEN m - 1 + 1 ELSE 0
    BY <2>2, <2>3, <2>4, SubSeqProperties
  <2> QED BY <1>3, <2>1, <2>2, <2>5
<1> HIDE DEF d, b
<1>6. b.totin = b.totout + Len(b.buff) /\ c.totin <= b.totin /\ b.totin <= c.totin + n
  <2> DEFINE x == c.totin
             z == c.totout
             L == Len(c.buff)
             k == Len(d)
  <2>1. /\ z \in Nat /\ L \in Nat /\ k \in Nat /\ x = z + L /\ k <= n
        /\ b.totin = x + k /\ b.totout = z /\ Len(b.buff) = L + k
    BY <1>2, <1>4, <1>5
  <2> HIDE DEF x, z, L, k
  <2>2. b.totin = b.totout + Len(b.buff) /\ x <= b.totin /\ b.totin <= x + n
    BY <1>3, <2>1
  <2> QED BY <2>2 DEF x
<1>7. ASSUME NEW i \in 1 .. Len(b.buff) PROVE b.buff[i] = b.totout + i - 1
  <2> DEFINE h == c.buff
             L == Len(c.buff)
  <2>1. h \in Seq(Nat) /\ L \in Nat /\ L = Len(h) /\ b.buff = h \o d
    BY <1>2, <1>4
  <2> HIDE DEF h
  <2>2. (h \o d)[i] = IF i <= L THEN h[i] ELSE d[i - L]
    BY <1>4, <1>5, <2>1, ConcatProperties
  <2> HIDE DEF L
  <2>3. CASE i <= L
    <3>1. i \in 1 .. L
      BY <1>4, <1>5, <2>1, <2>3
    <3>2. h[i] = c.totout + i - 1
      BY <1>2, <3>1 DEF h, L
    <3> QED BY <1>4, <2>1, <2>2, <2>3, <3>2
  <2>4. CASE ~(i <= L)
    <3>1. Len(b.buff) = L + Len(d) /\ c.totin = c.totout + L
      BY <1>2, <1>4 DEF L
    <3>2. i \in Nat /\ i - L \in 1 .. Len(d) /\ i - L \in 1 .. n
      BY <1>3, <1>5, <2>1, <2>4, <3>1
    <3>3. d[i - L] = c.totin + (i - L) - 1
      BY <1>3, <1>4, <3>2
    <3> DEFINE x == c.totin
               z == c.totout
    <3>4. x \in Nat /\ z \in Nat /\ x = z + L
      BY <1>2, <3>1
    <3> HIDE DEF x, z
    <3>5. x + (i - L) - 1 = z + i - 1
      BY <2>1, <3>2, <3>4
    <3> QED BY <1>4, <2>1, <2>2, <2>4, <3>3, <3>5 DEF x, z
  <2> QED BY <2>3, <2>4
<1>8. [s EXCEPT !.stream = StreamWrite(@, data)] = [s EXCEPT !.stream = b]
  BY DEF b, c
<1>9. b \in Bounded(Nat) /\ b.totout = s.stream.totout /\ s.stream.totin <= b.totin
  BY <1>4, <1>6 DEF c
<1>10. ~b.isInputEnd
  BY <1>4, <1>e DEF SameButBytes
<1> DEFINE t == [s EXCEPT !.stream = b]
<1>11. /\ t \in Good(a, t) /\ Extends(s, t) /\ t.stream = b
       /\ t.next_seqno = s.next_seqno /\ t.syn = s.syn
  BY <1>6, <1>7, <1>9, StreamGood
<1> HIDE DEF t
<1>12. ~t.stream.isInputEnd /\ t.stream.totin <= s.stream.totin + Len(data)
  BY <1>6, <1>10, <1>11 DEF c, n
<1> QED BY Zenon, <1>8, <1>11, <1>12 DEF t

\* end_input() before the FIN is sent.
LEMMA EndGood ==
    ASSUME NEW a \in Nat, NEW base, NEW s \in Good(a, base), ~s.stream.isInputEnd
    PROVE  LET t == [s EXCEPT !.stream = EndInput(@)]
           IN  /\ t \in Good(a, t) /\ Extends(s, t)
               /\ t.stream.totin = s.stream.totin
               /\ t.next_seqno = s.next_seqno /\ t.syn = s.syn
<1> DEFINE c == s.stream
           b == EndInput(c)
<1>1. SenderWell(s) /\ c \in Bounded(Nat) /\ c \in ByteStreamState(Nat) /\ c.totin \in Nat
  BY Fields DEF Good, SenderWell, Bounded
<1>2. /\ b.buff = c.buff /\ b.totin = c.totin /\ b.totout = c.totout
      /\ b.capacity = c.capacity /\ b \in ByteStreamState(Nat)
  BY Zenon, <1>1 DEF EndInput, ByteStreamState
<1>3. [s EXCEPT !.stream = EndInput(@)] = [s EXCEPT !.stream = b]
  OBVIOUS
<1> HIDE DEF b
<1>4. b \in Bounded(Nat)
  BY <1>1, <1>2 DEF Bounded
<1>5. /\ b.totin = b.totout + Len(b.buff)
      /\ \A i \in 1 .. Len(b.buff) : b.buff[i] = b.totout + i - 1
  BY <1>1, <1>2 DEF SenderWell, InPlace
<1> DEFINE t == [s EXCEPT !.stream = b]
<1>6. /\ t \in Good(a, t) /\ Extends(s, t) /\ t.stream = b
      /\ t.next_seqno = s.next_seqno /\ t.syn = s.syn
  <2>1. b.totout = s.stream.totout /\ s.stream.totin <= b.totin
    BY <1>1, <1>2
  <2> QED BY <1>4, <1>5, <2>1, StreamGood
<1> HIDE DEF t
<1>7. t.stream.totin = s.stream.totin
  BY <1>2, <1>6
<1> QED BY Zenon, <1>3, <1>6, <1>7 DEF t

\* set_error() on the outbound stream.
LEMMA SenderError ==
    ASSUME NEW a \in Nat, NEW base, NEW s \in Good(a, base)
    PROVE  LET t == [s EXCEPT !.stream = SetError(@)]
           IN  /\ t \in Good(a, base) /\ (Settled(s) => Settled(t))
               /\ t.next_seqno = s.next_seqno /\ t.syn = s.syn
               /\ t.segments_out = s.segments_out
<1> DEFINE c == s.stream
           b == SetError(c)
           t == [s EXCEPT !.stream = b]
<1>1. /\ SenderWell(s) /\ SameStream(base, s) /\ s \in TCPSenderState
      /\ c \in Bounded(Nat) /\ c \in ByteStreamState(Nat) /\ c.totin \in Nat
  BY Zenon, Fields DEF Good, SenderWell, Bounded
<1>2. /\ b.buff = c.buff /\ b.totin = c.totin /\ b.totout = c.totout
      /\ b.capacity = c.capacity /\ b.isInputEnd = c.isInputEnd
      /\ b \in ByteStreamState(Nat)
  BY Zenon, <1>1 DEF SetError, ByteStreamState
<1> HIDE DEF b
<1>3. b \in Bounded(Nat)
  BY <1>1, <1>2 DEF Bounded
<1>4. t \in TCPSenderState
  BY ZenonT(30), <1>1, <1>2 DEF TCPSenderState
<1>5. /\ t.isn = s.isn /\ t.initial_timeout = s.initial_timeout /\ t.stream = b
      /\ t.next_seqno = s.next_seqno /\ t.outgoing = s.outgoing
      /\ t.outgoing_bytes = s.outgoing_bytes /\ t.syn = s.syn /\ t.fin = s.fin
      /\ t.timeout = s.timeout /\ t.timecount = s.timecount
      /\ t.segments_out = s.segments_out /\ t.win_size = s.win_size
  BY <1>1 DEF TCPSenderState
<1>6. t = [s EXCEPT !.stream = SetError(@)]
  BY DEF b
<1> HIDE DEF t
<1>7. StreamEof(b) <=> StreamEof(c)
  BY <1>2 DEF StreamEof
<1>8. InPlace(t)
  BY ZenonT(30), <1>1, <1>2, <1>5 DEF SenderWell, InPlace
<1>9. Armed(t)
  BY ZenonT(30), <1>1, <1>5 DEF SenderWell, Armed
<1>10. Extends(s, t) /\ SameStream(s, t)
  BY <1>1, <1>2, <1>5, SMTT(30) DEF Extends, SameStream
<1>11. t.fin => StreamEof(t.stream) /\ t.stream.totin = s.stream.totin
  BY ZenonT(30), <1>1, <1>2, <1>5, <1>7 DEF SenderWell, FinIsLast
<1>12. \A i \in 1 .. Len(t.segments_out) : OfStream(t.segments_out[i], t)
  <2>1. ASSUME NEW i \in 1 .. Len(s.segments_out) PROVE OfStream(s.segments_out[i], t)
    BY ZenonT(30), <1>1, <1>10, OfStreamSame DEF SenderWell, Queued
  <2> QED BY <1>5, <2>1
<1>13. t \in Good(a, t)
  BY <1>3, <1>4, <1>5, <1>8, <1>9, <1>10, <1>11, <1>12, Reframe
<1>14. SameStream(base, t)
  BY <1>1, <1>10 DEF SameStream
<1>15. t \in Good(a, base)
  BY <1>13, <1>14 DEF Good
<1>16. Settled(s) => Settled(t)
  BY <1>5, <1>7 DEF Settled, FillTarget
<1> QED BY <1>5, <1>6, <1>15, <1>16

\* A new sender.
LEMMA NewGood ==
    ASSUME NEW capacity \in Nat, NEW timeout \in Nat \ {0}, NEW isn \in WrappingInt32
    PROVE  LET s == NewTCPSender(capacity, timeout, isn)
           IN  /\ s \in Good(0, s) /\ s.isn = isn /\ s.segments_out = <<>>
               /\ s.next_seqno = 0 /\ s.outgoing_bytes = 0 /\ ~s.syn /\ ~s.fin
               /\ s.stream = NewByteStream(capacity)
<1> DEFINE b == NewByteStream(capacity)
           s == NewTCPSender(capacity, timeout, isn)
<1>1. s = [isn |-> isn, segments_out |-> <<>>, initial_timeout |-> timeout,
           stream |-> b, next_seqno |-> 0,
           timeout |-> 0, timecount |-> 0, consecutive |-> 0,
           outgoing |-> <<>>, outgoing_bytes |-> 0,
           syn |-> FALSE, fin |-> FALSE, win_size |-> 1]
  BY DEF NewTCPSender
<1>2. b \in ByteStreamState(Nat) /\ b.buff = <<>> /\ b.totin = 0 /\ b.totout = 0
  BY EmptySeq DEF NewByteStream, ByteStreamState
<1>3. b \in Bounded(Nat)
  <2>1. b.capacity \in Nat /\ Len(b.buff) = 0
    BY <1>2 DEF ByteStreamState
  <2> HIDE DEF b
  <2> QED BY <1>2, <2>1 DEF Bounded
<1> HIDE DEF b, s
<1>4. <<>> \in Seq(Segment) /\ <<>> \in Seq([key : Nat, seg : Segment])
  BY EmptySeq
<1>5. s \in TCPSenderState
  BY <1>1, <1>2, <1>4 DEF TCPSenderState
<1>6. /\ s.isn = isn /\ s.initial_timeout = timeout /\ s.stream = b
      /\ s.next_seqno = 0 /\ s.outgoing = <<>> /\ s.outgoing_bytes = 0
      /\ s.segments_out = <<>> /\ ~s.syn /\ ~s.fin
  BY <1>1
<1>7. InPlace(s)
  BY <1>2, <1>6 DEF InPlace, Bit
<1>8. NonePast(s) /\ ContiguousFlight(s) /\ CarriesStream(s) /\ FinIsLast(s) /\ Queued(s)
  BY <1>6 DEF NonePast, ContiguousFlight, CarriesStream, FinIsLast, Queued
<1>9. Armed(s) /\ Kept(s, 0)
  BY <1>6 DEF Armed, Kept
<1>10. SenderWell(s)
  BY <1>3, <1>5, <1>6, <1>7, <1>8, <1>9 DEF SenderWell
<1>11. s \in Good(0, s)
  BY <1>5, <1>6, <1>9, <1>10 DEF Good, SameStream
<1> QED BY <1>6, <1>11 DEF b, s
=============================================================================
