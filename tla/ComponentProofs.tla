--------------------------- MODULE ComponentProofs ---------------------------
(***************************************************************************)
(* The components that stand on their own, each for every value of its     *)
(* constants: TCPSender, ByteStream, the sequence numbers that cross the   *)
(* network (SequenceNumbers), and the datagram adapters (Adapters).  The   *)
(* four specifications share no state.                                     *)
(***************************************************************************)
EXTENDS TCPSender, ByteStream, SequenceNumbers, Adapters, TCPSenderLemmas

-----------------------------------------------------------------------------
(***************************************************************************)
(* TCPSender, for every initial sequence number, capacity, payload size,   *)
(* timeout and window.  What each operation keeps is in TCPSenderLemmas.   *)
(***************************************************************************)
\* The inductive invariant.
Inv == /\ acked \in Nat /\ sent \in Seq(Segment)
       /\ snd \in Good(acked, snd) /\ snd.isn = ISN

\* A step keeps it, and what a step adds to the flight fits the window.
Fits == snd.syn => \/ snd'.next_seqno = snd.next_seqno
                   \/ snd'.outgoing_bytes <= FillTarget(snd')

\* A call that ends in a good state.
LEMMA CallKeeps ==
    ASSUME NEW s, acked' \in Nat, NEW base, s \in Good(acked', base), base.isn = ISN, Call(s),
           snd.syn => s.next_seqno = snd.next_seqno \/ s.outgoing_bytes <= FillTarget(s)
    PROVE  Inv' /\ Fits
<1>1. snd' = [s EXCEPT !.segments_out = <<>>] /\ sent' = s.segments_out
  BY DEF Call
<1>2. /\ snd' \in Good(acked', base) /\ sent' \in Seq(Segment)
      /\ snd'.next_seqno = s.next_seqno /\ snd'.win_size = s.win_size
      /\ snd'.outgoing_bytes = s.outgoing_bytes
  BY <1>1, TakeGood
<1>3. FillTarget(snd') = FillTarget(s)
  BY <1>2 DEF FillTarget
<1>4. Inv'
  <2> DEFINE t == [s EXCEPT !.segments_out = <<>>]
  <2>1. SameStream(base, t) /\ SenderWell(t) /\ Kept(t, acked') /\ acked' <= t.next_seqno
    BY <1>1, <1>2 DEF Good
  <2>2. t.isn = ISN /\ t \in Good(acked', t)
    BY <1>1, <1>2, <2>1 DEF Good, SameStream
  <2> HIDE DEF t
  <2> QED BY <1>1, <1>2, <2>2 DEF t, Inv, Good, SameStream
<1>5. Fits
  BY <1>2, <1>3 DEF Fits
<1> QED BY <1>4, <1>5

\* The bytes an application writes next are the next ones of its stream.
LEMMA DataFacts ==
    ASSUME NEW n \in Nat, snd.stream.totin \in Nat
    PROVE  Data(n) \in Seq(Nat) /\ FromStream(Data(n), snd.stream.totin)
<1> DEFINE c == snd.stream.totin
           data == [i \in 1 .. n |-> c + i - 1]
<1>1. Data(n) = data
  BY DEF Data
<1> HIDE DEF c
<1>2. \A i \in 1 .. n : c + i - 1 \in Nat
  BY DEF c
<1>3. data \in [1 .. n -> Nat]
  BY <1>2
<1>4. data \in Seq(Nat) /\ Len(data) = n
  BY <1>3, SeqDef, LenProperties
<1>5. FromStream(data, c)
  BY <1>4 DEF FromStream
<1> QED BY <1>1, <1>4, <1>5 DEF c

\* A call of fill_window() on a sender that is good.
LEMMA FillCall ==
    ASSUME acked \in Nat, NEW r, r \in Good(acked, r), r.isn = ISN,
           r.next_seqno = snd.next_seqno, r.syn = snd.syn,
           Call(FillWindow(r)), acked' = acked
    PROVE  Inv' /\ Fits
<1>1. /\ FillWindow(r) \in Good(acked, r)
      /\ r.syn => \/ FillWindow(r).next_seqno = r.next_seqno
                  \/ FillWindow(r).outgoing_bytes <= FillTarget(FillWindow(r))
  BY FillGood
<1> QED BY <1>1, CallKeeps

\* Every action is a call that ends in a good state.
LEMMA StepKeeps ==
    ASSUME Inv, Next
    PROVE  Inv' /\ Fits
<1>1. /\ acked \in Nat /\ snd \in Good(acked, snd) /\ snd.isn = ISN
      /\ snd.next_seqno \in Nat /\ snd.stream.totin \in Nat
  BY Fields DEF Inv, Good
<1>c. MaxWindow \in Nat /\ MaxBytes \in Nat /\ RT_TIMEOUT \in Nat /\ ISN \in WrappingInt32
  BY SenderAssumption
<1>2. ASSUME NEW n \in 1 .. MaxBytes, Write(n) PROVE Inv' /\ Fits
  <2> DEFINE r == [snd EXCEPT !.stream = StreamWrite(@, Data(n))]
  <2>0. n \in Nat /\ Data(n) \in Seq(Nat) /\ FromStream(Data(n), snd.stream.totin)
    BY <1>1, <1>c, DataFacts
  <2>a. ~snd.stream.isInputEnd
    BY <1>2 DEF Write
  <2>1. /\ r \in Good(acked, r) /\ Extends(snd, r)
        /\ r.next_seqno = snd.next_seqno /\ r.syn = snd.syn
    BY <1>1, <2>0, <2>a, WriteGood
  <2>2. Call(FillWindow(r)) /\ acked' = acked
    BY <1>2 DEF Write
  <2> HIDE DEF r
  <2> QED BY <1>1, <2>1, <2>2, FillCall DEF Extends
<1>3. ASSUME EndStream PROVE Inv' /\ Fits
  <2> DEFINE r == [snd EXCEPT !.stream = EndInput(@)]
  <2>a. ~snd.stream.isInputEnd
    BY <1>3 DEF EndStream
  <2>1. /\ r \in Good(acked, r) /\ Extends(snd, r)
        /\ r.next_seqno = snd.next_seqno /\ r.syn = snd.syn
    BY <1>1, <2>a, EndGood
  <2>2. Call(FillWindow(r)) /\ acked' = acked
    BY <1>3 DEF EndStream
  <2> HIDE DEF r
  <2> QED BY <1>1, <2>1, <2>2, FillCall DEF Extends
<1>4. ASSUME Connect PROVE Inv' /\ Fits
  BY <1>1, <1>4, FillCall DEF Connect
<1>5. ASSUME NEW x \in AckableRange, NEW w \in 0 .. MaxWindow, Ack(x, w) PROVE Inv' /\ Fits
  <2> DEFINE t == AckReceived(snd, Wrap(x, ISN), w)
             hi == IF x <= snd.next_seqno THEN Greater(x, acked) ELSE acked
  <2>1. x \in Nat /\ x <= snd.next_seqno + 1 /\ snd.next_seqno - x < M \div 2 /\ w \in Nat
    BY <1>1, <1>c DEF AckableRange
  <2>2. Wrap(x, ISN) \in WrappingInt32
    BY <1>c, <2>1, WrapType
  <2>3. Unwrap(Wrap(x, ISN), ISN, snd.next_seqno) = x
    <3>1. x - snd.next_seqno < M \div 2
      BY <1>1, <2>1, MAssumption
    <3> QED BY <1>1, <1>c, <2>1, <3>1, UnwrapOfWrap
  <2>4. /\ t \in Good(hi, snd)
        /\ snd.syn => t.next_seqno = snd.next_seqno \/ t.outgoing_bytes <= FillTarget(t)
    BY <1>1, <2>1, <2>2, <2>3, AckGood
  <2>5. Call(t) /\ acked' = hi
    BY <1>5 DEF Ack
  <2>6. hi \in Nat
    BY <1>1, <2>1 DEF Greater
  <2> HIDE DEF t, hi
  <2> QED BY <1>1, <2>4, <2>5, <2>6, CallKeeps
<1>6. ASSUME NEW ms \in 1 .. RT_TIMEOUT, Tick(ms) PROVE Inv' /\ Fits
  <2> DEFINE t == SenderTick(snd, ms)
  <2>0. ms \in Nat
    BY <1>c
  <2>1. t \in Good(acked, snd) /\ t.next_seqno = snd.next_seqno
    BY <1>1, <2>0, TickGood
  <2>2. Call(t) /\ acked' = acked
    BY <1>6 DEF Tick
  <2> HIDE DEF t
  <2> QED BY <1>1, <2>1, <2>2, CallKeeps
<1>7. ASSUME SendEmpty PROVE Inv' /\ Fits
  <2> DEFINE t == SendEmptySegment(snd)
  <2>1. t \in Good(acked, snd) /\ t.next_seqno = snd.next_seqno
    BY <1>1, EmptyGood
  <2>2. Call(t) /\ acked' = acked
    BY <1>7 DEF SendEmpty
  <2> HIDE DEF t
  <2> QED BY <1>1, <2>1, <2>2, CallKeeps
<1> QED BY <1>2, <1>3, <1>4, <1>5, <1>6, <1>7 DEF Next

\* A new sender.
LEMMA InitGood == Init => Inv
<1> SUFFICES ASSUME Init PROVE Inv
  OBVIOUS
<1>1. /\ CAPACITY \in Nat /\ RT_TIMEOUT \in Nat \ {0} /\ ISN \in WrappingInt32
      /\ snd = NewTCPSender(CAPACITY, RT_TIMEOUT, ISN) /\ sent = <<>> /\ acked = 0
  BY SenderAssumption DEF Init
<1>2. snd \in Good(0, snd) /\ snd.isn = ISN
  BY <1>1, NewGood
<1> QED BY <1>1, <1>2, EmptySeq DEF Inv

\* The invariant is inductive.
THEOREM Invariance == Spec => []Inv
<1>1. ASSUME Inv, UNCHANGED vars PROVE Inv'
  BY <1>1 DEF Inv, vars
<1>2. Inv /\ [Next]_vars => Inv'
  BY <1>1, StepKeeps
<1> QED BY <1>2, InitGood, PTL DEF Spec

\* The invariants of TCPSender hold for every initial sequence number, capacity,
\* payload size, timeout and window: the types, the accounting of bytes in flight,
\* that nothing unacknowledged is forgotten, that the timer runs while it must, that
\* what is retransmitted is the stream, and that FIN ends it.
THEOREM SenderIsCorrect ==
    Spec => [](TypeOK /\ FlightAccounting /\ UnackedIsKept /\ TimerArmed
                 /\ RetransmitsTheStream /\ FinEndsTheStream)
<1>1. ASSUME Inv
      PROVE  TypeOK /\ FlightAccounting /\ UnackedIsKept /\ TimerArmed
               /\ RetransmitsTheStream /\ FinEndsTheStream
  <2>1. SenderWell(snd) /\ Kept(snd, acked) /\ acked \in Nat /\ sent \in Seq(Segment)
    BY <1>1 DEF Inv, Good
  <2>2. TypeOK
    BY <2>1 DEF TypeOK, SenderWell, Bounded
  <2> QED BY <2>1, <2>2 DEF FlightAccounting, UnackedIsKept, TimerArmed,
                            RetransmitsTheStream, FinEndsTheStream, SenderWell
<1> QED BY <1>1, Invariance, PTL

\* The sender's record keeps its shape: counters and timeouts are naturals, and what
\* is outstanding are segments (tcp_sender.hh:21-32).
THEOREM SenderTypeCorrect == Spec => []TypeOK
<1> QED BY SenderIsCorrect, PTL

\* bytes_in_flight() is the number of sequence numbers that are outstanding, and they
\* are contiguous (tcp_sender.cc:49-61, 77-88).
THEOREM FlightIsCounted == Spec => []FlightAccounting
<1> QED BY SenderIsCorrect, PTL

\* While anything is outstanding the timer runs and no expiry goes unnoticed
\* (tcp_sender.cc:49-53, 98-115).
THEOREM TimerIsArmed == Spec => []TimerArmed
<1> QED BY SenderIsCorrect, PTL

\* What would be retransmitted is the stream that was written, each byte at its
\* sequence number (tcp_sender.cc:27-61).
THEOREM RetransmissionIsFaithful == Spec => []RetransmitsTheStream
<1> QED BY SenderIsCorrect, PTL

\* FIN is sent once, after the last byte (tcp_sender.cc:40-41).
THEOREM FinIsFinal == Spec => []FinEndsTheStream
<1> QED BY SenderIsCorrect, PTL

\* After the SYN, a call that sends new sequence numbers leaves no more in flight than
\* the window in force.
THEOREM SenderRespectsWindow == Spec => SendsWithinWindow
<1> DEFINE A == snd.next_seqno > 0 /\ snd'.next_seqno > snd.next_seqno
                  => snd'.outgoing_bytes <= FillTarget(snd')
<1>1. ASSUME Inv, Next PROVE A
  <2>1. Fits
    BY <1>1, StepKeeps
  <2>2. SenderWell(snd) /\ snd.next_seqno \in Nat
    BY <1>1, Fields DEF Inv, Good
  <2>3. snd.next_seqno > 0 => snd.syn
    BY <2>2 DEF SenderWell, InPlace, Bit
  <2> QED BY <2>1, <2>2, <2>3 DEF Fits
<1>2. Inv /\ [Next]_vars => [A]_vars
  BY <1>1
<1> HIDE DEF A
<1>3. Spec => [][A]_vars
  BY <1>2, Invariance, PTL DEF Spec
<1> QED BY <1>3 DEF A, SendsWithinWindow
-----------------------------------------------------------------------------
(***************************************************************************)
(* ByteStream.                                                             *)
(***************************************************************************)
\* StreamTypeOK says that the stream is one the lemmas speak of.
LEMMA TypeOKBounded ==
    StreamTypeOK <=> /\ bs \in Bounded(Byte) /\ bs.capacity = StreamCapacity
                     /\ written \in Seq(Byte) /\ taken \in Seq(Byte)
BY DEF StreamTypeOK, Bounded

\* A sequence that agrees with p and then with q is their concatenation.
LEMMA Rejoin ==
    ASSUME NEW S, NEW p \in Seq(S), NEW q \in Seq(S), NEW r \in Seq(S),
           Len(r) = Len(p) + Len(q),
           \A i \in 1 .. Len(p) : p[i] = r[i],
           \A i \in 1 .. Len(q) : q[i] = r[i + Len(p)]
    PROVE  p \o q = r
<1>1. Len(p) \in Nat /\ Len(q) \in Nat
  BY LenProperties
<1>2. p \o q \in Seq(S) /\ Len(p \o q) = Len(r)
  BY ConcatProperties
<1>3. ASSUME NEW i \in 1 .. Len(r) PROVE (p \o q)[i] = r[i]
  <2>1. CASE i <= Len(p)
    BY <1>1, <2>1, ConcatProperties
  <2>2. CASE i > Len(p)
    <3>1. i - Len(p) \in 1 .. Len(q) /\ i - Len(p) + Len(p) = i
      BY <1>1, <2>2
    <3>2. (p \o q)[i] = q[i - Len(p)]
      BY <1>1, <2>2, ConcatProperties
    <3> QED BY <3>1, <3>2
  <2> QED BY <1>1, <2>1, <2>2
<1> QED BY <1>2, <1>3, SeqEqual

\* A split buffer is put together again by the history: what was taken, the bytes
\* taken now and the rest are what was taken and the buffer.
LEMMA SplitBuffer ==
    ASSUME NEW S, NEW b \in Bounded(S), NEW len \in Nat
    PROVE  PeekOutput(b, len) \o PopOutput(b, len).buff = b.buff
<1> DEFINE p == PeekOutput(b, len)
           q == PopOutput(b, len).buff
           r == b.buff
<1>1. r \in Seq(S) /\ Len(r) \in Nat
  BY LenProperties DEF Bounded, ByteStreamState
<1>2. Lesser(len, Len(r)) \in Nat
  BY <1>1 DEF Lesser
<1>3. p \in Seq(S) /\ Len(p) = Lesser(len, Len(r)) /\ \A i \in 1 .. Len(p) : p[i] = r[i]
  BY PeekFacts
<1>4. /\ q \in Seq(S) /\ Len(q) = Len(r) - Lesser(len, Len(r))
      /\ \A i \in 1 .. Len(q) : q[i] = r[i + Lesser(len, Len(r))]
  BY PopFacts DEF Bounded, ByteStreamState
<1> HIDE DEF p, q, r
<1>5. Len(r) = Len(p) + Len(q) /\ \A i \in 1 .. Len(q) : q[i] = r[i + Len(p)]
  BY <1>1, <1>2, <1>3, <1>4
<1>6. p \o q = r
  BY Zenon, <1>1, <1>3, <1>4, <1>5, Rejoin
<1> QED BY <1>6 DEF p, q, r

\* pop_output() and read() move the bytes they remove to the history.
LEMMA PopStep ==
    ASSUME StreamTypeOK, InOrder, NEW n \in Nat, PopBytes(n) \/ ReadBytes(n)
    PROVE  StreamTypeOK' /\ InOrder'
<1> DEFINE p == PeekOutput(bs, n)
           q == PopOutput(bs, n)
           buf == bs.buff
           rest == q.buff
<1>1. bs \in Bounded(Byte) /\ bs.capacity = StreamCapacity /\ taken \in Seq(Byte)
  BY TypeOKBounded
<1>2. bs' = q /\ taken' = taken \o p /\ written' = written
  BY <1>1, ReadFacts DEF PopBytes, ReadBytes
<1>3. /\ q \in Bounded(Byte) /\ q.capacity = StreamCapacity /\ q.totin = bs.totin
      /\ q.totout = bs.totout + Len(p)
  BY <1>1, PopFacts, PeekFacts DEF SameButBytes
<1>4. p \in Seq(Byte) /\ rest \in Seq(Byte) /\ p \o rest = buf
  BY Zenon, <1>1, <1>3, PeekFacts, SplitBuffer DEF Bounded, ByteStreamState
<1>5. taken \o buf = written /\ bs.totin = Len(written) /\ bs.totout = Len(taken)
  BY DEF InOrder
<1>6. InOrder' <=> /\ (taken \o p) \o rest = written
                   /\ q.totin = Len(written) /\ q.totout = Len(taken \o p)
  BY <1>2 DEF InOrder
<1> HIDE DEF p, q, buf, rest
<1>7. taken \o p \in Seq(Byte) /\ Len(taken \o p) = Len(taken) + Len(p)
  BY <1>1, <1>4, ConcatProperties
<1>8. (taken \o p) \o rest = taken \o (p \o rest)
  <2>1. taken \in Seq(Byte) /\ p \in Seq(Byte) /\ rest \in Seq(Byte)
    BY <1>1, <1>4
  <2> QED BY <2>1, ConcatAssociative
<1>9. StreamTypeOK'
  BY <1>2, <1>3, <1>7 DEF StreamTypeOK, Bounded
<1>10. InOrder'
  BY <1>3, <1>4, <1>5, <1>6, <1>7, <1>8
<1> QED BY <1>9, <1>10

\* write() appends to the buffer what it appends to the history.
LEMMA WriteStep ==
    ASSUME StreamTypeOK, InOrder, NEW data \in Seq(Byte), WriteBytes(data)
    PROVE  StreamTypeOK' /\ InOrder'
<1> DEFINE acc == Accepted(bs, data)
           w == StreamWrite(bs, data)
           buf == bs.buff
<1>1. /\ bs \in Bounded(Byte) /\ bs.capacity = StreamCapacity /\ buf \in Seq(Byte)
      /\ taken \in Seq(Byte) /\ written \in Seq(Byte)
  BY TypeOKBounded DEF Bounded, ByteStreamState
<1>2. bs' = w /\ written' = written \o acc /\ taken' = taken
  BY DEF WriteBytes
<1>3. /\ acc \in Seq(Byte) /\ w \in Bounded(Byte)
      /\ w.totin = bs.totin + Len(acc) /\ w.buff = buf \o acc
      /\ w.capacity = StreamCapacity /\ w.totout = bs.totout
  BY <1>1, WriteFacts DEF SameButBytes
<1>4. taken \o buf = written /\ bs.totin = Len(written) /\ bs.totout = Len(taken)
  BY DEF InOrder
<1>5. InOrder' <=> /\ taken \o (buf \o acc) = written \o acc
                   /\ w.totin = Len(written \o acc) /\ w.totout = Len(taken)
  BY <1>2, <1>3 DEF InOrder
<1> HIDE DEF acc, w, buf
<1>6. written \o acc \in Seq(Byte) /\ Len(written \o acc) = Len(written) + Len(acc)
  BY <1>1, <1>3, ConcatProperties
<1>7. taken \o (buf \o acc) = (taken \o buf) \o acc
  <2>1. taken \in Seq(Byte) /\ buf \in Seq(Byte) /\ acc \in Seq(Byte)
    BY <1>1, <1>3
  <2> QED BY <2>1, ConcatAssociative
<1>8. StreamTypeOK'
  BY Zenon, <1>1, <1>2, <1>3, <1>6 DEF StreamTypeOK, Bounded
<1>9. InOrder'
  BY <1>3, <1>4, <1>5, <1>6, <1>7
<1> QED BY <1>8, <1>9

\* The invariant is inductive.
LEMMA StreamStep ==
    StreamTypeOK /\ InOrder /\ [StreamNext]_streamVars => StreamTypeOK' /\ InOrder'
<1> SUFFICES ASSUME StreamTypeOK, InOrder, [StreamNext]_streamVars
             PROVE  StreamTypeOK' /\ InOrder'
  OBVIOUS
<1>1. ASSUME NEW n \in 0 .. MaxWrite, NEW data \in [1 .. n -> Byte], WriteBytes(data)
      PROVE  StreamTypeOK' /\ InOrder'
  <2>1. data \in Seq(Byte)
    OBVIOUS
  <2> QED BY <1>1, <2>1, WriteStep
<1>2. ASSUME NEW n \in 0 .. StreamCapacity + 1, PopBytes(n) \/ ReadBytes(n)
      PROVE  StreamTypeOK' /\ InOrder'
  BY <1>2, PopStep, StreamAssumption
<1>3. CASE EndOfInput
  BY Zenon, <1>3 DEF EndOfInput, EndInput, StreamTypeOK, InOrder, ByteStreamState
<1>4. CASE ErrorSet
  BY Zenon, <1>4 DEF ErrorSet, SetError, StreamTypeOK, InOrder, ByteStreamState
<1>5. CASE UNCHANGED streamVars
  BY <1>5 DEF streamVars, StreamTypeOK, InOrder
<1> QED BY <1>1, <1>2, <1>3, <1>4, <1>5 DEF StreamNext

\* Both hold in every state.
LEMMA StreamInvariant == StreamSpec => [](StreamTypeOK /\ InOrder)
<1>1. StreamInit => StreamTypeOK /\ InOrder
  <2> SUFFICES ASSUME StreamInit PROVE StreamTypeOK /\ InOrder
    OBVIOUS
  <2>1. <<>> \in Seq(Byte) /\ Len(<<>>) = 0 /\ <<>> \o <<>> = <<>>
    BY EmptySeq, ConcatEmptySeq
  <2> QED BY <2>1, StreamAssumption
          DEF StreamInit, NewByteStream, StreamTypeOK, InOrder, ByteStreamState
<1> QED BY <1>1, StreamStep, PTL DEF StreamSpec

\* The reader of a ByteStream gets exactly the bytes that write() accepted, in order
\* (byte_stream.cc:14-42).
THEOREM StreamInOrder == StreamSpec => []InOrder
BY StreamInvariant, PTL

\* A ByteStream never holds more than its capacity, so that remaining_capacity() does
\* not wrap below zero (byte_stream.cc:15, 52).
THEOREM StreamWithinCapacity == StreamSpec => []StreamTypeOK
BY StreamInvariant, PTL

-----------------------------------------------------------------------------
(***************************************************************************)
(* unwrap() for every modulus, initial sequence number, checkpoint and     *)
(* sequence number.                                                        *)
(***************************************************************************)
Types == isn \in WrappingInt32 /\ checkpoint \in Nat /\ seqno \in Nat

\* The values stay in their types.
LEMMA TypesInvariant == SeqnoSpec => []Types
<1>1. SeqnoInit => Types
  BY DEF SeqnoInit, Types
<1>2. Types /\ [SeqnoNext]_seqnoVars => Types'
  BY SeqnoAssumption DEF Types, SeqnoNext, Advance, Send, seqnoVars
<1> QED BY <1>1, <1>2, PTL DEF SeqnoSpec

\* Sequence numbers with the same 32-bit value are a multiple of the modulus apart.
LEMMA SameWrap ==
    ASSUME NEW x \in Nat, NEW y \in Nat, NEW i \in WrappingInt32,
           Wrap(x, i) = Wrap(y, i)
    PROVE  \E k \in Int : x = y + (M * k)
<1> DEFINE qx == (x + i) \div M
           qy == (y + i) \div M
           r == (x + i) % M
<1>1. i \in Int /\ x + i \in Int /\ y + i \in Int
  BY MAssumption DEF WrappingInt32
<1>2. (y + i) % M = r
  BY DEF Wrap
<1>3. x + i = (M * qx) + r /\ qx \in Int /\ r \in 0 .. M - 1
  BY <1>1, DivMod
<1>4. y + i = (M * qy) + r /\ qy \in Int
  BY <1>1, <1>2, DivMod
<1> HIDE DEF qx, qy, r
<1>5. x = y + (M * (qx - qy)) /\ qx - qy \in Int
  BY <1>1, <1>3, <1>4, MAssumption
<1> QED BY <1>5

\* A number half the range or less from the checkpoint is closest to it among the
\* numbers a multiple of the modulus away, and so is one above the checkpoint that
\* could not be lowered by the modulus.
LEMMA NoneCloser ==
    ASSUME NEW u \in Nat, NEW c \in Nat, NEW x \in Nat, NEW k \in Int,
           x = u + (M * k),
           \/ 0 - (M \div 2) <= u - c /\ u - c <= M \div 2
           \/ u >= c /\ u < M
    PROVE  Distance(u, c) <= Distance(x, c)
<1>1. M \in Nat /\ M > 0 /\ M = 2 * (M \div 2) /\ M \div 2 \in Nat
  BY MAssumption
<1>2. CASE k = 0
  BY <1>1, <1>2 DEF Distance
<1>3. CASE k >= 1
  <2>1. M * k >= M
    BY <1>1, <1>3
  <2>2. M * k \in Int
    BY <1>1
  <2> QED BY <1>1, <2>1, <2>2 DEF Distance
<1>4. CASE k <= 0 - 1
  <2>1. M * k <= 0 - M
    BY <1>1, <1>4
  <2>2. M * k \in Int
    BY <1>1
  <2> QED BY <1>1, <2>1, <2>2 DEF Distance
<1> QED BY <1>2, <1>3, <1>4

\* RoundTrip holds for every modulus, initial sequence number and checkpoint: what
\* unwrap() returns for a number less than half the range from the checkpoint is
\* that number.
THEOREM UnwrapRoundTrip == SeqnoSpec => []RoundTrip
<1>1. Types => RoundTrip
  <2> SUFFICES ASSUME Types, Distance(seqno, checkpoint) < M \div 2
               PROVE  Unwrapped = seqno
    BY DEF RoundTrip
  <2>1. seqno - checkpoint < M \div 2 /\ checkpoint - seqno < M \div 2
    BY MAssumption DEF Types, Distance
  <2> QED BY <2>1, UnwrapOfWrap DEF Unwrapped, Types
<1> QED BY <1>1, TypesInvariant, PTL

\* Closest holds for every modulus, initial sequence number and checkpoint.
THEOREM UnwrapClosest == SeqnoSpec => []Closest
<1>1. ASSUME Types PROVE Closest
  <2> DEFINE D == Difference(Wrap(seqno, isn), Wrap(checkpoint, isn))
             U == Unwrapped
  <2>1. PICK k \in Int : /\ D = (seqno - checkpoint) + (M * k)
                         /\ 0 - (M \div 2) <= (seqno - checkpoint) + (M * k)
                         /\ (seqno - checkpoint) + (M * k) < M \div 2
    BY <1>1, DifferenceOfWrapped DEF Types
  <2>2. D \in Int /\ 0 - (M \div 2) <= D /\ D < M \div 2
    BY <1>1, <2>1, MAssumption DEF Types
  <2>3. U = IF checkpoint + D >= 0 THEN checkpoint + D ELSE (checkpoint + D) + M
    BY DEF Unwrapped, Unwrap
  <2>4. U \in Nat /\ \E j \in Int : U = seqno + (M * j)
    BY <1>1, UnwrapIsCongruent DEF Unwrapped, Types
  <2> HIDE DEF D, U
  <2>5. PICK j \in Int : U = seqno + (M * j)
    BY <2>4
  <2>6. \/ 0 - (M \div 2) <= U - checkpoint /\ U - checkpoint <= M \div 2
        \/ U >= checkpoint /\ U < M
    BY <1>1, <2>2, <2>3, MAssumption DEF Types
  <2>7. U >= 0
    BY <2>4
  <2>8. Wrap(U, isn) = Wrap(seqno, isn)
    <3>1. seqno + isn \in Int /\ U + isn = (seqno + isn) + (M * j)
      BY <1>1, <2>5, MAssumption DEF Types, WrappingInt32
    <3> QED BY <3>1, ModPeriod DEF Wrap
  <2>9. ASSUME NEW x \in 0 .. MaxSeqno + M, Wrap(x, isn) = Wrap(seqno, isn)
        PROVE  Distance(U, checkpoint) <= Distance(x, checkpoint)
    <3>1. x \in Nat
      BY MAssumption, SeqnoAssumption
    <3>2. PICK k2 \in Int : x = U + (M * k2)
      BY <1>1, <2>4, <2>8, <2>9, <3>1, SameWrap DEF Types
    <3> QED BY <1>1, <2>4, <2>6, <3>1, <3>2, NoneCloser DEF Types
  <2> QED BY <2>7, <2>8, <2>9 DEF Closest, U
<1> QED BY <1>1, TypesInvariant, PTL

-----------------------------------------------------------------------------
(***************************************************************************)
(* The listening filter, for every number of hosts, addresses and segments,*)
(* and whatever parsing makes of the bytes that arrive: an adapter that has*)
(* a peer keeps it.                                                        *)
(***************************************************************************)
\* An adapter that is not listening comes out of read() as it went in
\* (fd_adapter.cc:21-46, tcp_over_ip.cc:26-71).
LEMMA ConnectedIsUnchanged ==
  ASSUME NEW ad, NEW d, NEW drop, ~ad.listening
  PROVE  LossyRead(ad, d, drop).adapter = ad
<1>1. ReadUDP(ad, d).adapter = ad
  BY DEF ReadUDP, Nothing, Just
<1>2. ASSUME NEW ip PROVE UnwrapTCPInIP(ad, ip).adapter = ad
  BY DEF UnwrapTCPInIP, Nothing, Just
<1>3. ReadTun(ad, d).adapter = ad
  BY <1>2 DEF ReadTun, Nothing
<1>4. AdapterRead(ad, d).adapter = ad
  BY <1>1, <1>3 DEF AdapterRead
<1> QED BY <1>4 DEF LossyRead

\* Whatever is read, the adapter is unchanged or has stopped listening: it locks on at
\* most once.
LEMMA ReadLocksOrKeeps ==
  ASSUME NEW ad, NEW d, NEW drop, "listening" \in DOMAIN ad
  PROVE  LET after == LossyRead(ad, d, drop).adapter
         IN  \/ after = ad
             \/ ~after.listening /\ DOMAIN after = DOMAIN ad
<1> DEFINE Fine(after) == after = ad \/ (~after.listening /\ DOMAIN after = DOMAIN ad)
<1>1. ASSUME NEW source, NEW destination PROVE Fine(Lock(ad, source, destination))
  BY DEF Lock
<1>2. Fine(ReadUDP(ad, d).adapter)
  BY <1>1 DEF ReadUDP, Nothing, Just
<1>3. ASSUME NEW ip PROVE Fine(UnwrapTCPInIP(ad, ip).adapter)
  BY Zenon, <1>1 DEF UnwrapTCPInIP, LockToIP, Nothing, Just
<1>4. Fine(ReadTun(ad, d).adapter)
  BY <1>3 DEF ReadTun, Nothing
<1>5. Fine(AdapterRead(ad, d).adapter)
  BY <1>2, <1>4 DEF AdapterRead
<1> QED BY <1>5 DEF LossyRead

\* Inductive: an adapter with a peer does not listen.
HasPeer == /\ "listening" \in DOMAIN server
           /\ server.destination # AnyAddress => ~server.listening

\* recv() and read() clear `listening` when they take the peer, and nothing sets it again.
LEMMA HasPeerStep == HasPeer /\ [AdapterNext]_adapterVars => HasPeer'
<1> SUFFICES ASSUME HasPeer, [AdapterNext]_adapterVars PROVE HasPeer'
  OBVIOUS
<1>1. CASE server' = server
  BY <1>1 DEF HasPeer
<1>2. ASSUME NEW who \in Hosts \cup {"server"}, ReadDatagram(who), server' # server
      PROVE  HasPeer'
  <2>1. PICK e, drop : server' = LossyRead(server, e, drop).adapter
    BY <1>2 DEF ReadDatagram, AdapterOf
  <2>2. ~server'.listening /\ DOMAIN server' = DOMAIN server
    BY <1>2, <2>1, ReadLocksOrKeeps DEF HasPeer
  <2> QED BY <2>2 DEF HasPeer
<1> QED BY <1>1, <1>2 DEF AdapterNext, WriteSegment, LoseDatagram, adapterVars

\* It holds in every state, from the listener and the clients the code constructs.
LEMMA HasPeerAlways == AdapterSpec => []HasPeer
<1>1. AdapterInit => HasPeer
  BY DEF AdapterInit, HasPeer, ListenerOf, ClientOf, FdAdapter, AnyAddress
<1> QED BY <1>1, HasPeerStep, PTL DEF AdapterSpec

\* Once it is connected, or has taken a SYN, an adapter keeps its addresses and never
\* listens again, whatever arrives (fd_adapter.cc:36-39, tcp_over_ip.cc:55-59).
THEOREM PeerIsForGood == AdapterSpec => LockedForGood
<1> DEFINE Keeps == server.destination # AnyAddress => server' = server
<1>1. ASSUME HasPeer, AdapterNext PROVE Keeps
  <2> SUFFICES ASSUME server.destination # AnyAddress, server' # server
               PROVE  FALSE
    OBVIOUS
  <2>1. PICK who \in Hosts \cup {"server"} : ReadDatagram(who)
    BY <1>1 DEF AdapterNext, WriteSegment, LoseDatagram
  <2>2. PICK e, drop : server' = LossyRead(server, e, drop).adapter
    BY <2>1 DEF ReadDatagram, AdapterOf
  <2> QED BY <1>1, <2>2, ConnectedIsUnchanged DEF HasPeer
<1>2. HasPeer /\ [AdapterNext]_adapterVars => [Keeps]_adapterVars
  BY <1>1
<1> QED BY <1>2, HasPeerAlways, PTL DEF AdapterSpec, LockedForGood

\* What read() over UDP does: nothing, or it takes a segment of its peer, or it listens
\* and takes the sender of the datagram for its peer (fd_adapter.cc:21-46).
LEMMA UDPRead ==
  ASSUME NEW ad, NEW d, NEW drop, ad.layer = "udp"
  PROVE  LET r == LossyRead(ad, d, drop)
         IN  \/ r.adapter = ad /\ r.segment = {}
             \/ r.adapter = ad /\ ~ad.listening /\ d.from = ad.destination
             \/ r.adapter = Lock(ad, ad.source, d.from) /\ ad.listening
<1>1. \/ ReadUDP(ad, d) = Nothing(ad)
      \/ /\ ReadUDP(ad, d).adapter = ad
         /\ ~ad.listening /\ d.from = ad.destination
      \/ /\ ReadUDP(ad, d).adapter = Lock(ad, ad.source, d.from)
         /\ ad.listening
  BY DEF ReadUDP, Just
<1>2. LossyRead(ad, d, drop).adapter = ReadUDP(ad, d).adapter
  BY DEF LossyRead, AdapterRead, ReadUDP, Just, Nothing
<1>3. ReadUDP(ad, d) = Nothing(ad) => LossyRead(ad, d, drop).segment = {}
  BY DEF LossyRead, AdapterRead, Nothing
<1> QED BY <1>1, <1>2, <1>3 DEF Nothing

\* A datagram carries the address of its writer, and goes to the server or to its peer.
Routed(d) ==
  /\ {"from", "to", "bytes", "by", "sent"} \subseteq DOMAIN d
  /\ d.by \in Hosts \cup {"server"} /\ d.from = Address[d.by]
  /\ d.to = IF d.by = "server" THEN server.destination ELSE Address["server"]

\* Inductive, over UDP: an adapter that listens has heard nothing and written nothing,
\* and one that does not has a host for its peer.
PeerOverUDP ==
  /\ {"layer", "source", "destination", "listening", "loss_rate_dn", "loss_rate_up"}
        \subseteq DOMAIN server
  /\ server.layer = "udp" /\ server.listening \in BOOLEAN
  /\ server.listening => heard = {} /\ \A d \in wire : d.by \in Hosts
  /\ ~server.listening => \E h \in Hosts : server.destination = Address[h]
  /\ \A d \in wire : Routed(d)
  /\ OnlyThePeer

\* write() puts a datagram with the right addresses on the wire.
LEMMA WriteKeepsPeer ==
  ASSUME PeerOverUDP, NEW who \in Hosts \cup {"server"}, WriteSegment(who)
  PROVE  PeerOverUDP'
<1>1. server' = server /\ heard' = heard /\ ~AdapterOf(who).listening
  BY DEF WriteSegment
<1>2. AdapterOf(who).destination = IF who = "server" THEN server.destination ELSE Address["server"]
  BY DEF AdapterOf, HostAdapter, ClientOf, FdAdapter
<1>3. who = "server" => ~server.listening
  BY <1>1 DEF AdapterOf
<1>4. ASSUME NEW d \in wire' PROVE Routed(d)' /\ d.by = who
  <2>1. PICK seg, drop : wire' = LossyWrite(AdapterOf(who), seg, who, drop)
    BY DEF WriteSegment
  <2>2. d = AdapterWrite(AdapterOf(who), seg, who)
    BY <1>4, <2>1 DEF LossyWrite
  <2>3. /\ d.by = who /\ d.from = Address[who] /\ d.to = AdapterOf(who).destination
        /\ {"from", "to", "bytes", "by", "sent"} \subseteq DOMAIN d
    BY <2>2 DEF AdapterWrite
  <2> QED BY <1>1, <1>2, <2>3 DEF Routed
<1> QED BY <1>1, <1>3, <1>4 DEF PeerOverUDP, OnlyThePeer

\* read() hands over nothing but what the peer wrote.
LEMMA ReadKeepsPeer ==
  ASSUME PeerOverUDP, NEW who \in Hosts \cup {"server"}, ReadDatagram(who)
  PROVE  PeerOverUDP'
<1>1. PICK d \in wire : /\ Delivered(d, who) /\ wire' = {}
                        /\ \E bytes, drop :
                             LET r == LossyRead(AdapterOf(who), [d EXCEPT !.bytes = bytes], drop)
                             IN  /\ heard' = IF r.segment = {} THEN heard
                                             ELSE Heard(who, d, r.segment)
                                 /\ server' = IF who = "server" THEN r.adapter ELSE server
  BY Zenon DEF ReadDatagram
<1>2. PICK bytes, drop :
        LET r == LossyRead(AdapterOf(who), [d EXCEPT !.bytes = bytes], drop)
        IN  /\ heard' = IF r.segment = {} THEN heard ELSE Heard(who, d, r.segment)
            /\ server' = IF who = "server" THEN r.adapter ELSE server
  BY Zenon, <1>1
<1> DEFINE r == LossyRead(AdapterOf(who), [d EXCEPT !.bytes = bytes], drop)
<1>3. d.to = Address[who] /\ Routed(d)
  BY <1>1 DEF Delivered, PeerOverUDP
<1>4. /\ \A a \in heard' : a \in heard \/ (a.at = who /\ a.by = d.by)
      /\ r.segment = {} => heard' = heard
  BY <1>2 DEF Heard
<1>5. [d EXCEPT !.bytes = bytes].from = d.from
  BY <1>3 DEF Routed
<1>6. CASE who = "server"
  <2>1. d.by \in Hosts
    <3>1. d.by = "server" => ~server.listening /\ server.destination = Address["server"]
      BY ZenonT(30), <1>1, <1>3, <1>6, AddressAssumption DEF Routed, PeerOverUDP
    <3> QED BY <1>3, <3>1, AddressAssumption DEF Routed, PeerOverUDP
  <2>2. server' = r.adapter /\ AdapterOf(who) = server
    BY <1>2, <1>6 DEF AdapterOf
  <2> HIDE DEF r
  <2>3. \/ server' = server /\ r.segment = {}
        \/ server' = server /\ ~server.listening /\ d.from = server.destination
        \/ server' = Lock(server, server.source, d.from) /\ server.listening
    BY ZenonT(30), <1>5, <2>2, UDPRead DEF r, PeerOverUDP
  <2>4. d.from = Address[d.by]
    BY <1>3 DEF Routed
  <2>5. CASE server' = server /\ r.segment = {}
    BY <1>1, <1>4, <2>5 DEF PeerOverUDP, OnlyThePeer
  <2>6. CASE server' = server /\ ~server.listening /\ d.from = server.destination
    BY ZenonT(30), <1>1, <1>4, <1>6, <2>1, <2>4, <2>6 DEF PeerOverUDP, OnlyThePeer
  <2>7. CASE server' = Lock(server, server.source, d.from) /\ server.listening
    <3>1. /\ server'.destination = d.from /\ server'.listening = FALSE
          /\ server'.layer = server.layer /\ DOMAIN server' = DOMAIN server
      BY <2>7 DEF Lock, PeerOverUDP
    <3>2. \A a \in heard' : a.at = who /\ a.by = d.by
      BY <1>4, <2>7 DEF PeerOverUDP
    <3> QED BY Zenon, <1>1, <1>6, <2>1, <2>4, <3>1, <3>2 DEF PeerOverUDP, OnlyThePeer
  <2> QED BY <2>3, <2>5, <2>6, <2>7
<1>7. CASE who \in Hosts
  <2>1. server' = server
    BY <1>2, <1>7, AddressAssumption
  <2>2. d.by = "server" /\ server.destination = Address[who]
    BY Zenon, <1>3, <1>7, AddressAssumption DEF Routed
  <2>3. ~server.listening
    BY <1>1, <2>2, AddressAssumption DEF PeerOverUDP
  <2> QED BY <1>1, <1>4, <1>7, <2>1, <2>2, <2>3 DEF PeerOverUDP, OnlyThePeer
<1> QED BY <1>6, <1>7

\* Over UDP, an adapter hands over no segment but those of its peer, for any hosts with
\* distinct addresses, whatever they write, whatever becomes of it on the way and
\* whatever parsing makes of it (fd_adapter.cc:21-46).
THEOREM UDPOnlyThePeer == AdapterSpec /\ server.layer = "udp" => []OnlyThePeer
<1>1. AdapterInit /\ server.layer = "udp" => PeerOverUDP
  <2> SUFFICES ASSUME AdapterInit, server.layer = "udp" PROVE PeerOverUDP
    OBVIOUS
  <2>1. PICK source, destination, listening, loss, layer :
          /\ server = FdAdapter(layer, source, destination, listening, loss)
          /\ \/ listening = TRUE
             \/ listening = FALSE /\ \E h \in Hosts : destination = Address[h]
    BY ZenonT(30) DEF AdapterInit, ListenerOf, ClientOf
  <2>2. wire = {} /\ heard = {}
    BY DEF AdapterInit
  <2> QED BY Zenon, <2>1, <2>2 DEF PeerOverUDP, FdAdapter, OnlyThePeer
<1>2. PeerOverUDP /\ [AdapterNext]_adapterVars => PeerOverUDP'
  <2> SUFFICES ASSUME PeerOverUDP, [AdapterNext]_adapterVars PROVE PeerOverUDP'
    OBVIOUS
  <2>1. CASE LoseDatagram
    BY <2>1 DEF LoseDatagram, PeerOverUDP, OnlyThePeer
  <2>2. CASE UNCHANGED adapterVars
    BY <2>2 DEF adapterVars, PeerOverUDP, OnlyThePeer, Routed
  <2> QED BY <2>1, <2>2, WriteKeepsPeer, ReadKeepsPeer DEF AdapterNext
<1>3. PeerOverUDP => OnlyThePeer
  BY DEF PeerOverUDP
<1> QED BY <1>1, <1>2, <1>3, PTL DEF AdapterSpec
=============================================================================
