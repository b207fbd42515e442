--------------------------- MODULE ReceiverProofs ----------------------------
(***************************************************************************)
(* The receiving side on its own, for every value of the constants: the    *)
(* StreamReassembler and the promise it implements, and the TCPReceiver.   *)
(* The two specifications share no state.                                  *)
(***************************************************************************)
EXTENDS StreamReassembler, TCPReceiver, TCPReceiverLemmas

-----------------------------------------------------------------------------
(***************************************************************************)
(* The invariants of StreamReassembler, and that it implements             *)
(* InOrderStream, for every capacity, stream and cut into substrings.      *)
(***************************************************************************)
\* A substring of the stream.
LEMMA ExcerptFacts ==
    ASSUME NEW index \in Nat, NEW len \in Nat
    PROVE  /\ Excerpt(index, len) \in Seq(Nat) /\ Len(Excerpt(index, len)) = len
           /\ FromStream(Excerpt(index, len), index)
           /\ Excerpt(index, len) = <<>> <=> len = 0
<1> DEFINE d == Excerpt(index, len)
<1>1. \A i \in 1 .. len : index + i - 1 \in Nat
  OBVIOUS
<1>2. d \in [1 .. len -> Nat] /\ \A i \in 1 .. len : d[i] = index + i - 1
  BY <1>1 DEF Excerpt
<1> HIDE DEF d
<1>3. d \in Seq(Nat) /\ Len(d) = len
  BY <1>2, SeqDef, LenProperties
<1>4. d = <<>> <=> len = 0
  BY <1>3, EmptySeq
<1> QED BY <1>2, <1>3, <1>4 DEF FromStream, d

\* One step with its arguments: a substring is pushed, or bytes are read.
LEMMA NextCases ==
    ASSUME ReassemblerNext
    PROVE  \/ \E index \in 0 .. StringLen, len \in 0 .. MaxSubstring, eof \in BOOLEAN :
                 /\ index + len <= StringLen
                 /\ eof => index + len = StringLen
                 /\ r' = PushSubstring(r, Excerpt(index, len), index, eof)
                 /\ call' = <<index, len, eof>>
           \/ \E n \in 1 .. Capacity :
                 /\ n <= Len(r.output.buff)
                 /\ r' = [r EXCEPT !.output = StreamRead(r.output, n)]
                 /\ call' = <<n>>
BY DEF ReassemblerNext, Push, ReadAssembled, BufferSize

\* Every step preserves the invariant.
LEMMA NextWell ==
    ASSUME Well(r, Capacity, StringLen), [ReassemblerNext]_reassemblerVars
    PROVE  Well(r, Capacity, StringLen)'
<1>1. CASE UNCHANGED reassemblerVars
  BY <1>1 DEF reassemblerVars, Well, Sound
<1>2. CASE ReassemblerNext
  <2>1. ASSUME NEW index \in 0 .. StringLen, NEW len \in 0 .. MaxSubstring, NEW eof \in BOOLEAN,
               index + len <= StringLen, eof => index + len = StringLen,
               r' = PushSubstring(r, Excerpt(index, len), index, eof)
        PROVE  Well(r', Capacity, StringLen)
    <3>1. index \in Nat /\ len \in Nat
      BY ReassemblerAssumption
    <3>2. Well(PushSubstring(r, Excerpt(index, len), index, eof), Capacity, StringLen)
      BY Zenon, <2>1, <3>1, ExcerptFacts, PushSubstringFacts, ReassemblerAssumption
    <3> QED BY <2>1, <3>2
  <2>2. ASSUME NEW n \in 1 .. Capacity, n <= Len(r.output.buff),
               r' = [r EXCEPT !.output = StreamRead(r.output, n)]
        PROVE  Well(r', Capacity, StringLen)
    <3>1. n \in Nat
      BY ReassemblerAssumption
    <3>2. Well([r EXCEPT !.output = StreamRead(r.output, n)], Capacity, StringLen)
      BY Zenon, <2>2, <3>1, ReadOutput, ReassemblerAssumption
    <3> QED BY <2>2, <3>2
  <2>3. Well(r', Capacity, StringLen)
    BY <1>2, <2>1, <2>2, NextCases
  <2> QED BY <2>3
<1> QED BY <1>1, <1>2

\* The inductive invariant holds in every reachable state.
THEOREM WellIsInvariant == ReassemblerSpec => []Well(r, Capacity, StringLen)
<1>1. ReassemblerInit => Well(r, Capacity, StringLen)
  BY NewFacts, ReassemblerAssumption DEF ReassemblerInit
<1>2. Well(r, Capacity, StringLen) /\ [ReassemblerNext]_reassemblerVars
         => Well(r, Capacity, StringLen)'
  BY NextWell
<1> QED BY <1>1, <1>2, PTL DEF ReassemblerSpec

\* What the invariant says of the properties checked.
LEMMA WellImplies ==
    ASSUME Well(r, Capacity, StringLen)
    PROVE  /\ OutputInOrder /\ StoredApart /\ WithinCapacity /\ EndsAtTheEnd
           /\ StoredIndices = Covered(r.unassembledBuffer)
<1> DEFINE list == r.unassembledBuffer
           a == r.output.totin
           x == r.output.totout
           m == Len(r.output.buff)
<1>1. /\ Sound(r, Capacity, StringLen) /\ Chain(list) /\ Sealed(list)
      /\ r.output.isInputEnd <=> a = r.posEOF
  BY DEF Well, Sound
<1>2. /\ a \in Nat /\ x \in Nat /\ m \in Nat /\ Capacity \in Nat /\ FirstUnassembled(r) = a
      /\ a <= x + Capacity /\ a = x + m
  BY <1>1, SoundFacts, ReassemblerAssumption DEF Sound
<1>3. /\ Len(Stored) = Len(list) - 1 /\ Len(list) \in Nat /\ Len(list) > 0
      /\ \A i \in 1 .. Len(Stored) : Stored[i] = list[i]
      /\ StoredIndices = Covered(list)
  BY Zenon, <1>1, DropSentinel DEF Stored, StoredIndices
<1>4. OutputInOrder
  BY <1>1, <1>2 DEF OutputInOrder, Sound, FromStream
<1>5. EndsAtTheEnd
  BY <1>1 DEF EndsAtTheEnd
<1> HIDE DEF list, a, x, m
<1>6. \A i \in 1 .. Len(Stored) :
         /\ i \in 1 .. Len(list) - 1 /\ i \in 1 .. Len(list)
         /\ i > 1 => i - 1 \in 1 .. Len(list) /\ i - 1 \in 1 .. Len(Stored)
  BY <1>3
<1>7. StoredApart
  <2>1. ASSUME NEW i \in 1 .. Len(Stored)
        PROVE  /\ Stored[i].second # <<>>
               /\ \A j \in 1 .. Len(Stored[i].second) : Stored[i].second[j] = Stored[i].first + j - 1
               /\ Stored[i].first > FirstUnassembled(r)
               /\ i > 1 => Stored[i - 1].first + Len(Stored[i - 1].second) <= Stored[i].first
    <3>1. Stored[i] = list[i] /\ i \in 1 .. Len(list) - 1 /\ i \in 1 .. Len(list)
      BY <1>3, <1>6
    <3>2. list[i].second # <<>> /\ FromStream(list[i].second, list[i].first)
      BY <1>1, <3>1 DEF Sealed, Chain
    <3>3. list[i] \in Pair /\ list[i].first \in Nat /\ PairEnd(list[i]) \in Nat
      BY <1>1, <3>1, ChainFacts
    <3>4. list[i].first < PairEnd(list[i])
      BY <3>2, <3>3, PairFacts
    <3>5. list[i].first \in Covered(list)
      BY <3>1, <3>3, <3>4 DEF Covered, CoveredTo
    <3>6. a < list[i].first
      BY <1>1, <3>5 DEF Sound, list, a
    <3>7. ASSUME i > 1 PROVE Stored[i - 1].first + Len(Stored[i - 1].second) <= Stored[i].first
      <4>1. i - 1 \in 1 .. Len(list) /\ Stored[i - 1] = list[i - 1] /\ i - 1 < i
        BY <1>3, <1>6, <3>7
      <4>2. PairEnd(list[i - 1]) <= list[i].first
        BY <1>1, <3>1, <4>1 DEF Chain
      <4> QED BY <3>1, <4>1, <4>2 DEF PairEnd
    <3>8. Stored[i].first > FirstUnassembled(r)
      BY <1>2, <3>1, <3>3, <3>6
    <3>9. \A j \in 1 .. Len(Stored[i].second) : Stored[i].second[j] = Stored[i].first + j - 1
      BY <3>1, <3>2 DEF FromStream
    <3> QED BY <3>1, <3>2, <3>7, <3>8, <3>9
  <2> HIDE DEF Stored
  <2> QED BY <2>1 DEF StoredApart
<1>8. WithinCapacity
  <2> DEFINE C == Covered(list)
  <2>1. \A n \in C : a < n /\ n < x + Capacity /\ n \in Nat
    BY <1>1, SoundFacts, ReassemblerAssumption DEF Sound, list, a, x
  <2>2. m + r.unassembledBytes <= Capacity
    BY <1>1, StoredFit, ReassemblerAssumption DEF m
  <2>3. r.unassembledBytes = Cardinality(C)
    BY <1>1 DEF Sound, list
  <2> HIDE DEF C
  <2>4. StoredIndices = C
    BY <1>3 DEF C
  <2>5. BufferSize(r.output) = m
    BY DEF BufferSize, m
  <2>6. \A i \in C : i < r.output.totout + Capacity
    BY <2>1 DEF x
  <2> HIDE DEF StoredIndices
  <2> QED BY <2>2, <2>3, <2>4, <2>5, <2>6 DEF WithinCapacity
<1> QED BY <1>3, <1>4, <1>5, <1>7, <1>8 DEF list

\* The stream comes out in order.
THEOREM OutputStaysInOrder == ReassemblerSpec => []OutputInOrder
<1>1. Well(r, Capacity, StringLen) => OutputInOrder
  BY WellImplies
<1> QED BY <1>1, WellIsInvariant, PTL

\* The stored pairs never overlap, and nothing deliverable is held back.
THEOREM StoredStaysApart == ReassemblerSpec => []StoredApart
<1>1. Well(r, Capacity, StringLen) => StoredApart
  BY WellImplies
<1> QED BY <1>1, WellIsInvariant, PTL

\* The capacity is never exceeded.
THEOREM StaysWithinCapacity == ReassemblerSpec => []WithinCapacity
<1>1. Well(r, Capacity, StringLen) => WithinCapacity
  BY WellImplies
<1> QED BY <1>1, WellIsInvariant, PTL

\* The output is ended at the announced end and nowhere else.
THEOREM AlwaysEndsAtTheEnd == ReassemblerSpec => []EndsAtTheEnd
<1>1. Well(r, Capacity, StringLen) => EndsAtTheEnd
  BY WellImplies
<1> QED BY <1>1, WellIsInvariant, PTL

\* The least element of a set is its Min.
LEMMA MinIs ==
    ASSUME NEW S, S \subseteq Int, NEW x \in S, \A y \in S : x <= y
    PROVE  Min(S) = x
<1>1. \E z \in S : \A y \in S : z <= y
  OBVIOUS
<1>2. Min(S) \in S /\ \A y \in S : Min(S) <= y
  BY Zenon, <1>1 DEF Min
<1> DEFINE z == Min(S)
<1>3. z \in Int /\ x \in Int /\ z <= x /\ x <= z
  BY ZenonT(30), <1>2
<1> HIDE DEF z
<1>4. z = x
  BY <1>3
<1> QED BY <1>4 DEF z

\* Pushing a substring is receiving it.
LEMMA PushReceives ==
    ASSUME Well(r, Capacity, StringLen), Well(r, Capacity, StringLen)',
           NEW index \in 0 .. StringLen, NEW len \in 0 .. MaxSubstring, NEW eof \in BOOLEAN,
           index + len <= StringLen, eof => index + len = StringLen,
           r' = PushSubstring(r, Excerpt(index, len), index, eof),
           call' = <<index, len, eof>>
    PROVE  Promise!Receive(index, len, eof)
<1> DEFINE end == IF eof THEN index + len ELSE r.posEOF
           q == [r EXCEPT !.posEOF = end]
           a == r.output.totin
           b == r'.output.totin
           C == Covered(r.unassembledBuffer)
           w == r.output.totout + Capacity
           limit == Min({w, end})
           got == C \cup {i \in index .. index + len - 1 : a <= i /\ i < limit}
<1>1. index \in Nat /\ len \in Nat /\ StringLen \in Nat /\ Capacity \in Nat
  BY ReassemblerAssumption
<1>2. /\ Sound(q, Capacity, StringLen) /\ Takes(q, r', index, len, Capacity)
      /\ q.output = r.output /\ q.unassembledBuffer = r.unassembledBuffer
      /\ q.posEOF = end
      /\ Ends(r, r')
  <2> DEFINE data == Excerpt(index, len)
             s == PushSubstring(r, data, index, eof)
  <2>1. /\ data \in Seq(Nat) /\ Len(data) = len /\ FromStream(data, index)
        /\ StringLen < SIZE_MAX
    BY <1>1, ExcerptFacts, ReassemblerAssumption
  <2> HIDE DEF data
  <2>2. Sound(q, Capacity, StringLen) /\ Takes(q, s, index, len, Capacity)
    BY Zenon, <1>1, <2>1, PushSubstringFacts
  <2>3. Ends(r, s)
    BY Zenon, <1>1, <2>1, PushSubstringFacts
  <2>4. q.output = r.output
    BY <1>1, <2>1, PushSubstringFacts
  <2>5. q.unassembledBuffer = r.unassembledBuffer
    BY <1>1, <2>1, PushSubstringFacts
  <2>6. q.posEOF = end
    BY <1>1, <2>1, PushSubstringFacts
  <2>7. s = r'
    BY DEF data
  <2> HIDE DEF s, q, end
  <2> QED BY <2>2, <2>3, <2>4, <2>5, <2>6, <2>7
<1> HIDE DEF q
<1>3. StoredIndices = C /\ StoredIndices' = Covered(r'.unassembledBuffer)
  <2>1. StoredIndices = C
    BY WellImplies
  <2>2. (Well(r, Capacity, StringLen) => StoredIndices = Covered(r.unassembledBuffer))'
    BY WellImplies, PTL
  <2> QED BY <2>1, <2>2
<1>4. a \in Nat /\ w \in Nat /\ end \in Nat
  BY <1>1, <1>2, SoundFacts, ReassemblerAssumption
<1>5. limit = Lesser(w, end)
  <2>1. CASE w < end
    <3>1. \A y \in {w, end} : w <= y
      BY <1>4, <2>1
    <3> HIDE DEF w, end
    <3>2. Min({w, end}) = w
      BY <1>4, <3>1, MinIs
    <3> QED BY <2>1, <3>2 DEF Lesser
  <2>2. CASE ~(w < end)
    <3>1. \A y \in {w, end} : end <= y
      BY <1>4, <2>2
    <3> HIDE DEF w, end
    <3>2. Min({w, end}) = end
      BY <1>4, <3>1, MinIs
    <3> QED BY <2>2, <3>2 DEF Lesser
  <2> QED BY <2>1, <2>2
<1> HIDE DEF limit
<1>6. got = Got(q, index, len, Capacity)
  BY <1>2, <1>5 DEF Got
<1>7. /\ r'.output.totout = r.output.totout /\ r'.posEOF = end /\ a <= b
      /\ a .. b - 1 \subseteq got /\ b \notin got
      /\ Covered(r'.unassembledBuffer) = {i \in got : i > b}
  BY <1>2, <1>6 DEF Takes
<1>8. b \in Nat /\ b <= StringLen
  <2>1. Well(r', Capacity, StringLen)
    OBVIOUS
  <2> QED BY <2>1, SoundFacts, ReassemblerAssumption DEF Well
<1> HIDE DEF got, b, a, C, w, end
<1>9. Min((a .. StringLen) \ got) = b
  <2> DEFINE S == (a .. StringLen) \ got
  <2>1. S \subseteq Int /\ b \in S
    BY <1>1, <1>4, <1>7, <1>8
  <2>2. ASSUME NEW y \in S PROVE b <= y
    <3>1. y \in Int /\ a <= y /\ y \notin a .. b - 1
      BY <1>1, <1>4, <1>7
    <3> QED BY <1>4, <1>8, <3>1
  <2> HIDE DEF S
  <2>3. Min(S) = b
    BY ZenonT(30), <2>1, <2>2, MinIs
  <2> QED BY <2>3 DEF S
<1>10. StoredIndices' = {i \in got : i > b}
  BY <1>3, <1>7
<1>11. r'.posEOF = IF eof THEN index + len ELSE r.posEOF
  BY <1>7 DEF end
<1>12. got = StoredIndices \cup {i \in index .. index + len - 1 :
                  r.output.totin <= i /\ i < Min({r.output.totout + Capacity, r'.posEOF})}
  BY <1>3, <1>7 DEF got, limit, a, w
<1>13. r'.output.isInputEnd = (r.output.isInputEnd \/ b = r'.posEOF)
  <2>1. r.output.isInputEnd \in BOOLEAN /\ r'.output.isInputEnd \in BOOLEAN
    <3>1. r.output \in Bounded(Nat) /\ r'.output \in Bounded(Nat)
      BY DEF Well, Sound
    <3> QED BY <3>1 DEF Bounded, ByteStreamState
  <2> QED BY <1>2, <2>1 DEF Ends, b
<1> HIDE DEF StoredIndices
<1> QED BY <1>7, <1>9, <1>10, <1>11, <1>12, <1>13
        DEF Promise!Receive, Promise!FirstMissing, Promise!Min, Min, a, b

\* Reading bytes is consuming them.
LEMMA ReadConsumes ==
    ASSUME Well(r, Capacity, StringLen), Well(r, Capacity, StringLen)',
           NEW n \in 1 .. Capacity, n <= Len(r.output.buff),
           r' = [r EXCEPT !.output = StreamRead(r.output, n)], call' = <<n>>
    PROVE  Promise!Consume(n)
<1>1. n \in Nat
  BY ReassemblerAssumption
<1>2. /\ r'.posEOF = r.posEOF /\ r'.unassembledBuffer = r.unassembledBuffer
      /\ r'.output.totin = r.output.totin /\ r'.output.totout = r.output.totout + n
      /\ r'.output.isInputEnd = r.output.isInputEnd
  BY <1>1, ReadOutput, ReassemblerAssumption DEF Consumed
<1>3. StoredIndices' = StoredIndices
  BY <1>2 DEF StoredIndices, Stored
<1>4. r.output.totout + n <= r.output.totin
  <2>1. /\ r.output.totout \in Nat /\ Len(r.output.buff) \in Nat
        /\ r.output.totin = r.output.totout + Len(r.output.buff)
    BY SoundFacts, ReassemblerAssumption DEF Well, Sound
  <2> QED BY <1>1, <2>1
<1> QED BY <1>2, <1>3, <1>4 DEF Promise!Consume

\* The list of pairs implements the set of indices it stands for.
THEOREM Refinement == ReassemblerSpec => ImplementsInOrderStream
<1>1. ReassemblerInit => Promise!Init
  <2>1. SUFFICES ASSUME ReassemblerInit PROVE Promise!Init
    OBVIOUS
  <2>2. StoredIndices = {}
    <3>1. Well(r, Capacity, StringLen) /\ Covered(r.unassembledBuffer) = {}
      BY <2>1, NewFacts, ReassemblerAssumption DEF ReassemblerInit
    <3> QED BY <3>1, WellImplies
  <2>3. /\ r.output.totin = 0 /\ r.output.totout = 0 /\ r.output.isInputEnd = FALSE
        /\ r.posEOF = SIZE_MAX /\ call = <<>>
    BY <2>1 DEF ReassemblerInit, NewReassembler, NewByteStream
  <2> HIDE DEF StoredIndices
  <2> QED BY <2>2, <2>3 DEF Promise!Init
<1>2. Well(r, Capacity, StringLen) /\ Well(r, Capacity, StringLen)' /\ [ReassemblerNext]_reassemblerVars
         => [Promise!Next]_(Promise!streamVars)
  <2>1. SUFFICES ASSUME Well(r, Capacity, StringLen), Well(r, Capacity, StringLen)',
                        [ReassemblerNext]_reassemblerVars
                 PROVE  [Promise!Next]_(Promise!streamVars)
    OBVIOUS
  <2>2. CASE UNCHANGED reassemblerVars
    BY <2>2 DEF reassemblerVars, Promise!streamVars, StoredIndices, Stored
  <2>3. CASE ReassemblerNext
    <3>1. ASSUME NEW index \in 0 .. StringLen, NEW len \in 0 .. MaxSubstring, NEW eof \in BOOLEAN,
                 index + len <= StringLen, eof => index + len = StringLen,
                 r' = PushSubstring(r, Excerpt(index, len), index, eof),
                 call' = <<index, len, eof>>
          PROVE  Promise!Next
      <4>1. Promise!Receive(index, len, eof)
        BY <2>1, <3>1, PushReceives
      <4>2. len \in 0 .. StringLen
        BY <3>1, ReassemblerAssumption
      <4> QED BY <3>1, <4>1, <4>2 DEF Promise!Next
    <3>2. ASSUME NEW n \in 1 .. Capacity, n <= Len(r.output.buff),
                 r' = [r EXCEPT !.output = StreamRead(r.output, n)], call' = <<n>>
          PROVE  Promise!Next
      <4>1. Promise!Consume(n)
        BY <2>1, <3>2, ReadConsumes
      <4> QED BY <4>1 DEF Promise!Next
    <3>3. Promise!Next
      BY <2>3, <3>1, <3>2, NextCases
    <3> QED BY <3>3
  <2> QED BY <2>1, <2>2, <2>3
<1> QED BY <1>1, <1>2, WellIsInvariant, PTL
        DEF ReassemblerSpec, ImplementsInOrderStream, Promise!Spec

-----------------------------------------------------------------------------
(***************************************************************************)
(* What a TCPReceiver acknowledges and keeps, for every stream that fits   *)
(* in the sequence space, every capacity and every cut into segments.      *)
(***************************************************************************)
\* No two sequence numbers of the stream, its SYN and FIN included, look alike on the
\* wire, and no more bytes can be stored than half of the sequence space.  The checkpoint
\* given to unwrap(), a number of stored bytes, is good enough for such a stream and no
\* longer one.
OneTurn == StreamLen + 1 < M /\ CAPACITY <= M \div 2

\* What the peer numbers has arrived: the SYN, every byte that is delivered or stored,
\* and the FIN once the end of the stream is known.  With a sound reassembler, this is
\* the inductive invariant.
Backed ==
    /\ rcv \in TCPReceiverState /\ rcv.capacity = CAPACITY
    /\ Well(rcv.reassembler, CAPACITY, StreamLen)
    /\ rcv.syn => rcv.isn = ISN /\ 0 \in arrived
    /\ \A n \in Nat :
          n < StreamOut(rcv).totin \/ n \in Covered(rcv.reassembler.unassembledBuffer)
              => n + 1 \in arrived
    /\ rcv.reassembler.posEOF = StreamLen => StreamLen + 1 \in arrived

\* The fields of a segment of the peer.
LEMMA PeerSegmentFacts ==
    ASSUME NEW a \in Nat, NEW len \in Nat, NEW syn \in BOOLEAN, NEW fin \in BOOLEAN,
           Legal(a, len, syn, fin)
    PROVE  LET seg == PeerSegment(a, len, syn, fin)
           IN  /\ seg \in Segment /\ seg.syn = syn /\ seg.fin = fin
               /\ Len(seg.payload) = len
               /\ Numbered(seg, a, ISN, StreamLen, TRUE)
<1> DEFINE seg == PeerSegment(a, len, syn, fin)
           data == [i \in 1 .. len |-> a + Bit(syn) + i - 2]
<1>1. seg.syn = syn /\ seg.fin = fin /\ seg.seqno = Wrap(a, ISN) /\ seg.payload = data
  BY DEF PeerSegment, EmptySegment
<1>2. Bit(syn) \in {0, 1} /\ (len > 0 => a + Bit(syn) >= 1)
  BY DEF Legal, Bit
<1>3. \A i \in 1 .. len : a + Bit(syn) + i - 2 \in Nat
  BY <1>2
<1>4. data \in Seq(Nat) /\ Len(data) = len
  BY <1>3
<1>5. FromStream(data, a + Bit(syn) - 1)
  BY <1>2, <1>4 DEF FromStream
<1>6. Wrap(a, ISN) \in WrappingInt32
  BY WrapType, ReceiverAssumption
<1>7. seg \in Segment
  <2>1. 0 \in WrappingInt32
    BY MAssumption DEF WrappingInt32
  <2> HIDE DEF data
  <2> QED BY Zenon, <1>4, <1>6, <2>1 DEF PeerSegment, EmptySegment, Segment, data
<1>8. /\ syn => a = 0
      /\ len > 0 \/ fin => a + Bit(syn) >= 1 /\ a + Bit(syn) + len <= StreamLen + 1
      /\ fin => a + Bit(syn) + len = StreamLen + 1
  BY <1>2, ReceiverAssumption DEF Legal
<1> HIDE DEF data, seg
<1>9. Numbered(seg, a, ISN, StreamLen, TRUE)
  BY <1>1, <1>4, <1>5, <1>8 DEF Numbered
<1> QED BY Zenon, <1>1, <1>4, <1>7, <1>9 DEF seg

\* From rcv to v a segment is taken in: the receiver is open, and the payload is pushed at
\* its stream index, or the segment has neither payload nor FIN.
Accepts(v, a, len, syn, fin) ==
    LET w == rcv.reassembler
        s == v.reassembler
        index == a + Bit(syn) - 1
    IN  /\ syn # rcv.syn /\ (syn => a = 0)
        /\ v \in TCPReceiverState /\ v.capacity = CAPACITY /\ v.syn = TRUE /\ v.isn = ISN
        /\ Well(s, CAPACITY, StreamLen)
        /\ \/ s = w /\ len = 0 /\ ~fin
           \/ /\ index \in Nat /\ (fin => index + len = StreamLen)
              /\ Pushed(w, s, index .. index + len - 1, CAPACITY)
              /\ s.posEOF = IF fin THEN index + len ELSE w.posEOF

\* segment_received() ignores a segment of the peer or takes it in at the index the peer
\* gave it.
LEMMA ArriveFacts ==
    ASSUME Backed, OneTurn,
           NEW a \in Nat, NEW len \in Nat, NEW syn \in BOOLEAN, NEW fin \in BOOLEAN,
           Legal(a, len, syn, fin)
    PROVE  LET v == ReceiverSegmentReceived(rcv, PeerSegment(a, len, syn, fin))
           IN  (syn = rcv.syn /\ v = rcv) \/ Accepts(v, a, len, syn, fin)
<1> DEFINE seg == PeerSegment(a, len, syn, fin)
           v == ReceiverSegmentReceived(rcv, seg)
<1>1. /\ seg \in Segment /\ seg.syn = syn /\ seg.fin = fin /\ Len(seg.payload) = len
      /\ Numbered(seg, a, ISN, StreamLen, TRUE)
  BY PeerSegmentFacts, ZenonT(30)
<1>2. RcvGood(rcv, ISN, CAPACITY, StreamLen)
  BY DEF Backed, RcvGood
<1> HIDE DEF seg
<1>3. (syn = rcv.syn /\ v = rcv) \/ Taken(rcv, v, a, seg, ISN, CAPACITY, StreamLen)
  <2>1. /\ StreamLen \in Nat /\ StreamLen <= StreamLen /\ StreamLen < SIZE_MAX
        /\ CAPACITY \in Nat /\ ISN \in WrappingInt32
        /\ StreamLen + 1 < M /\ CAPACITY <= M \div 2
    BY ReceiverAssumption DEF OneTurn
  <2>2. (seg.syn = rcv.syn /\ v = rcv) \/ Taken(rcv, v, a, seg, ISN, CAPACITY, StreamLen)
    BY Zenon, <1>1, <1>2, <2>1, SegmentTaken
  <2> QED BY <1>1, <2>2
<1>4. syn => a = 0
  BY DEF Legal
<1> HIDE DEF v
<1>5. Taken(rcv, v, a, seg, ISN, CAPACITY, StreamLen) => Accepts(v, a, len, syn, fin)
  BY <1>1, <1>4 DEF Taken, RcvGood, Accepts
<1> QED BY <1>3, <1>5 DEF v, seg

\* A new receiver has nothing to back.
LEMMA InitBacked == Init => Backed
<1> SUFFICES ASSUME Init PROVE Backed
  OBVIOUS
<1> DEFINE w == NewReassembler(CAPACITY)
<1>1. rcv = [reassembler |-> w, capacity |-> CAPACITY, isn |-> 0, syn |-> FALSE, fin |-> FALSE]
  BY DEF Init, NewTCPReceiver
<1>2. Well(w, CAPACITY, StreamLen) /\ Covered(w.unassembledBuffer) = {}
  BY NewFacts, ReceiverAssumption
<1>3. w \in ReassemblerState
  BY <1>2 DEF Well, Sound
<1>4. w.output.totin = 0 /\ w.posEOF = SIZE_MAX
  BY DEF NewReassembler, NewByteStream
<1> HIDE DEF w
<1>5. 0 \in WrappingInt32
  BY MAssumption DEF WrappingInt32
<1>6. rcv \in TCPReceiverState
  BY <1>1, <1>3, <1>5, ReceiverAssumption DEF TCPReceiverState
<1> QED BY <1>1, <1>2, <1>4, <1>6, ReceiverAssumption DEF Backed, StreamOut

\* The parameters of a segment.
LEMMA ParamsFacts ==
    ASSUME NEW p \in SegmentParams
    PROVE  p[1] \in Nat /\ p[2] \in Nat /\ p[3] \in BOOLEAN /\ p[4] \in BOOLEAN
BY ReceiverAssumption DEF SegmentParams

\* What a segment adds is backed by its own sequence numbers.
LEMMA ArriveBacked ==
    ASSUME Backed, OneTurn,
           NEW a \in Nat, NEW len \in Nat, NEW syn \in BOOLEAN, NEW fin \in BOOLEAN,
           Legal(a, len, syn, fin), Arrive(a, len, syn, fin)
    PROVE  Backed'
<1> DEFINE last == Last(a, len, syn, fin)
           w == rcv.reassembler
           s == rcv'.reassembler
           index == a + Bit(syn) - 1
           C == Covered(w.unassembledBuffer)
           D == Covered(s.unassembledBuffer)
<1>1. arrived' = arrived \cup (a .. last)
  BY DEF Arrive
<1>2. (syn = rcv.syn /\ rcv' = rcv) \/ Accepts(rcv', a, len, syn, fin)
  BY ArriveFacts DEF Arrive
<1>3. CASE rcv' = rcv
  BY <1>1, <1>3 DEF Backed, StreamOut
<1>4. CASE Accepts(rcv', a, len, syn, fin)
  <2>1. /\ syn # rcv.syn /\ (syn => a = 0)
        /\ rcv' \in TCPReceiverState /\ rcv'.capacity = CAPACITY
        /\ rcv'.syn = TRUE /\ rcv'.isn = ISN
        /\ Well(s, CAPACITY, StreamLen)
    BY <1>4 DEF Accepts
  <2>2. last = ((a + Bit(syn)) + len) + Bit(fin) - 1 /\ Bit(syn) \in {0, 1} /\ Bit(fin) \in {0, 1}
    BY DEF Last, Bit
  <2>3. 0 \in arrived'
    <3>1. CASE syn
      BY <1>1, <2>1, <2>2, <3>1 DEF Bit
    <3>2. CASE ~syn
      <4>1. rcv.syn
        BY <2>1, <3>2 DEF Backed, TCPReceiverState
      <4> QED BY <1>1, <4>1 DEF Backed
    <3> QED BY <3>1, <3>2
  <2>4. \A n \in Nat : n < w.output.totin \/ n \in C => n + 1 \in arrived'
    BY <1>1 DEF Backed, StreamOut
  <2>5. w.posEOF = StreamLen => StreamLen + 1 \in arrived'
    BY <1>1 DEF Backed
  <2>6. CASE s = w
    BY <2>1, <2>3, <2>4, <2>5, <2>6 DEF Backed, StreamOut
  <2>7. CASE /\ index \in Nat /\ (fin => index + len = StreamLen)
             /\ Pushed(w, s, index .. index + len - 1, CAPACITY)
             /\ s.posEOF = IF fin THEN index + len ELSE w.posEOF
    <3> DEFINE new == index .. index + len - 1
               x == w.output.totin
               y == s.output.totin
    <3>1. \A n \in new : n \in Nat /\ n + 1 \in arrived'
      BY <1>1, <2>2, <2>7
    <3>2. x .. y - 1 \subseteq C \cup new /\ D \subseteq C \cup new
      BY <2>7 DEF Pushed
    <3>3. x \in Nat /\ y \in Nat
      <4>1. Well(w, CAPACITY, StreamLen)
        BY DEF Backed
      <4> QED BY ZenonT(30), <2>1, <4>1, SoundFacts, ReceiverAssumption DEF Well
    <3> HIDE DEF C, D, new, x, y
    <3>4. ASSUME NEW n \in Nat, n < y \/ n \in D
          PROVE  n + 1 \in arrived'
      <4>1. n < x \/ n \in C \cup new
        BY <3>2, <3>3, <3>4
      <4> QED BY <2>4, <3>1, <4>1 DEF x
    <3>5. s.posEOF = StreamLen => StreamLen + 1 \in arrived'
      <4>1. CASE fin
        <5>1. last = StreamLen + 1 /\ a <= last
          BY <2>2, <2>7, <4>1, ReceiverAssumption DEF Bit
        <5> QED BY <1>1, <5>1, ReceiverAssumption
      <4>2. CASE ~fin
        BY <2>5, <2>7, <4>2
      <4> QED BY <4>1, <4>2
    <3> QED BY <2>1, <2>3, <3>4, <3>5 DEF Backed, StreamOut, D, y
  <2> QED BY <1>4, <2>6, <2>7 DEF Accepts
<1> QED BY <1>2, <1>3, <1>4

\* Reading takes nothing from what is received.
LEMMA ReadStepFacts ==
    ASSUME Backed, NEW n \in Nat, Read(n)
    PROVE  /\ Well(rcv'.reassembler, CAPACITY, StreamLen)
           /\ Consumed(rcv.reassembler, rcv'.reassembler, n)
           /\ rcv' = [rcv EXCEPT !.reassembler = rcv'.reassembler]
           /\ rcv' \in TCPReceiverState
<1> DEFINE w == rcv.reassembler
           s == [w EXCEPT !.output = StreamRead(w.output, n)]
<1>1. rcv \in TCPReceiverState /\ Well(w, CAPACITY, StreamLen)
  BY DEF Backed
<1>2. rcv' = [rcv EXCEPT !.reassembler = s] /\ n <= Len(w.output.buff)
  BY <1>1 DEF Read, StreamOut, BufferSize, TCPReceiverState
<1>3. Well(s, CAPACITY, StreamLen) /\ Consumed(w, s, n)
  BY Zenon, <1>1, <1>2, ReadOutput, ReceiverAssumption
<1>4. s \in ReassemblerState
  BY <1>3 DEF Well, Sound
<1> HIDE DEF s
<1>5. rcv'.reassembler = s /\ rcv' \in TCPReceiverState
  BY <1>1, <1>2, <1>4 DEF TCPReceiverState
<1> QED BY <1>2, <1>3, <1>5

\* Reading keeps what is received backed.
LEMMA ReadBacked ==
    ASSUME Backed, NEW n \in Nat, Read(n)
    PROVE  Backed'
<1> DEFINE w == rcv.reassembler
           s == rcv'.reassembler
<1>1. /\ Well(s, CAPACITY, StreamLen) /\ Consumed(w, s, n)
      /\ rcv' = [rcv EXCEPT !.reassembler = s] /\ rcv' \in TCPReceiverState
  BY ReadStepFacts
<1>2. rcv \in TCPReceiverState /\ arrived' = arrived
  BY DEF Backed, Read
<1> HIDE DEF s
<1>3. rcv'.syn = rcv.syn /\ rcv'.isn = rcv.isn /\ rcv'.capacity = rcv.capacity
  BY <1>1, <1>2 DEF TCPReceiverState
<1> QED BY <1>1, <1>2, <1>3 DEF Backed, StreamOut, Consumed, s

\* The steps of Next.
LEMMA NextBacked ==
    ASSUME OneTurn, Backed, [Next]_vars
    PROVE  Backed'
<1>1. CASE UNCHANGED vars
  BY <1>1 DEF vars, Backed, StreamOut
<1>2. ASSUME NEW p \in SegmentParams, Legal(p[1], p[2], p[3], p[4]),
             Arrive(p[1], p[2], p[3], p[4])
      PROVE  Backed'
  BY <1>2, ParamsFacts, ArriveBacked
<1>3. ASSUME NEW n \in 1 .. CAPACITY, Read(n)
      PROVE  Backed'
  <2>1. n \in Nat
    BY ReceiverAssumption
  <2> QED BY <1>3, <2>1, ReadBacked
<1> QED BY <1>1, <1>2, <1>3 DEF Next

\* What a receiver has taken in, or taken for the end of the stream, has arrived
\* (tcp_receiver.cc:12-32).
THEOREM BackedIsInvariant ==
    ASSUME OneTurn
    PROVE  Spec => []Backed
<1>1. Backed /\ [Next]_vars => Backed'
  BY NextBacked
<1> QED BY <1>1, InitBacked, PTL DEF Spec

\* The numbers of a receiver.
Accounted ==
    LET b == StreamOut(rcv)
    IN  /\ b.totin \in Nat /\ b.totout \in Nat /\ b.totin <= StreamLen
        /\ Bit(b.isInputEnd) \in {0, 1}
        /\ b.isInputEnd => b.totin = StreamLen /\ StreamLen + 1 \in arrived
        /\ FromStream(b.buff, b.totout)
        /\ RightEdge = AbsoluteAckno + (CAPACITY - (b.totin - b.totout))
        /\ AbsoluteAckno = b.totin + 1 + Bit(b.isInputEnd)

\* They follow from the invariant.
LEMMA BackedFacts == Backed => Accounted
<1> SUFFICES ASSUME Backed PROVE Accounted
  OBVIOUS
<1> DEFINE w == rcv.reassembler
           b == StreamOut(rcv)
<1>1. Well(w, CAPACITY, StreamLen) /\ Sound(w, CAPACITY, StreamLen) /\ b = w.output
  BY DEF Backed, Well, StreamOut
<1>2. /\ b.totin \in Nat /\ b.totout \in Nat /\ b.totin <= StreamLen /\ Len(b.buff) \in Nat
  BY <1>1, SoundFacts, ReceiverAssumption
<1>3. /\ b.totin = b.totout + Len(b.buff) /\ FromStream(b.buff, b.totout)
      /\ w.posEOF \in {StreamLen, SIZE_MAX}
  BY <1>1 DEF Sound
<1>4. b.isInputEnd => b.totin = StreamLen /\ w.posEOF = StreamLen
  <2>1. b.isInputEnd => b.totin = w.posEOF
    BY <1>1 DEF Well
  <2> HIDE DEF b, w
  <2> QED BY <1>2, <1>3, <2>1, ReceiverAssumption, SizeAssumption
<1>5. w.posEOF = StreamLen => StreamLen + 1 \in arrived
  BY DEF Backed
<1>6. Len(b.buff) = b.totin - b.totout
  <2> HIDE DEF b, w
  <2> QED BY <1>2, <1>3
<1>7. RightEdge = AbsoluteAckno + (CAPACITY - Len(b.buff))
  BY DEF RightEdge, WindowSize, BufferSize, Backed
<1>8. AbsoluteAckno = b.totin + 1 + Bit(b.isInputEnd)
  BY DEF AbsoluteAckno
<1>9. Bit(b.isInputEnd) \in {0, 1}
  BY DEF Bit
<1> HIDE DEF b, w
<1> QED BY <1>2, <1>3, <1>4, <1>5, <1>6, <1>7, <1>8, <1>9 DEF b, Accounted

\* Every sequence number below ackno() has been in some segment, ackno() is the number
\* the peer expects and the bytes delivered are the peer's (tcp_receiver.cc:12-42), for
\* every stream that fits in the sequence space.
THEOREM AcknowledgesOnlyWhatArrived ==
    ASSUME OneTurn
    PROVE  Spec => []AcksOnlyWhatArrived
<1>1. ASSUME Backed, HasAckno(rcv)
      PROVE  /\ 0 .. AbsoluteAckno - 1 \subseteq arrived
             /\ Ackno(rcv) = Wrap(AbsoluteAckno, ISN)
             /\ \A i \in 1 .. BufferSize(StreamOut(rcv)) :
                    StreamOut(rcv).buff[i] = StreamOut(rcv).totout + i - 1
  <2> DEFINE b == StreamOut(rcv)
  <2>1. rcv.isn = ISN /\ 0 \in arrived
    BY <1>1 DEF HasAckno, Backed
  <2>2. \A n \in Nat : n < b.totin => n + 1 \in arrived
    BY <1>1 DEF Backed
  <2>3. /\ b.totin \in Nat /\ Bit(b.isInputEnd) \in {0, 1}
        /\ b.isInputEnd => b.totin = StreamLen /\ StreamLen + 1 \in arrived
        /\ FromStream(b.buff, b.totout)
        /\ AbsoluteAckno = b.totin + 1 + Bit(b.isInputEnd)
    BY <1>1, BackedFacts DEF Accounted
  <2>4. Ackno(rcv) = Wrap(AbsoluteAckno, ISN)
    BY <2>1 DEF Ackno, AbsoluteAckno
  <2>5. \A i \in 1 .. BufferSize(b) : b.buff[i] = b.totout + i - 1
    BY <2>3 DEF FromStream, BufferSize
  <2>6. ASSUME NEW x \in 0 .. AbsoluteAckno - 1
        PROVE  x \in arrived
    <3> HIDE DEF b
    <3>1. CASE x = 0
      BY <2>1, <3>1
    <3>2. CASE x >= 1 /\ x <= b.totin
      <4>1. x - 1 \in Nat /\ x - 1 < b.totin /\ (x - 1) + 1 = x
        BY <2>3, <3>2
      <4> QED BY <2>2, <4>1
    <3>3. CASE x > b.totin
      <4>1. x = b.totin + 1 /\ Bit(b.isInputEnd) = 1
        BY <2>3, <3>3
      <4>2. b.isInputEnd
        BY <4>1 DEF Bit
      <4> QED BY <2>3, <4>1, <4>2
    <3> QED BY <2>3, <3>1, <3>2, <3>3
  <2> QED BY <2>4, <2>5, <2>6
<1>2. Backed => AcksOnlyWhatArrived
  BY <1>1 DEF AcksOnlyWhatArrived
<1> QED BY <1>2, BackedIsInvariant, PTL

\* No step takes back a byte that was delivered or read, or the end of the stream.
LEMMA StepGrows ==
    ASSUME OneTurn, Backed, [Next]_vars
    PROVE  /\ StreamOut(rcv).totin <= StreamOut(rcv').totin
           /\ StreamOut(rcv).totout <= StreamOut(rcv').totout
           /\ StreamOut(rcv).isInputEnd => StreamOut(rcv').isInputEnd
<1> DEFINE b == StreamOut(rcv)
           c == StreamOut(rcv')
           Goal == /\ b.totin <= c.totin /\ b.totout <= c.totout
                   /\ b.isInputEnd => c.isInputEnd
<1>1. b.totin \in Nat /\ b.totout \in Nat
  BY BackedFacts DEF Accounted
<1>2. ASSUME rcv'.reassembler = rcv.reassembler
      PROVE  Goal
  BY <1>1, <1>2 DEF StreamOut
<1>3. ASSUME NEW new, Pushed(rcv.reassembler, rcv'.reassembler, new, CAPACITY)
      PROVE  Goal
  BY <1>1, <1>3 DEF StreamOut, Pushed
<1>4. ASSUME NEW n \in Nat, Consumed(rcv.reassembler, rcv'.reassembler, n)
      PROVE  Goal
  BY <1>1, <1>4 DEF StreamOut, Consumed
<1> HIDE DEF Goal
<1>5. ASSUME UNCHANGED vars
      PROVE  Goal
  BY <1>2, <1>5 DEF vars
<1>6. ASSUME NEW p \in SegmentParams, Legal(p[1], p[2], p[3], p[4]),
             Arrive(p[1], p[2], p[3], p[4])
      PROVE  Goal
  <2>1. \/ rcv' = rcv
        \/ Accepts(rcv', p[1], p[2], p[3], p[4])
    BY <1>6, ParamsFacts, ArriveFacts DEF Arrive
  <2> QED BY <1>2, <1>3, <2>1 DEF Accepts
<1>7. ASSUME NEW n \in 1 .. CAPACITY, Read(n)
      PROVE  Goal
  <2>1. n \in Nat
    BY ReceiverAssumption
  <2> QED BY <1>4, <1>7, <2>1, ReadStepFacts
<1> QED BY <1>5, <1>6, <1>7 DEF Next, Goal

\* Neither ackno() nor the right edge of the window (ackno() plus window_size(),
\* tcp_receiver.cc:34-44) moves back in any step.
THEOREM WindowIsMonotone ==
    ASSUME OneTurn
    PROVE  Spec => WindowNeverRetracts
<1>1. ASSUME Backed, Backed', [Next]_vars
      PROVE  AbsoluteAckno' >= AbsoluteAckno /\ RightEdge' >= RightEdge
  <2> DEFINE b == StreamOut(rcv)
             c == StreamOut(rcv')
             e == Bit(b.isInputEnd)
             f == Bit(c.isInputEnd)
  <2>1. /\ b.totin \in Nat /\ b.totout \in Nat /\ e \in {0, 1}
        /\ RightEdge = AbsoluteAckno + (CAPACITY - (b.totin - b.totout))
        /\ AbsoluteAckno = b.totin + 1 + e
    BY <1>1, BackedFacts DEF Accounted
  <2>2. (Backed => Accounted)'
    BY BackedFacts, PTL
  <2>3. /\ c.totin \in Nat /\ c.totout \in Nat /\ f \in {0, 1}
        /\ RightEdge' = AbsoluteAckno' + (CAPACITY - (c.totin - c.totout))
        /\ AbsoluteAckno' = c.totin + 1 + f
    BY <1>1, <2>2 DEF Accounted
  <2>4. b.totin <= c.totin /\ b.totout <= c.totout /\ (b.isInputEnd => c.isInputEnd)
    BY <1>1, StepGrows
  <2>5. e <= f
    BY <2>4 DEF Bit
  <2> HIDE DEF b, c, e, f
  <2>6. AbsoluteAckno' >= AbsoluteAckno
    BY <2>1, <2>3, <2>4, <2>5
  <2>7. RightEdge = (b.totout + 1 + e) + CAPACITY /\ RightEdge' = (c.totout + 1 + f) + CAPACITY
    BY <2>1, <2>3, ReceiverAssumption
  <2> QED BY <2>1, <2>3, <2>4, <2>5, <2>6, <2>7, ReceiverAssumption
<1>2. Backed /\ Backed' /\ [Next]_vars
        => [HasAckno(rcv) => /\ AbsoluteAckno' >= AbsoluteAckno
                             /\ RightEdge' >= RightEdge]_vars
  BY <1>1
<1> QED BY <1>2, BackedIsInvariant, PTL DEF Spec, WindowNeverRetracts

\* The stored pairs are listed under the sequence numbers they stand for.
Listed == \A n \in Covered(rcv.reassembler.unassembledBuffer) : n + 1 \in StoredSeqnos

\* StoredSeqnos names every stored index.
LEMMA StoredIsListed == Backed => Listed
<1> SUFFICES ASSUME Backed, NEW n \in Covered(rcv.reassembler.unassembledBuffer)
             PROVE  n + 1 \in StoredSeqnos
  BY DEF Listed
<1> DEFINE list == rcv.reassembler.unassembledBuffer
<1>1. Chain(list) /\ list \in Seq(Pair)
  BY DEF Backed, Well, Sound, Chain
<1>2. PICK i \in 1 .. Len(list) : n \in Nat /\ list[i].first <= n /\ n < PairEnd(list[i])
  BY DEF Covered, CoveredTo
<1>3. list[i] \in Pair
  BY <1>1
<1>4. n + 1 \in list[i].first + 1 .. list[i].first + Len(list[i].second)
  BY <1>2, <1>3 DEF Pair, PairEnd
<1> QED BY <1>2, <1>4 DEF StoredSeqnos

\* A byte of a segment that lies in the advertised window is delivered or stored
\* (tcp_receiver.cc:12-32), whatever else is stored and however the segments overlap.
THEOREM WindowIsKept ==
    ASSUME OneTurn
    PROVE  Spec => KeepsWhatItAdvertised
<1> DEFINE Keeps == \A p \in SegmentParams :
                Legal(p[1], p[2], p[3], p[4]) /\ Arrive(p[1], p[2], p[3], p[4]) /\ rcv.syn /\ ~p[3]
                  => \A x \in p[1] .. p[1] + p[2] - 1 :
                       AbsoluteAckno <= x /\ x < RightEdge
                           => x < AbsoluteAckno' \/ x \in StoredSeqnos'
<1>1. ASSUME Backed, Backed',
             NEW a \in Nat, NEW len \in Nat, NEW syn \in BOOLEAN, NEW fin \in BOOLEAN,
             Legal(a, len, syn, fin), Arrive(a, len, syn, fin), rcv.syn, ~syn,
             NEW x \in a .. a + len - 1, AbsoluteAckno <= x, x < RightEdge
      PROVE  x < AbsoluteAckno' \/ x \in StoredSeqnos'
  <2> DEFINE w == rcv.reassembler
             s == rcv'.reassembler
             b == StreamOut(rcv)
             c == StreamOut(rcv')
             e == Bit(b.isInputEnd)
             new == a - 1 .. (a - 1) + len - 1
             n == x - 1
  <2>1. Accepts(rcv', a, len, syn, fin)
    BY <1>1, ArriveFacts, ZenonT(30) DEF Arrive, Backed, TCPReceiverState
  <2>2. Bit(syn) = 0 /\ len > 0 /\ x \in Int
    BY <1>1 DEF Bit
  <2>3. Pushed(w, s, new, CAPACITY) /\ a - 1 \in Nat
    BY <2>1, <2>2 DEF Accepts
  <2>4. n \in new
    BY <2>3
  <2>5. /\ b.totin \in Nat /\ b.totout \in Nat /\ e \in {0, 1}
        /\ b.isInputEnd => b.totin = StreamLen
        /\ RightEdge = AbsoluteAckno + (CAPACITY - (b.totin - b.totout))
        /\ AbsoluteAckno = b.totin + 1 + e
    BY <1>1, BackedFacts DEF Accounted
  <2>6. (Backed => Accounted)'
    BY BackedFacts, PTL
  <2>7. c.totin \in Nat /\ AbsoluteAckno' >= c.totin + 1
    BY <1>1, <2>6 DEF Accounted
  <2>8. a + len <= StreamLen + 1
    BY <1>1, <2>2 DEF Legal
  <2>9. e = 0
    <3>1. CASE e = 1
      <4>1. b.isInputEnd
        BY <3>1 DEF Bit
      <4> HIDE DEF b, e
      <4> QED BY <1>1, <2>5, <2>8, <3>1, <4>1, ReceiverAssumption
    <3> HIDE DEF e
    <3> QED BY <2>5, <3>1
  <2>10. b.totin <= n /\ n < b.totout + CAPACITY
    <3> HIDE DEF b, e
    <3> QED BY <1>1, <2>2, <2>5, <2>9, ReceiverAssumption
  <2>11. n < c.totin \/ n \in Covered(s.unassembledBuffer)
    <3>1. b = w.output /\ c = s.output
      BY DEF StreamOut
    <3> HIDE DEF b, c, w, s, n, new
    <3> QED BY <2>3, <2>4, <2>10, <3>1 DEF Pushed
  <2>12. ASSUME n \in Covered(s.unassembledBuffer)
         PROVE  x \in StoredSeqnos'
    <3>1. (Backed => Listed)'
      BY StoredIsListed, PTL
    <3>2. n + 1 \in StoredSeqnos'
      BY <1>1, <2>12, <3>1 DEF Listed
    <3> QED BY <2>2, <3>2
  <2>13. n < c.totin => x < AbsoluteAckno'
    <3> HIDE DEF c
    <3>1. AbsoluteAckno' \in Int
      BY <1>1, <2>6 DEF Accounted, c
    <3> QED BY <2>2, <2>7, <3>1
  <2> HIDE DEF n, c, s
  <2> QED BY <2>11, <2>12, <2>13
<1>2. ASSUME Backed, Backed'
      PROVE  Keeps
  <2>1. ASSUME NEW p \in SegmentParams, Legal(p[1], p[2], p[3], p[4]),
               Arrive(p[1], p[2], p[3], p[4]), rcv.syn, ~p[3],
               NEW x \in p[1] .. p[1] + p[2] - 1, AbsoluteAckno <= x, x < RightEdge
        PROVE  x < AbsoluteAckno' \/ x \in StoredSeqnos'
    BY <1>1, <1>2, <2>1, ParamsFacts
  <2> QED BY <2>1
<1>3. Backed /\ Backed' => [Keeps]_vars
  BY <1>2
<1> QED BY <1>3, BackedIsInvariant, PTL DEF KeepsWhatItAdvertised
=============================================================================
