---------------------------- MODULE BasicLemmas -----------------------------
(***************************************************************************)
(* What the proofs of all components rest on: induction over the steps of  *)
(* a loop, and facts about the operations of ByteStream and about wrap()   *)
(* and unwrap(), for every capacity, every set of bytes and every modulus. *)
(***************************************************************************)
EXTENDS ByteStreamOps, TCPSegment, SequenceTheorems, WellFoundedInduction, TLAPS

\* The bytes of s are those of the stream from index on.
FromStream(s, index) == \A j \in 1 .. Len(s) : s[j] = index + j - 1

\* The segment numbered a, in a stream with initial sequence number isn of which n bytes
\* are written, and which is ended when e is true.
Numbered(seg, a, isn, n, e) ==
    /\ seg.seqno = Wrap(a, isn)
    /\ seg.syn => a = 0
    /\ Len(seg.payload) > 0 \/ seg.fin =>
          a + Bit(seg.syn) >= 1 /\ a + Bit(seg.syn) + Len(seg.payload) <= n + 1
    /\ seg.fin => e /\ a + Bit(seg.syn) + Len(seg.payload) = n + 1
    /\ FromStream(seg.payload, a + Bit(seg.syn) - 1)

\* Induction over the natural numbers, for a set.
LEMMA NatSetInduction ==
    ASSUME NEW S, 0 \in S, \A n \in Nat : n \in S => n + 1 \in S
    PROVE  Nat \subseteq S
<1> DEFINE T == {n \in Nat : n \notin S}
           R == {ss \in Nat \X Nat : ss[1] < ss[2]}
<1>1. SUFFICES ASSUME T # {} PROVE FALSE
  OBVIOUS
<1>2. IsWellFoundedOn(R, Nat)
  BY NatLessThanWellFounded DEF OpToRel
<1>3. PICK x \in T : \A y \in T : ~(<<y, x>> \in R)
  <2>1. T \subseteq Nat
    OBVIOUS
  <2> HIDE DEF T, R
  <2> QED BY Zenon, <1>1, <1>2, <2>1, WFMin
<1>4. x \in Nat /\ x # 0
  OBVIOUS
<1>5. x - 1 \in Nat /\ x - 1 \in T
  BY <1>4
<1>6. <<x - 1, x>> \in R
  BY <1>4, <1>5
<1> QED BY <1>3, <1>5, <1>6

\* What holds before the first iteration and is preserved by each holds after all.
LEMMA LoopStays ==
    ASSUME NEW n \in Nat, NEW f, NEW P, f[0] \in P,
           \A k \in 1 .. n : f[k - 1] \in P => f[k] \in P
    PROVE  f[n] \in P
<1> DEFINE S == {k \in Nat : k <= n => f[k] \in P}
<1>1. 0 \in S
  OBVIOUS
<1>2. ASSUME NEW k \in Nat, k \in S PROVE k + 1 \in S
  <2>1. CASE k + 1 <= n
    <3>1. f[k] \in P /\ k + 1 \in 1 .. n /\ (k + 1) - 1 = k
      BY <1>2, <2>1
    <3> QED BY <2>1, <3>1
  <2> QED BY <2>1
<1>3. Nat \subseteq S
  <2> HIDE DEF S
  <2> QED BY <1>1, <1>2, NatSetInduction
<1> QED BY <1>3

\* The same when what each iteration preserves speaks of its number.
LEMMA LoopStaysIndexed ==
    ASSUME NEW n \in Nat, NEW f, NEW P, <<0, f[0]>> \in P,
           \A k \in 1 .. n : <<k - 1, f[k - 1]>> \in P => <<k, f[k]>> \in P
    PROVE  <<n, f[n]>> \in P
<1> DEFINE h == [k \in 0 .. n |-> <<k, f[k]>>]
<1>1. h[0] \in P /\ h[n] = <<n, f[n]>>
  OBVIOUS
<1>2. ASSUME NEW k \in 1 .. n, h[k - 1] \in P PROVE h[k] \in P
  BY <1>2
<1> HIDE DEF h
<1>3. h[n] \in P
  BY <1>1, <1>2, LoopStays
<1> QED BY <1>1, <1>3

\* f is the loop of n iterations of g that starts in s and stays in P.
IsLoop(f, P, g, s, n) ==
    /\ f \in [0 .. n -> P]
    /\ f[0] = s
    /\ \A k \in 1 .. n : f[k] = g[f[k - 1]]

\* A body that stays in P has a loop of every length.
LEMMA LoopExists ==
    ASSUME NEW P, NEW g \in [P -> P], NEW s \in P, NEW n \in Nat
    PROVE  \E f : IsLoop(f, P, g, s, n)
<1> DEFINE Run(f, m) == /\ f \in [0 .. m -> P] /\ f[0] = s
                        /\ \A k \in 1 .. m : f[k] = g[f[k - 1]]
           S == {m \in Nat : \E f : Run(f, m)}
<1>1. 0 \in S
  <2>1. Run([k \in 0 .. 0 |-> s], 0)
    OBVIOUS
  <2> QED BY Zenon, <2>1
<1>2. ASSUME NEW m \in Nat, m \in S PROVE m + 1 \in S
  <2>1. PICK f : Run(f, m)
    BY <1>2
  <2> DEFINE h == [k \in 0 .. m + 1 |-> IF k <= m THEN f[k] ELSE g[f[m]]]
  <2>2. f[m] \in P /\ g[f[m]] \in P
    BY <2>1
  <2>3. h \in [0 .. m + 1 -> P]
    BY <2>1, <2>2
  <2>4. h[0] = s
    BY <2>1
  <2>5. ASSUME NEW k \in 1 .. m + 1 PROVE h[k] = g[h[k - 1]]
    <3>1. CASE k <= m
      BY <2>1, <3>1
    <3>2. CASE k = m + 1
      BY <2>1, <3>2
    <3> QED BY <3>1, <3>2
  <2>6. Run(h, m + 1)
    BY Zenon, <2>3, <2>4, <2>5
  <2> HIDE DEF h, Run
  <2>7. \E e : Run(e, m + 1)
    BY <2>6
  <2> QED BY <2>7
<1>3. Nat \subseteq S
  <2> HIDE DEF S
  <2> QED BY <1>1, <1>2, NatSetInduction
<1> QED BY <1>3 DEF IsLoop

\* The same for a body that speaks of the number of the iteration.
IsIndexedLoop(f, P, g, s, n) ==
    /\ f \in [0 .. n -> P]
    /\ f[0] = s
    /\ \A k \in 1 .. n : f[k] = g[<<k, f[k - 1]>>]

\* Such a loop has a run.
LEMMA IndexedLoopExists ==
    ASSUME NEW P, NEW s \in P, NEW n \in Nat, NEW g \in [(1 .. n) \X P -> P]
    PROVE  \E f : IsIndexedLoop(f, P, g, s, n)
<1> DEFINE Run(f, m) == /\ f \in [0 .. m -> P] /\ f[0] = s
                        /\ \A k \in 1 .. m : f[k] = g[<<k, f[k - 1]>>]
           S == {m \in Nat : m <= n => \E f : Run(f, m)}
<1>1. 0 \in S
  <2>1. Run([k \in 0 .. 0 |-> s], 0)
    OBVIOUS
  <2> QED BY Zenon, <2>1
<1>2. ASSUME NEW m \in Nat, m \in S, m + 1 <= n PROVE m + 1 \in S
  <2>1. PICK f : Run(f, m)
    BY <1>2
  <2> DEFINE next == g[<<m + 1, f[m]>>]
             h == [k \in 0 .. m + 1 |-> IF k <= m THEN f[k] ELSE next]
  <2>2. f[m] \in P /\ next \in P
    BY <1>2, <2>1
  <2>3. h \in [0 .. m + 1 -> P]
    BY <2>1, <2>2
  <2>4. h[0] = s
    BY <2>1
  <2>5. ASSUME NEW k \in 1 .. m + 1 PROVE h[k] = g[<<k, h[k - 1]>>]
    <3>1. CASE k <= m
      BY <2>1, <3>1
    <3>2. CASE k = m + 1
      <4>1. h[k] = next /\ h[m] = f[m] /\ k - 1 = m
        BY <3>2
      <4> HIDE DEF h
      <4> QED BY <3>2, <4>1
    <3> QED BY <3>1, <3>2
  <2>6. Run(h, m + 1)
    BY Zenon, <2>3, <2>4, <2>5
  <2> HIDE DEF h, Run
  <2>7. \E e : Run(e, m + 1)
    BY <2>6
  <2> QED BY <2>7
<1>3. Nat \subseteq S
  <2>1. ASSUME NEW m \in Nat, m \in S PROVE m + 1 \in S
    <3>1. CASE m + 1 <= n
      <4> HIDE DEF S
      <4> QED BY <1>2, <2>1, <3>1
    <3>2. CASE ~(m + 1 <= n)
      BY <3>2
    <3> QED BY <3>1, <3>2
  <2> HIDE DEF S
  <2> QED BY <1>1, <2>1, NatSetInduction
<1> QED BY <1>3 DEF IsIndexedLoop
-----------------------------------------------------------------------------
\* The streams the operations are called on.
Bounded(S) == {b \in ByteStreamState(S) : Len(b.buff) <= b.capacity}

\* Reading and writing leave the capacity and the flags alone.
SameButBytes(c, b) == /\ c.capacity = b.capacity
                      /\ c.isInputEnd = b.isInputEnd
                      /\ c.error = b.error

\* peek_output(len) returns the first bytes of the buffer, at most len of them.
LEMMA PeekFacts ==
    ASSUME NEW S, NEW b \in Bounded(S), NEW len \in Nat
    PROVE  /\ PeekOutput(b, len) \in Seq(S)
           /\ Len(PeekOutput(b, len)) = Lesser(len, Len(b.buff))
           /\ Len(PeekOutput(b, len)) <= len
           /\ Len(PeekOutput(b, len)) <= Len(b.buff)
           /\ \A i \in 1 .. Len(PeekOutput(b, len)) : PeekOutput(b, len)[i] = b.buff[i]
<1> DEFINE n == Lesser(len, Len(b.buff))
<1>1. b.buff \in Seq(S) /\ Len(b.buff) \in Nat
  BY LenProperties DEF Bounded, ByteStreamState
<1>2. n \in Nat /\ n <= len /\ n <= Len(b.buff)
  BY <1>1 DEF Lesser
<1>3. \A i \in 1 .. n : b.buff[i] \in S
  BY <1>1, <1>2, ElementOfSeq
<1> HIDE DEF n
<1>4. /\ SubSeq(b.buff, 1, n) \in Seq(S)
      /\ Len(SubSeq(b.buff, 1, n)) = IF 1 <= n THEN n - 1 + 1 ELSE 0
      /\ \A i \in 1 .. n - 1 + 1 : SubSeq(b.buff, 1, n)[i] = b.buff[1 + i - 1]
  BY <1>2, <1>3, SubSeqProperties
<1>5. PeekOutput(b, len) = SubSeq(b.buff, 1, n)
  BY DEF PeekOutput, n
<1>6. Len(PeekOutput(b, len)) = n
  BY <1>2, <1>4, <1>5
<1>7. \A i \in 1 .. n : PeekOutput(b, len)[i] = b.buff[i]
  BY <1>1, <1>2, <1>4, <1>5
<1> QED BY <1>2, <1>4, <1>5, <1>6, <1>7 DEF n

\* pop_output(len) removes those bytes and counts them.
LEMMA PopFacts ==
    ASSUME NEW S, NEW b \in Bounded(S), NEW len \in Nat
    PROVE  /\ PopOutput(b, len) \in Bounded(S)
           /\ SameButBytes(PopOutput(b, len), b)
           /\ PopOutput(b, len).totin = b.totin
           /\ PopOutput(b, len).totout = b.totout + Lesser(len, Len(b.buff))
           /\ Len(PopOutput(b, len).buff) = Len(b.buff) - Lesser(len, Len(b.buff))
           /\ \A i \in 1 .. Len(PopOutput(b, len).buff) :
                 PopOutput(b, len).buff[i] = b.buff[i + Lesser(len, Len(b.buff))]
<1> DEFINE n == Lesser(len, Len(b.buff))
           m == Len(b.buff)
           rest == SubSeq(b.buff, n + 1, m)
<1>1. b \in ByteStreamState(S) /\ b.buff \in Seq(S) /\ m \in Nat /\ m <= b.capacity
  BY LenProperties DEF Bounded, ByteStreamState
<1>2. n \in Nat /\ n <= m
  BY <1>1 DEF Lesser
<1>3. \A i \in n + 1 .. m : b.buff[i] \in S
  BY <1>1, <1>2, ElementOfSeq
<1>4. PopOutput(b, len) = [b EXCEPT !.totout = b.totout + n, !.buff = rest]
  BY DEF PopOutput
<1> HIDE DEF n, m
<1>5. /\ rest \in Seq(S)
      /\ Len(rest) = IF n + 1 <= m THEN m - (n + 1) + 1 ELSE 0
      /\ \A i \in 1 .. m - (n + 1) + 1 : rest[i] = b.buff[n + 1 + i - 1]
  BY <1>1, <1>2, <1>3, SubSeqProperties
<1>6. Len(rest) = m - n
  BY <1>1, <1>2, <1>5
<1>7. \A i \in 1 .. m - n : rest[i] = b.buff[i + n]
  BY <1>1, <1>2, <1>5
<1> HIDE DEF rest
<1>8. /\ PopOutput(b, len).totout = b.totout + n /\ PopOutput(b, len).buff = rest
      /\ PopOutput(b, len).totin = b.totin /\ SameButBytes(PopOutput(b, len), b)
  BY <1>1, <1>4 DEF ByteStreamState, SameButBytes
<1>9. PopOutput(b, len) \in Bounded(S)
  <2>1. b.totout + n \in Nat /\ Len(rest) <= b.capacity
    BY <1>1, <1>2, <1>6 DEF ByteStreamState
  <2>2. PopOutput(b, len) \in ByteStreamState(S)
    BY Zenon, <1>1, <1>4, <1>5, <2>1 DEF ByteStreamState
  <2> QED BY <1>8, <2>1, <2>2 DEF Bounded, SameButBytes
<1> QED BY <1>6, <1>7, <1>8, <1>9 DEF n, m

\* read(len) removes what peek_output(len) returns.
LEMMA ReadFacts ==
    ASSUME NEW S, NEW b \in Bounded(S), NEW len \in Nat
    PROVE  StreamRead(b, len) = PopOutput(b, len)
<1>1. b.buff \in Seq(S) /\ Len(b.buff) \in Nat
  BY LenProperties DEF Bounded, ByteStreamState
<1>2. Len(PeekOutput(b, len)) = Lesser(len, Len(b.buff))
  BY PeekFacts
<1>3. Lesser(Lesser(len, Len(b.buff)), Len(b.buff)) = Lesser(len, Len(b.buff))
  BY <1>1 DEF Lesser
<1> QED BY <1>2, <1>3 DEF StreamRead, PopOutput

\* write() accepts the first bytes of data, as many as fit, and appends them.
LEMMA WriteFacts ==
    ASSUME NEW S, NEW b \in Bounded(S), NEW data \in Seq(S)
    PROVE  /\ Accepted(b, data) \in Seq(S)
           /\ StreamWrite(b, data) \in Bounded(S)
           /\ SameButBytes(StreamWrite(b, data), b)
           /\ StreamWrite(b, data).totout = b.totout
           /\ StreamWrite(b, data).totin = b.totin + Len(Accepted(b, data))
           /\ StreamWrite(b, data).buff = b.buff \o Accepted(b, data)
           /\ Len(StreamWrite(b, data).buff) = Len(b.buff) + Len(Accepted(b, data))
           /\ \A i \in 1 .. Len(Accepted(b, data)) : Accepted(b, data)[i] = data[i]
<1> DEFINE n == Lesser(Len(data), RemainingCapacity(b))
           acc == Accepted(b, data)
<1>1. /\ b \in ByteStreamState(S) /\ b.buff \in Seq(S) /\ Len(b.buff) \in Nat
      /\ b.capacity \in Nat /\ Len(b.buff) <= b.capacity /\ Len(data) \in Nat
  BY LenProperties DEF Bounded, ByteStreamState
<1>2. n \in Nat /\ n <= Len(data) /\ Len(b.buff) + n <= b.capacity
  BY <1>1 DEF Lesser, RemainingCapacity
<1>3. \A i \in 1 .. n : data[i] \in S
  BY <1>1, <1>2, ElementOfSeq
<1> HIDE DEF n
<1>4. /\ SubSeq(data, 1, n) \in Seq(S)
      /\ Len(SubSeq(data, 1, n)) = IF 1 <= n THEN n - 1 + 1 ELSE 0
      /\ \A i \in 1 .. n - 1 + 1 : SubSeq(data, 1, n)[i] = data[1 + i - 1]
  BY <1>2, <1>3, SubSeqProperties
<1>5. acc = SubSeq(data, 1, n)
  BY DEF Accepted, n
<1>6. acc \in Seq(S) /\ Len(acc) = n /\ \A i \in 1 .. n : acc[i] = data[i]
  BY <1>1, <1>2, <1>4, <1>5
<1>7. StreamWrite(b, data) = [b EXCEPT !.totin = b.totin + Len(acc), !.buff = b.buff \o acc]
  BY DEF StreamWrite
<1> HIDE DEF acc
<1>8. b.buff \o acc \in Seq(S) /\ Len(b.buff \o acc) = Len(b.buff) + Len(acc)
  BY Zenon, <1>1, <1>6, ConcatProperties
<1>9. /\ StreamWrite(b, data).totin = b.totin + Len(acc)
      /\ StreamWrite(b, data).buff = b.buff \o acc
      /\ StreamWrite(b, data).totout = b.totout /\ SameButBytes(StreamWrite(b, data), b)
  BY <1>1, <1>7 DEF ByteStreamState, SameButBytes
<1>10. StreamWrite(b, data) \in Bounded(S)
  <2>1. b.totin + Len(acc) \in Nat /\ Len(b.buff \o acc) <= b.capacity
    BY <1>1, <1>2, <1>6, <1>8 DEF ByteStreamState
  <2>2. StreamWrite(b, data) \in ByteStreamState(S)
    BY Zenon, <1>1, <1>7, <1>8, <2>1 DEF ByteStreamState
  <2> QED BY Zenon, <1>9, <2>1, <2>2 DEF Bounded, SameButBytes
<1> QED BY <1>6, <1>8, <1>9, <1>10 DEF acc
-----------------------------------------------------------------------------
\* Quotient and remainder.
LEMMA DivMod ==
    ASSUME NEW x \in Int
    PROVE  x = (M * (x \div M)) + (x % M) /\ x \div M \in Int /\ x % M \in 0 .. M - 1
BY MAssumption

\* The remainder is unique.
LEMMA ModUnique ==
    ASSUME NEW m \in Nat \ {0}, NEW q \in Int, NEW r \in 0 .. m - 1
    PROVE  ((m * q) + r) % m = r
OBVIOUS

\* Adding a multiple of the modulus changes nothing.
LEMMA ModPeriod ==
    ASSUME NEW x \in Int, NEW k \in Int
    PROVE  (x + (M * k)) % M = x % M
<1> DEFINE q == x \div M
           r == x % M
<1>1. x = (M * q) + r /\ q \in Int /\ r \in 0 .. M - 1
  BY DivMod
<1> HIDE DEF q, r
<1>2. x + (M * k) = (M * (q + k)) + r /\ q + k \in Int
  BY <1>1, MAssumption
<1>3. ((M * (q + k)) + r) % M = r
  <2>1. M \in Nat \ {0}
    BY MAssumption
  <2> QED BY <1>1, <1>2, <2>1, ModUnique
<1> QED BY <1>2, <1>3 DEF r

\* The difference of two remainders.
LEMMA ModDifference ==
    ASSUME NEW a \in Int, NEW b \in Int
    PROVE  ((a % M) - (b % M)) % M = (a - b) % M
<1> DEFINE qa == a \div M
           ra == a % M
           qb == b \div M
           rb == b % M
<1>1. a = (M * qa) + ra /\ qa \in Int /\ ra \in 0 .. M - 1
  BY DivMod
<1>2. b = (M * qb) + rb /\ qb \in Int /\ rb \in 0 .. M - 1
  BY DivMod
<1> HIDE DEF qa, ra, qb, rb
<1>3. /\ a - b = (ra - rb) + (M * (qa - qb))
      /\ ra - rb \in Int /\ qa - qb \in Int
  BY <1>1, <1>2, MAssumption
<1>4. ((ra - rb) + (M * (qa - qb))) % M = (ra - rb) % M
  BY <1>3, ModPeriod
<1> QED BY <1>3, <1>4 DEF ra, rb

\* wrap() yields a 32-bit value.
LEMMA WrapType ==
    ASSUME NEW n \in Nat, NEW isn \in WrappingInt32
    PROVE  Wrap(n, isn) \in WrappingInt32
<1>1. n + isn \in Int
  BY MAssumption DEF WrappingInt32
<1> QED BY <1>1, DivMod DEF Wrap, WrappingInt32

\* The signed difference of two wrapped numbers is their difference moved by a
\* multiple of the modulus into half the range around zero.
LEMMA DifferenceOfWrapped ==
    ASSUME NEW x \in Nat, NEW y \in Nat, NEW isn \in WrappingInt32
    PROVE  \E k \in Int :
              /\ Difference(Wrap(x, isn), Wrap(y, isn)) = (x - y) + (M * k)
              /\ 0 - (M \div 2) <= (x - y) + (M * k)
              /\ (x - y) + (M * k) < M \div 2
<1> DEFINE d == (x - y) % M
           q == (x - y) \div M
<1>1. isn \in Int /\ x + isn \in Int /\ y + isn \in Int /\ (x + isn) - (y + isn) = x - y
  BY MAssumption DEF WrappingInt32
<1>2. (Wrap(x, isn) - Wrap(y, isn)) % M = d
  BY <1>1, ModDifference DEF Wrap
<1>3. Difference(Wrap(x, isn), Wrap(y, isn)) = IF d < M \div 2 THEN d ELSE d - M
  BY <1>2 DEF Difference
<1>4. x - y = (M * q) + d /\ q \in Int /\ d \in 0 .. M - 1
  BY DivMod
<1> HIDE DEF d, q
<1>5. CASE d < M \div 2
  <2>1. d = (x - y) + (M * (0 - q)) /\ 0 - q \in Int
    BY <1>4, MAssumption
  <2>2. 0 - (M \div 2) <= d
    BY <1>4, MAssumption
  <2> QED BY <1>3, <1>5, <2>1, <2>2
<1>6. CASE ~(d < M \div 2)
  <2>1. d - M = (x - y) + (M * (0 - (q + 1))) /\ 0 - (q + 1) \in Int
    BY <1>4, MAssumption
  <2>2. 0 - (M \div 2) <= d - M /\ d - M < M \div 2
    BY <1>4, <1>6, MAssumption
  <2> QED BY <1>3, <1>6, <2>1, <2>2
<1> QED BY <1>5, <1>6

\* Less than half the range away from the checkpoint, unwrap() undoes wrap().
LEMMA UnwrapOfWrap ==
    ASSUME NEW x \in Nat, NEW c \in Nat, NEW isn \in WrappingInt32,
           x - c < M \div 2, c - x < M \div 2
    PROVE  Unwrap(Wrap(x, isn), isn, c) = x
<1> DEFINE D == Difference(Wrap(x, isn), Wrap(c, isn))
<1>1. PICK k \in Int : /\ D = (x - c) + (M * k)
                       /\ 0 - (M \div 2) <= (x - c) + (M * k)
                       /\ (x - c) + (M * k) < M \div 2
  BY DifferenceOfWrapped
<1>2. k = 0
  <2>1. M \div 2 \in Nat /\ M = 2 * (M \div 2) /\ M > 0
    BY MAssumption
  <2>2. M * k < M /\ 0 - M < M * k
    BY <1>1, <2>1
  <2>3. CASE k >= 1
    <3>1. M * k >= M
      BY <2>1, <2>3, MAssumption
    <3> QED BY <2>2, <3>1, MAssumption
  <2>4. CASE k <= 0 - 1
    <3>1. M * k <= 0 - M
      BY <2>1, <2>4, MAssumption
    <3> QED BY <2>2, <3>1, MAssumption
  <2> QED BY <2>3, <2>4
<1>3. D = x - c
  BY <1>1, <1>2, MAssumption
<1> HIDE DEF D
<1>4. Unwrap(Wrap(x, isn), isn, c) = IF c + D >= 0 THEN c + D ELSE (c + D) + M
  BY DEF Unwrap, D
<1> QED BY <1>3, <1>4

\* unwrap() yields a sequence number that wraps to n, whatever the checkpoint.
LEMMA UnwrapIsCongruent ==
    ASSUME NEW x \in Nat, NEW c \in Nat, NEW isn \in WrappingInt32
    PROVE  /\ Unwrap(Wrap(x, isn), isn, c) \in Nat
           /\ \E k \in Int : Unwrap(Wrap(x, isn), isn, c) = x + (M * k)
<1> DEFINE D == Difference(Wrap(x, isn), Wrap(c, isn))
<1>1. PICK k \in Int : /\ D = (x - c) + (M * k)
                       /\ 0 - (M \div 2) <= (x - c) + (M * k)
                       /\ (x - c) + (M * k) < M \div 2
  BY DifferenceOfWrapped
<1>2. D \in Int /\ 0 - (M \div 2) <= D /\ c + D = x + (M * k)
  BY <1>1, MAssumption
<1> HIDE DEF D
<1>3. Unwrap(Wrap(x, isn), isn, c) = IF c + D >= 0 THEN c + D ELSE (c + D) + M
  BY DEF Unwrap, D
<1>4. CASE c + D >= 0
  BY <1>2, <1>3, <1>4
<1>5. CASE c + D < 0
  <2>1. (c + D) + M = x + (M * (k + 1)) /\ k + 1 \in Int
    BY <1>2, MAssumption
  <2>2. (c + D) + M \in Nat
    BY <1>2, MAssumption
  <2> QED BY <1>2, <1>3, <1>5, <2>1, <2>2
<1> QED BY <1>2, <1>4, <1>5

\* Near zero unwrap() undoes wrap() for every number of the first turn: what falls below
\* zero is moved up.
LEMMA UnwrapFirstTurn ==
    ASSUME NEW x \in Nat, x < M, NEW c \in Nat, c <= M \div 2, NEW isn \in WrappingInt32
    PROVE  Unwrap(Wrap(x, isn), isn, c) = x
<1> DEFINE D == Difference(Wrap(x, isn), Wrap(c, isn))
           h == M \div 2
<1>1. PICK k \in Int : /\ D = (x - c) + (M * k)
                       /\ 0 - h <= (x - c) + (M * k) /\ (x - c) + (M * k) < h
  BY DifferenceOfWrapped
<1>2. M \in Nat /\ h \in Nat /\ M = 2 * h /\ h > 0
  BY MAssumption
<1>3. Unwrap(Wrap(x, isn), isn, c) = IF c + D >= 0 THEN c + D ELSE (c + D) + M
  BY DEF Unwrap
<1> HIDE DEF D, h
<1>4. k \in {0, 0 - 1}
  <2>1. CASE k >= 1
    <3>1. M * k >= M
      BY <1>2, <2>1
    <3> QED BY <1>1, <1>2, <3>1 DEF h
  <2>2. CASE k <= 0 - 2
    <3>1. M * k <= 0 - (2 * M)
      BY <1>2, <2>2
    <3> QED BY <1>1, <1>2, <3>1 DEF h
  <2> QED BY <2>1, <2>2
<1>5. CASE k = 0
  BY <1>1, <1>2, <1>3, <1>5
<1>6. CASE k = 0 - 1
  <2>1. D = (x - c) - M
    BY <1>1, <1>2, <1>6
  <2> QED BY <1>2, <1>3, <2>1
<1> QED BY <1>4, <1>5, <1>6

\* Every wire value is the sequence number of something.
LEMMA WireHasNumber ==
    ASSUME NEW wire \in WrappingInt32, NEW isn \in WrappingInt32
    PROVE  \E y \in Nat : y < M /\ wire = Wrap(y, isn)
<1>1. M \in Nat \ {0} /\ wire \in 0 .. M - 1 /\ isn \in 0 .. M - 1
  BY MAssumption DEF WrappingInt32
<1>2. CASE wire >= isn
  <2>1. wire - isn \in Nat /\ wire - isn < M /\ (wire - isn) + isn = (M * 0) + wire
    BY <1>1, <1>2
  <2>2. ((M * 0) + wire) % M = wire
    BY <1>1, ModUnique
  <2> QED BY <2>1, <2>2 DEF Wrap
<1>3. CASE wire < isn
  <2>1. /\ (wire - isn) + M \in Nat /\ (wire - isn) + M < M
        /\ ((wire - isn) + M) + isn = (M * 1) + wire
    BY <1>1, <1>3
  <2>2. ((M * 1) + wire) % M = wire
    BY <1>1, ModUnique
  <2> QED BY <2>1, <2>2 DEF Wrap
<1> QED BY <1>1, <1>2, <1>3

\* wrap() undoes unwrap(), whatever the checkpoint.
LEMMA WrapOfUnwrap ==
    ASSUME NEW wire \in WrappingInt32, NEW isn \in WrappingInt32, NEW c \in Nat
    PROVE  Wrap(Unwrap(wire, isn, c), isn) = wire
<1>1. PICK y \in Nat : y < M /\ wire = Wrap(y, isn)
  BY WireHasNumber
<1>2. PICK k \in Int : Unwrap(wire, isn, c) = y + (M * k)
  BY <1>1, UnwrapIsCongruent
<1>3. y + isn \in Int /\ (y + (M * k)) + isn = (y + isn) + (M * k)
  BY MAssumption DEF WrappingInt32
<1>4. ((y + isn) + (M * k)) % M = (y + isn) % M
  BY <1>3, ModPeriod
<1> QED BY <1>1, <1>2, <1>3, <1>4 DEF Wrap
=============================================================================
