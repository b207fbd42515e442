---------------------------- MODULE ProgramProofs ----------------------------
(***************************************************************************)
(* The programs around the TCP stack, for every value of their constants:  *)
(* the stream copy of StreamCopy and the programs of TCPApp.               *)
(***************************************************************************)
EXTENDS TCPApp, BasicLemmas

-----------------------------------------------------------------------------
(***************************************************************************)
(* One direction of the copy: a descriptor that is read, a stream, and the *)
(* descriptor the stream is written to.                                    *)
(***************************************************************************)
Fd == [data : Seq(Nat), shut : BOOLEAN, eof : BOOLEAN]

CopyStream == {b \in Bounded(Nat) : b.capacity = BUFFER_SIZE /\ b.error = FALSE}

\* The stream is ended when the input is at its end, and the output is shut down when
\* the stream is empty and ended.
Orderly(in, stream, out, done) ==
    /\ stream.isInputEnd => in.shut /\ in.data = <<>>
    /\ out.shut = done
    /\ done => StreamEof(stream)

\* The bytes from taken to given are on their way, in order; and the way ends in an
\* orderly manner, unless the connection is lost.
Carries(lost, in, stream, out, done, taken, given) ==
    /\ in \in Fd /\ out \in Fd /\ stream \in CopyStream /\ done \in BOOLEAN
    /\ taken \in Nat /\ given \in Nat /\ lost \in BOOLEAN
    /\ FromStream(out.data, taken)
    /\ FromStream(stream.buff, taken + Len(out.data))
    /\ FromStream(in.data, taken + Len(out.data) + Len(stream.buff))
    /\ taken + Len(out.data) + Len(stream.buff) + Len(in.data) = given
    /\ in.eof => stream.isInputEnd
    /\ lost \/ Orderly(in, stream, out, done)

\* The lengths in a direction.
LEMMA CarriedLengths ==
    ASSUME NEW in \in Fd, NEW stream \in CopyStream
    PROVE  /\ in.data \in Seq(Nat) /\ Len(in.data) \in Nat
           /\ stream.buff \in Seq(Nat) /\ Len(stream.buff) \in Nat
           /\ stream \in Bounded(Nat) /\ stream.isInputEnd \in BOOLEAN
           /\ RemainingCapacity(stream) \in Nat
           /\ (in.data = <<>> <=> Len(in.data) = 0)
           /\ stream.buff = <<>> <=> Len(stream.buff) = 0
<1>1. in.data \in Seq(Nat) /\ stream.buff \in Seq(Nat) /\ stream.isInputEnd \in BOOLEAN
      /\ stream \in Bounded(Nat) /\ Len(stream.buff) <= stream.capacity /\ stream.capacity \in Nat
  BY DEF Fd, CopyStream, Bounded, ByteStreamState
<1>2. Len(in.data) \in Nat /\ Len(stream.buff) \in Nat
  BY <1>1, LenProperties
<1>3. in.data = <<>> <=> Len(in.data) = 0
  BY <1>1, EmptySeq
<1>4. stream.buff = <<>> <=> Len(stream.buff) = 0
  BY <1>1, EmptySeq
<1>5. RemainingCapacity(stream) \in Nat
  BY <1>1, <1>2 DEF RemainingCapacity
<1> QED BY <1>1, <1>2, <1>3, <1>4, <1>5

\* A sequence cut in two.
LEMMA CutFacts ==
    ASSUME NEW s \in Seq(Nat), NEW n \in 0 .. Len(s), NEW k \in Nat, FromStream(s, k)
    PROVE  /\ SubSeq(s, 1, n) \in Seq(Nat) /\ Len(SubSeq(s, 1, n)) = n
           /\ FromStream(SubSeq(s, 1, n), k)
           /\ SubSeq(s, n + 1, Len(s)) \in Seq(Nat)
           /\ Len(SubSeq(s, n + 1, Len(s))) = Len(s) - n
           /\ FromStream(SubSeq(s, n + 1, Len(s)), k + n)
<1>1. Len(s) \in Nat /\ n \in Nat /\ n <= Len(s)
  BY LenProperties
<1>2. \A i \in 1 .. Len(s) : s[i] \in Nat /\ s[i] = k + i - 1
  BY ElementOfSeq DEF FromStream
<1> DEFINE m == Len(s)
           p == SubSeq(s, 1, n)
           q == SubSeq(s, n + 1, m)
<1> HIDE DEF m
<1>3. /\ p \in Seq(Nat) /\ Len(p) = IF 1 <= n THEN n - 1 + 1 ELSE 0
      /\ \A i \in 1 .. n - 1 + 1 : p[i] = s[1 + i - 1]
  BY <1>1, <1>2, SubSeqProperties DEF m
<1>4. /\ q \in Seq(Nat) /\ Len(q) = IF n + 1 <= m THEN m - (n + 1) + 1 ELSE 0
      /\ \A i \in 1 .. m - (n + 1) + 1 : q[i] = s[n + 1 + i - 1]
  BY <1>1, <1>2, SubSeqProperties DEF m
<1> HIDE DEF p, q
<1>5. Len(p) = n /\ Len(q) = m - n
  BY <1>1, <1>3, <1>4 DEF m
<1>6. FromStream(p, k)
  <2>1. ASSUME NEW i \in 1 .. n PROVE p[i] = k + i - 1
    <3>1. i \in 1 .. n - 1 + 1 /\ i \in 1 .. Len(s) /\ 1 + i - 1 = i
      BY <1>1
    <3>2. p[i] = s[i]
      BY <1>3, <3>1
    <3> QED BY <1>2, <3>1, <3>2
  <2> QED BY <1>5, <2>1 DEF FromStream
<1>7. FromStream(q, k + n)
  <2>1. ASSUME NEW i \in 1 .. m - n PROVE q[i] = (k + n) + i - 1
    <3>1. i \in 1 .. m - (n + 1) + 1 /\ n + i \in 1 .. Len(s) /\ n + 1 + i - 1 = n + i
      BY <1>1 DEF m
    <3>2. q[i] = s[n + i]
      BY <1>4, <3>1
    <3> QED BY <1>1, <1>2, <3>1, <3>2
  <2> QED BY <1>5, <2>1 DEF FromStream
<1> QED BY <1>3, <1>4, <1>5, <1>6, <1>7 DEF m, p, q

\* Two sequences joined.
LEMMA JoinFacts ==
    ASSUME NEW p \in Seq(Nat), NEW q \in Seq(Nat), NEW k \in Nat,
           FromStream(p, k), FromStream(q, k + Len(p))
    PROVE  /\ p \o q \in Seq(Nat) /\ Len(p \o q) = Len(p) + Len(q)
           /\ FromStream(p \o q, k)
<1>1. Len(p) \in Nat /\ Len(q) \in Nat
  BY LenProperties
<1>2. /\ p \o q \in Seq(Nat) /\ Len(p \o q) = Len(p) + Len(q)
      /\ \A i \in 1 .. Len(p) + Len(q) :
            (p \o q)[i] = IF i <= Len(p) THEN p[i] ELSE q[i - Len(p)]
  BY ConcatProperties
<1>3. ASSUME NEW i \in 1 .. Len(p) + Len(q) PROVE (p \o q)[i] = k + i - 1
  <2>1. CASE i <= Len(p)
    BY <1>1, <1>2, <2>1 DEF FromStream
  <2>2. CASE i > Len(p)
    <3>1. i - Len(p) \in 1 .. Len(q)
      BY <1>1, <2>2
    <3> QED BY <1>1, <1>2, <2>2, <3>1 DEF FromStream
  <2> QED BY <1>1, <2>1, <2>2
<1> QED BY <1>2, <1>3 DEF FromStream
\* A sum of naturals.
LEMMA NatSum == \A x \in Nat, a \in Nat : x + a \in Nat
OBVIOUS

\* Bytes moved from one place to the next: the total stays.
LEMMA MovedBytes ==
    \A x \in Nat, a \in Nat, b \in Nat : \A m \in 0 .. b :
        x + (a + m) + (b - m) = x + a + b /\ x + (a + m) = x + a + m
OBVIOUS

\* What a read leaves behind: the descriptor and the stream.
AfterRead(in, stream) ==
    LET limit == RemainingCapacity(stream)
        n == Lesser(limit, Len(in.data))
        eof == in.eof \/ (limit > 0 /\ n = 0)
        more == StreamWrite(stream, SubSeq(in.data, 1, n))
    IN  [in |-> [in EXCEPT !.data = SubSeq(@, n + 1, Len(@)), !.eof = eof],
         stream |-> IF eof THEN EndInput(more) ELSE more]

\* A write that fits is taken as a whole.
LEMMA WriteAllFacts ==
    ASSUME NEW b \in Bounded(Nat), NEW data \in Seq(Nat), Accepted(b, data) = data
    PROVE  /\ StreamWrite(b, data) \in Bounded(Nat) /\ SameButBytes(StreamWrite(b, data), b)
           /\ StreamWrite(b, data).buff = b.buff \o data
<1>1. /\ StreamWrite(b, data) \in Bounded(Nat) /\ SameButBytes(StreamWrite(b, data), b)
      /\ StreamWrite(b, data).buff = b.buff \o Accepted(b, data)
  BY Zenon, WriteFacts
<1> QED BY Zenon, <1>1

\* A read moves bytes into the stream; no bytes, and only at the end, end it.
LEMMA ReadCarries ==
    ASSUME NEW lost, NEW in, NEW stream, NEW out, NEW done, NEW taken, NEW given,
           Carries(lost, in, stream, out, done, taken, given),
           in.data # <<>> \/ in.shut, lost \/ ~stream.isInputEnd
    PROVE  LET a == AfterRead(in, stream)
           IN  /\ Carries(lost, a.in, a.stream, out, done, taken, given)
               /\ a.stream.isInputEnd => lost \/ a.in.eof
               /\ stream.isInputEnd => a.stream.isInputEnd
<1> DEFINE limit == RemainingCapacity(stream)
           n == Lesser(limit, Len(in.data))
           eof == in.eof \/ (limit > 0 /\ n = 0)
           data == SubSeq(in.data, 1, n)
           rest == SubSeq(in.data, n + 1, Len(in.data))
           more == StreamWrite(stream, data)
           k == taken + Len(out.data)
           st == IF eof THEN EndInput(more) ELSE more
           fd == [in EXCEPT !.data = rest, !.eof = eof]
<1>1. /\ in \in Fd /\ out \in Fd /\ stream \in CopyStream /\ done \in BOOLEAN /\ lost \in BOOLEAN
      /\ taken \in Nat /\ given \in Nat
      /\ ~lost => in.eof = FALSE /\ done = FALSE /\ out.shut = FALSE
  BY DEF Carries, Orderly, StreamEof, Fd
<1>2. /\ in.data \in Seq(Nat) /\ Len(in.data) \in Nat /\ (in.data = <<>> <=> Len(in.data) = 0)
      /\ stream.buff \in Seq(Nat) /\ Len(stream.buff) \in Nat /\ limit \in Nat
      /\ stream \in Bounded(Nat) /\ Len(out.data) \in Nat
  BY <1>1, CarriedLengths
<1>3. n \in 0 .. Len(in.data) /\ n <= limit /\ (limit > 0 /\ n = 0 => Len(in.data) = 0)
  BY <1>2 DEF Lesser
<1>4. /\ FromStream(out.data, taken) /\ FromStream(stream.buff, k)
      /\ FromStream(in.data, k + Len(stream.buff))
      /\ k + Len(stream.buff) + Len(in.data) = given
  BY Zenon DEF Carries
<1>l. taken \in Nat /\ Len(out.data) \in Nat /\ Len(stream.buff) \in Nat /\ Len(in.data) \in Nat
  BY <1>1, <1>2
<1>k. k \in Nat /\ k + Len(stream.buff) \in Nat
  BY <1>l
<1>5. AfterRead(in, stream) = [in |-> fd, stream |-> st]
  BY DEF AfterRead
<1> HIDE DEF n, limit, k
<1>6. /\ data \in Seq(Nat) /\ Len(data) = n /\ FromStream(data, k + Len(stream.buff))
      /\ rest \in Seq(Nat) /\ Len(rest) = Len(in.data) - n
      /\ FromStream(rest, (k + Len(stream.buff)) + n)
  BY Zenon, <1>2, <1>3, <1>4, <1>k, CutFacts
<1> HIDE DEF data, rest
<1>7. Accepted(stream, data) = data
  <2>1. Len(data) <= RemainingCapacity(stream)
    BY <1>3, <1>6 DEF limit
  <2>2. Lesser(Len(data), RemainingCapacity(stream)) = Len(data)
    BY <1>2, <1>6, <2>1 DEF Lesser, limit
  <2> QED BY <1>6, <2>2, SubSeqFull DEF Accepted
<1>v. stream \in Bounded(Nat) /\ data \in Seq(Nat)
  BY <1>2, <1>6
<1>w. more \in Bounded(Nat) /\ SameButBytes(more, stream) /\ more.buff = stream.buff \o data
  BY Zenon, <1>v, <1>7, WriteAllFacts
<1>8. /\ more \in Bounded(Nat) /\ more.buff = stream.buff \o data
      /\ more.capacity = stream.capacity /\ more.error = stream.error
      /\ more.isInputEnd = stream.isInputEnd
  BY <1>w DEF SameButBytes
<1>9. more.buff \in Seq(Nat) /\ Len(more.buff) = Len(stream.buff) + n /\ FromStream(more.buff, k)
  BY ZenonT(30), <1>2, <1>4, <1>k, <1>6, <1>8, JoinFacts
<1> HIDE DEF more
<1>10. /\ st \in CopyStream /\ st.buff = more.buff
       /\ st.isInputEnd <=> eof \/ stream.isInputEnd
  BY Zenon, <1>1, <1>8 DEF CopyStream, EndInput, Bounded, ByteStreamState
<1>11. eof \in BOOLEAN /\ (eof /\ ~lost => in.shut /\ Len(in.data) = 0 /\ n = 0)
  BY <1>1, <1>2, <1>3 DEF Fd
<1>12. fd \in Fd /\ fd.data = rest /\ fd.eof = eof /\ fd.shut = in.shut
  BY Zenon, <1>1, <1>6, <1>11 DEF Fd
<1>13. rest = <<>> <=> Len(rest) = 0
  BY <1>6, EmptySeq
<1> HIDE DEF fd, st, eof
<1>14. Carries(lost, fd, st, out, done, taken, given)
  <2>1. /\ FromStream(st.buff, taken + Len(out.data))
        /\ FromStream(fd.data, taken + Len(out.data) + Len(st.buff))
        /\ taken + Len(out.data) + Len(st.buff) + Len(fd.data) = given
    <3>1. (k + Len(stream.buff)) + n = k + Len(st.buff)
      <4>1. Len(st.buff) = Len(stream.buff) + n
        BY <1>9, <1>10
      <4> QED BY <1>l, <1>3, <1>k, <4>1
    <3>2. k + Len(st.buff) + Len(fd.data) = given
      <4>1. Len(fd.data) = Len(in.data) - n /\ Len(st.buff) = Len(stream.buff) + n
        BY <1>6, <1>9, <1>10, <1>12
      <4>2. k + Len(stream.buff) + Len(in.data) = given
        BY <1>4
      <4>3. k + (Len(stream.buff) + n) + (Len(in.data) - n) = k + Len(stream.buff) + Len(in.data)
        <5> DEFINE lb == Len(stream.buff)
                   li == Len(in.data)
        <5>1. n \in 0 .. li /\ k \in Nat /\ lb \in Nat /\ li \in Nat
          BY <1>3, <1>k, <1>l
        <5> HIDE DEF lb, li
        <5>2. k + (lb + n) + (li - n) = k + lb + li
          BY <5>1
        <5> QED BY Zenon, <5>2 DEF lb, li
      <4> QED BY Zenon, <4>1, <4>2, <4>3
    <3> QED BY <1>6, <1>9, <1>10, <1>12, <3>1, <3>2 DEF k
  <2>2. ASSUME ~lost, st.isInputEnd PROVE fd.shut /\ fd.data = <<>>
    BY <1>2, <1>6, <1>10, <1>11, <1>12, <1>13, <2>2
  <2>3. lost \/ Orderly(fd, st, out, done)
    BY Zenon, <1>1, <2>2 DEF Orderly
  <2> QED BY Zenon, <1>1, <1>4, <1>10, <1>12, <2>1, <2>3 DEF Carries
<1>15. (st.isInputEnd => lost \/ fd.eof) /\ (stream.isInputEnd => st.isInputEnd)
  BY Zenon, <1>10, <1>12
<1> QED BY <1>5, <1>14, <1>15

\* What a write of n bytes leaves behind.
AfterWrite(stream, out, done, n) ==
    LET less == PopOutput(stream, n)
        ends == StreamEof(less)
    IN  [stream |-> less, done |-> done \/ ends,
         out |-> [out EXCEPT !.data = @ \o SubSeq(stream.buff, 1, n), !.shut = @ \/ ends]]

\* A write moves bytes out of the stream; the last one at the end shuts the output down.
LEMMA WriteCarries ==
    ASSUME NEW lost, NEW in, NEW stream, NEW out, NEW done, NEW taken, NEW given,
           Carries(lost, in, stream, out, done, taken, given),
           NEW n \in 0 .. Len(stream.buff)
    PROVE  LET a == AfterWrite(stream, out, done, n)
           IN  /\ Carries(lost, in, a.stream, a.out, a.done, taken, given)
               /\ a.stream.isInputEnd = stream.isInputEnd
               /\ out.shut => a.out.shut
<1> DEFINE less == PopOutput(stream, n)
           ends == StreamEof(less)
           data == SubSeq(stream.buff, 1, n)
           fd == [out EXCEPT !.data = out.data \o data, !.shut = out.shut \/ ends]
<1>1. /\ in \in Fd /\ out \in Fd /\ stream \in CopyStream /\ done \in BOOLEAN
      /\ taken \in Nat /\ given \in Nat /\ lost \in BOOLEAN
  BY DEF Carries
<1>2. /\ out.data \in Seq(Nat) /\ Len(out.data) \in Nat /\ stream.buff \in Seq(Nat)
      /\ Len(stream.buff) \in Nat /\ stream \in Bounded(Nat) /\ Len(in.data) \in Nat
  BY <1>1, CarriedLengths
<1>3. /\ FromStream(out.data, taken) /\ FromStream(stream.buff, taken + Len(out.data))
      /\ FromStream(in.data, taken + Len(out.data) + Len(stream.buff))
      /\ taken + Len(out.data) + Len(stream.buff) + Len(in.data) = given
      /\ in.eof => stream.isInputEnd
      /\ ~lost => /\ out.shut = done /\ (done => StreamEof(stream))
                  /\ stream.isInputEnd => in.shut /\ in.data = <<>>
  BY Zenon DEF Carries, Orderly
<1>k. taken + Len(out.data) \in Nat
  BY <1>1, <1>2
<1>4. /\ data \in Seq(Nat) /\ Len(data) = n /\ FromStream(data, taken + Len(out.data))
  BY Zenon, <1>2, <1>3, <1>k, CutFacts
<1>5. Lesser(n, Len(stream.buff)) = n /\ n \in Nat
  BY <1>2 DEF Lesser
<1>p. /\ Len(PopOutput(stream, n).buff) = Len(stream.buff) - Lesser(n, Len(stream.buff))
      /\ \A i \in 1 .. Len(PopOutput(stream, n).buff) :
            PopOutput(stream, n).buff[i] = stream.buff[i + Lesser(n, Len(stream.buff))]
  BY Zenon, <1>2, <1>5, PopFacts
<1>6. /\ less \in Bounded(Nat) /\ less.capacity = stream.capacity /\ less.error = stream.error
      /\ less.isInputEnd = stream.isInputEnd /\ less.buff \in Seq(Nat)
  BY <1>2, <1>5, PopFacts DEF SameButBytes, Bounded, ByteStreamState
<1>7. /\ Len(less.buff) = Len(stream.buff) - n
      /\ \A i \in 1 .. Len(less.buff) : less.buff[i] = stream.buff[i + n]
  BY <1>5, <1>p
<1>8. /\ out.data \o data \in Seq(Nat) /\ Len(out.data \o data) = Len(out.data) + n
      /\ FromStream(out.data \o data, taken)
  BY Zenon, <1>1, <1>2, <1>3, <1>4, JoinFacts
<1>9. FromStream(less.buff, taken + Len(out.data) + n)
  <2>1. ASSUME NEW i \in 1 .. Len(less.buff)
        PROVE  less.buff[i] = (taken + Len(out.data) + n) + i - 1
    <3>1. i + n \in 1 .. Len(stream.buff) /\ less.buff[i] = stream.buff[i + n]
      BY <1>2, <1>5, <1>7
    <3>2. stream.buff[i + n] = taken + Len(out.data) + (i + n) - 1
      BY <1>3, <3>1 DEF FromStream
    <3> DEFINE l == Len(out.data)
    <3>3. taken \in Nat /\ l \in Nat /\ n \in Nat /\ i \in Nat
      BY <1>1, <1>2, <1>5
    <3>4. less.buff[i] = taken + l + (i + n) - 1
      BY Zenon, <3>1, <3>2
    <3> HIDE DEF l
    <3>5. less.buff[i] = (taken + l + n) + i - 1
      BY <3>3, <3>4
    <3> QED BY Zenon, <3>5 DEF l
  <2> QED BY <2>1 DEF FromStream
<1>10. AfterWrite(stream, out, done, n) = [stream |-> less, done |-> done \/ ends, out |-> fd]
  BY DEF AfterWrite
<1> HIDE DEF less, data
<1>11. less \in CopyStream /\ ends \in BOOLEAN
  BY <1>1, <1>6 DEF CopyStream, StreamEof, Bounded, ByteStreamState
<1>12. ~lost /\ done => ends
  <2>1. ~lost /\ done => Len(stream.buff) = 0 /\ stream.isInputEnd
    BY <1>2, <1>3, EmptySeq DEF StreamEof
  <2>2. less.buff = <<>> <=> Len(less.buff) = 0
    BY <1>6, EmptySeq
  <2> QED BY <1>5, <1>6, <1>7, <2>1, <2>2 DEF StreamEof
<1> HIDE DEF ends
<1>13. fd \in Fd /\ fd.data = out.data \o data /\ fd.shut = (out.shut \/ ends)
  BY Zenon, <1>1, <1>8, <1>11 DEF Fd
<1> HIDE DEF fd
<1>14. Carries(lost, in, less, fd, done \/ ends, taken, given)
  <2>1. /\ FromStream(less.buff, taken + Len(fd.data))
        /\ FromStream(in.data, taken + Len(fd.data) + Len(less.buff))
        /\ taken + Len(fd.data) + Len(less.buff) + Len(in.data) = given
    <3>1. /\ taken + Len(fd.data) = taken + Len(out.data) + n
          /\ taken + Len(fd.data) + Len(less.buff) = taken + Len(out.data) + Len(stream.buff)
      <4>1. Len(fd.data) = Len(out.data) + n /\ Len(less.buff) = Len(stream.buff) - n
        BY <1>7, <1>8, <1>13
      <4>2. taken \in Nat /\ Len(out.data) \in Nat /\ Len(stream.buff) \in Nat
        BY <1>1, <1>2
      <4>3. taken + (Len(out.data) + n) + (Len(stream.buff) - n)
              = taken + Len(out.data) + Len(stream.buff)
        BY ZenonT(60), <4>2, MovedBytes
      <4>4. taken + (Len(out.data) + n) = taken + Len(out.data) + n
        BY ZenonT(60), <4>2, MovedBytes
      <4> QED BY Zenon, <4>1, <4>3, <4>4
    <3> QED BY <1>3, <1>9, <3>1
  <2>2. ~lost /\ (done \/ ends) => StreamEof(less)
    BY <1>12 DEF ends
  <2>3. lost \/ Orderly(in, less, fd, done \/ ends)
    BY Zenon, <1>3, <1>6, <1>13, <2>2 DEF Orderly
  <2>4. done \/ ends \in BOOLEAN
    BY <1>1, <1>11
  <2> QED BY Zenon, <1>1, <1>3, <1>6, <1>8, <1>11, <1>13, <2>1, <2>3, <2>4 DEF Carries
<1>15. /\ less.isInputEnd = stream.isInputEnd
       /\ out.shut => fd.shut
  BY Zenon, <1>6, <1>13
<1> QED BY <1>10, <1>14, <1>15
\* A byte given at the input is the next one.
LEMMA GiveCarries ==
    ASSUME NEW lost, NEW in, NEW stream, NEW out, NEW done, NEW taken, NEW given,
           Carries(lost, in, stream, out, done, taken, given), ~in.shut
    PROVE  Carries(lost, [in EXCEPT !.data = Append(in.data, given)], stream, out, done, taken, given + 1)
<1> DEFINE more == Append(in.data, given)
           k == taken + Len(out.data) + Len(stream.buff)
           fd == [in EXCEPT !.data = more]
<1>1. /\ in \in Fd /\ out \in Fd /\ stream \in CopyStream /\ taken \in Nat /\ given \in Nat
  BY DEF Carries
<1>2. /\ in.data \in Seq(Nat) /\ Len(in.data) \in Nat
      /\ Len(stream.buff) \in Nat /\ Len(out.data) \in Nat
  BY <1>1, CarriedLengths
<1>l. taken \in Nat /\ Len(out.data) \in Nat /\ Len(stream.buff) \in Nat
  BY <1>1, <1>2
<1>3. k \in Nat
  <2>1. taken + Len(out.data) \in Nat
    BY <1>l
  <2> QED BY Zenon, <1>l, <2>1, NatSum
<1>4. FromStream(in.data, k) /\ k + Len(in.data) = given
  BY Zenon DEF Carries
<1>5. /\ more \in Seq(Nat) /\ Len(more) = Len(in.data) + 1
      /\ \A i \in 1 .. Len(in.data) : more[i] = in.data[i]
      /\ more[Len(in.data) + 1] = given
  BY <1>1, <1>2, AppendProperties
<1> HIDE DEF more, k
<1>6. FromStream(more, k)
  <2>1. ASSUME NEW i \in 1 .. Len(more) PROVE more[i] = k + i - 1
    <3>1. CASE i = Len(in.data) + 1
      <4>1. k + (Len(in.data) + 1) - 1 = k + Len(in.data)
        BY <1>2, <1>3
      <4> QED BY <1>4, <1>5, <3>1, <4>1
    <3>2. CASE i # Len(in.data) + 1
      <4>1. i \in 1 .. Len(in.data)
        BY <1>2, <1>5, <3>2
      <4> QED BY <1>4, <1>5, <4>1 DEF FromStream
    <3> QED BY <3>1, <3>2
  <2> QED BY <2>1 DEF FromStream
<1>7. k + Len(more) = given + 1
  BY <1>2, <1>3, <1>4, <1>5
<1>8. fd \in Fd /\ fd.data = more /\ fd.eof = in.eof /\ fd.shut = in.shut
  BY Zenon, <1>1, <1>5 DEF Fd
<1> HIDE DEF fd
<1>9. lost \/ Orderly(fd, stream, out, done)
  BY <1>8 DEF Carries, Orderly
<1>10. given + 1 \in Nat
  BY <1>1
<1>11. Carries(lost, fd, stream, out, done, taken, given + 1)
  BY Zenon, <1>1, <1>6, <1>7, <1>8, <1>9, <1>10 DEF Carries, k
<1> QED BY <1>11 DEF fd, more

\* The end of the input is no byte.
LEMMA EndCarries ==
    ASSUME NEW lost, NEW in, NEW stream, NEW out, NEW done, NEW taken, NEW given,
           Carries(lost, in, stream, out, done, taken, given)
    PROVE  Carries(lost, [in EXCEPT !.shut = TRUE], stream, out, done, taken, given)
BY Zenon DEF Carries, Orderly, Fd

\* Bytes taken at the output are no longer on their way.
LEMMA TakeCarries ==
    ASSUME NEW lost, NEW in, NEW stream, NEW out, NEW done, NEW taken, NEW given,
           Carries(lost, in, stream, out, done, taken, given)
    PROVE  Carries(lost, in, stream, [out EXCEPT !.data = <<>>], done, taken + Len(out.data), given)
<1> DEFINE fd == [out EXCEPT !.data = <<>>]
<1>1. /\ in \in Fd /\ out \in Fd /\ stream \in CopyStream /\ taken \in Nat
  BY DEF Carries
<1>2. Len(stream.buff) \in Nat /\ Len(out.data) \in Nat /\ Len(in.data) \in Nat
  BY <1>1, CarriedLengths
<1>3. fd \in Fd /\ fd.data = <<>> /\ fd.shut = out.shut
  BY Zenon, <1>1, EmptySeq DEF Fd
<1> HIDE DEF fd
<1>4. Len(fd.data) = 0 /\ FromStream(fd.data, taken + Len(out.data))
  BY <1>3 DEF FromStream
<1>5. taken + Len(out.data) \in Nat /\ taken + Len(out.data) + Len(fd.data) = taken + Len(out.data)
  BY <1>1, <1>2, <1>4
<1>6. Carries(lost, in, stream, fd, done, taken + Len(out.data), given)
  BY Zenon, <1>1, <1>3, <1>4, <1>5 DEF Carries, Orderly
<1> QED BY <1>6 DEF fd

\* The end of a stream is said once.
LEMMA EndedTwice ==
    ASSUME NEW stream \in CopyStream
    PROVE  /\ EndInput(stream) \in CopyStream /\ EndInput(stream).buff = stream.buff
           /\ EndInput(stream).isInputEnd
           /\ stream.isInputEnd => EndInput(stream) = stream
BY Zenon DEF CopyStream, Bounded, ByteStreamState, EndInput

\* A cancelled rule ends the stream of an input that is at its end, or of a connection
\* that is lost.
LEMMA CancelCarries ==
    ASSUME NEW lost, NEW in, NEW stream, NEW out, NEW done, NEW taken, NEW given,
           Carries(lost, in, stream, out, done, taken, given),
           lost \/ (in.shut /\ in.data = <<>>)
    PROVE  /\ Carries(lost, in, EndInput(stream), out, done, taken, given)
           /\ EndInput(stream).isInputEnd
<1> DEFINE st == EndInput(stream)
<1>1. st \in CopyStream /\ st.buff = stream.buff /\ st.isInputEnd
  BY Zenon, EndedTwice DEF Carries
<1> HIDE DEF st
<1>2. lost \/ Orderly(in, st, out, done)
  BY <1>1 DEF Carries, Orderly, StreamEof
<1>3. Carries(lost, in, st, out, done, taken, given)
  BY Zenon, <1>1, <1>2 DEF Carries
<1> QED BY <1>1, <1>3 DEF st

\* The loss of the connection moves no byte.
LEMMA LostCarries ==
    ASSUME NEW lost, NEW in, NEW stream, NEW out, NEW done, NEW taken, NEW given,
           Carries(lost, in, stream, out, done, taken, given)
    PROVE  /\ Carries(TRUE, in, stream, out, done, taken, given)
           /\ Carries(TRUE, in, stream, [out EXCEPT !.shut = TRUE], done, taken, given)
BY Zenon DEF Carries, Fd
-----------------------------------------------------------------------------
(***************************************************************************)
(* The world of the callbacks, and what a callback makes of it.            *)
(***************************************************************************)
CopyWorlds ==
    [copy : [outbound : CopyStream, inbound : CopyStream, outbound_shutdown : BOOLEAN,
             inbound_shutdown : BOOLEAN, none : {FALSE}],
     fds : [{"stdin", "socketOut", "socketIn", "stdout"} -> Fd]]

OutboundWay(w, e) ==
    Carries(e.lost, w.fds.stdin, w.copy.outbound, w.fds.socketOut, w.copy.outbound_shutdown,
            e.taken, e.typed)

InboundWay(w, e) ==
    Carries(FALSE, w.fds.socketIn, w.copy.inbound, w.fds.stdout, w.copy.inbound_shutdown,
            e.shown, e.sent)

\* v is w but for one way.
SameOutbound(v, w) ==
    /\ v.fds.stdin = w.fds.stdin /\ v.copy.outbound = w.copy.outbound
    /\ v.fds.socketOut = w.fds.socketOut
    /\ v.copy.outbound_shutdown = w.copy.outbound_shutdown

SameInbound(v, w) ==
    /\ v.fds.socketIn = w.fds.socketIn /\ v.copy.inbound = w.copy.inbound
    /\ v.fds.stdout = w.fds.stdout
    /\ v.copy.inbound_shutdown = w.copy.inbound_shutdown

\* The names of the rules' descriptors, streams and flags.
LEMMA RuleNames ==
    /\ FdOf[1] = "stdin" /\ FdOf[2] = "socketOut" /\ FdOf[3] = "socketIn" /\ FdOf[4] = "stdout"
    /\ StreamOf[1] = "outbound" /\ StreamOf[2] = "outbound"
    /\ StreamOf[3] = "inbound" /\ StreamOf[4] = "inbound"
    /\ DoneFlag[2] = "outbound_shutdown" /\ DoneFlag[4] = "inbound_shutdown"
BY DEF FdOf, StreamOf, DoneFlag

\* A rule is cancelled by ending its stream.
LEMMA CancelOutbound ==
    ASSUME NEW w \in CopyWorlds, NEW r \in {1, 2},
           EndInput(w.copy.outbound) \in CopyStream
    PROVE  /\ CopyCancel(r, w) \in CopyWorlds
           /\ SameInbound(CopyCancel(r, w), w)
           /\ CopyCancel(r, w).fds = w.fds
           /\ CopyCancel(r, w).copy.outbound = EndInput(w.copy.outbound)
           /\ CopyCancel(r, w).copy.outbound_shutdown = w.copy.outbound_shutdown
           /\ EndInput(w.copy.outbound) = w.copy.outbound => CopyCancel(r, w) = w
<1> DEFINE c == [w.copy EXCEPT !.outbound = EndInput(w.copy.outbound)]
<1>1. CopyCancel(r, w) = [w EXCEPT !.copy = c]
  <2>1. StreamOf[r] = "outbound"
    BY RuleNames
  <2> QED BY <2>1 DEF CopyCancel, CopyWorlds
<1>2. /\ c \in [outbound : CopyStream, inbound : CopyStream, outbound_shutdown : BOOLEAN,
                inbound_shutdown : BOOLEAN, none : {FALSE}]
      /\ c.outbound = EndInput(w.copy.outbound) /\ c.inbound = w.copy.inbound
      /\ c.outbound_shutdown = w.copy.outbound_shutdown
      /\ c.inbound_shutdown = w.copy.inbound_shutdown
  BY Zenon DEF CopyWorlds
<1>3. EndInput(w.copy.outbound) = w.copy.outbound => c = w.copy
  BY DEF CopyWorlds
<1> HIDE DEF c
<1>4. [w EXCEPT !.copy = c] \in CopyWorlds /\ [w EXCEPT !.copy = c].copy = c
      /\ [w EXCEPT !.copy = c].fds = w.fds
  BY Zenon, <1>2 DEF CopyWorlds
<1>5. c = w.copy => [w EXCEPT !.copy = c] = w
  BY DEF CopyWorlds
<1> QED BY <1>1, <1>2, <1>3, <1>4, <1>5 DEF SameInbound

\* The rules of the inbound stream are cancelled only after it has ended: nothing changes.
LEMMA CancelInbound ==
    ASSUME NEW w \in CopyWorlds, NEW r \in {3, 4},
           EndInput(w.copy.inbound) = w.copy.inbound
    PROVE  CopyCancel(r, w) = w
<1> DEFINE c == [w.copy EXCEPT !.inbound = EndInput(w.copy.inbound)]
<1>1. CopyCancel(r, w) = [w EXCEPT !.copy = c]
  <2>1. StreamOf[r] = "inbound"
    BY RuleNames
  <2> QED BY <2>1 DEF CopyCancel, CopyWorlds
<1>2. c = w.copy
  BY DEF CopyWorlds
<1> HIDE DEF c
<1>3. [w EXCEPT !.copy = c] = w
  BY <1>2 DEF CopyWorlds
<1> QED BY <1>1, <1>3

\* A read from standard input.
LEMMA InputRead ==
    ASSUME NEW w \in CopyWorlds, w.fds.stdin.data # <<>> \/ w.fds.stdin.shut,
           AfterRead(w.fds.stdin, w.copy.outbound).in \in Fd,
           AfterRead(w.fds.stdin, w.copy.outbound).stream \in CopyStream
    PROVE  LET c == CopyCallback(1, w, 0)
               a == AfterRead(w.fds.stdin, w.copy.outbound)
           IN  /\ c.world \in CopyWorlds /\ c.serviced /\ ~c.thrown
               /\ SameInbound(c.world, w)
               /\ c.world.fds.stdin = a.in /\ c.world.copy.outbound = a.stream
               /\ c.world.fds.socketOut = w.fds.socketOut
               /\ c.world.copy.outbound_shutdown = w.copy.outbound_shutdown
<1> DEFINE a == AfterRead(w.fds.stdin, w.copy.outbound)
           v == [copy |-> [w.copy EXCEPT !.outbound = a.stream],
                 fds |-> [w.fds EXCEPT !.stdin = a.in]]
<1>1. CopyCallback(1, w, 0) = CopyServed(v)
  BY ZenonT(30), RuleNames
     DEF CopyCallback, CopyReads, FromInput, FromSocket, CopyIn, AfterRead, CopyWorlds
<1> HIDE DEF a
<1>2. /\ v \in CopyWorlds
      /\ SameInbound(v, w)
      /\ v.fds.stdin = a.in /\ v.copy.outbound = a.stream
      /\ v.fds.socketOut = w.fds.socketOut
      /\ v.copy.outbound_shutdown = w.copy.outbound_shutdown
  BY Zenon DEF CopyWorlds, SameInbound, a
<1> HIDE DEF v
<1> QED BY <1>1, <1>2 DEF CopyServed, a
\* A read from the socket.
LEMMA SocketRead ==
    ASSUME NEW w \in CopyWorlds, w.fds.socketIn.data # <<>> \/ w.fds.socketIn.shut,
           AfterRead(w.fds.socketIn, w.copy.inbound).in \in Fd,
           AfterRead(w.fds.socketIn, w.copy.inbound).stream \in CopyStream
    PROVE  LET c == CopyCallback(3, w, 0)
               a == AfterRead(w.fds.socketIn, w.copy.inbound)
           IN  /\ c.world \in CopyWorlds /\ c.serviced /\ ~c.thrown
               /\ SameOutbound(c.world, w)
               /\ c.world.fds.socketIn = a.in /\ c.world.copy.inbound = a.stream
               /\ c.world.fds.stdout = w.fds.stdout
               /\ c.world.copy.inbound_shutdown = w.copy.inbound_shutdown
<1> DEFINE a == AfterRead(w.fds.socketIn, w.copy.inbound)
           v == [copy |-> [w.copy EXCEPT !.inbound = a.stream],
                 fds |-> [w.fds EXCEPT !.socketIn = a.in]]
<1>1. CopyCallback(3, w, 0) = CopyServed(v)
  BY ZenonT(30), RuleNames
     DEF CopyCallback, CopyReads, FromInput, FromSocket, CopyIn, AfterRead, CopyWorlds
<1> HIDE DEF a
<1>2. /\ v \in CopyWorlds
      /\ SameOutbound(v, w)
      /\ v.fds.socketIn = a.in /\ v.copy.inbound = a.stream
      /\ v.fds.stdout = w.fds.stdout
      /\ v.copy.inbound_shutdown = w.copy.inbound_shutdown
  BY Zenon DEF CopyWorlds, SameOutbound, a
<1> HIDE DEF v
<1> QED BY <1>1, <1>2 DEF CopyServed, a

\* A write to the socket.
LEMMA SocketWritten ==
    ASSUME NEW w \in CopyWorlds, NEW n, ~(w.copy.outbound.buff # <<>> /\ w.fds.socketOut.shut),
           LET a == AfterWrite(w.copy.outbound, w.fds.socketOut, w.copy.outbound_shutdown, n)
           IN  a.stream \in CopyStream /\ a.out \in Fd /\ a.done \in BOOLEAN
    PROVE  LET c == CopyCallback(2, w, n)
               a == AfterWrite(w.copy.outbound, w.fds.socketOut, w.copy.outbound_shutdown, n)
           IN  /\ c.world \in CopyWorlds /\ c.serviced /\ ~c.thrown
               /\ SameInbound(c.world, w)
               /\ c.world.fds.socketOut = a.out /\ c.world.copy.outbound = a.stream
               /\ c.world.copy.outbound_shutdown = a.done
               /\ c.world.fds.stdin = w.fds.stdin
<1> DEFINE a == AfterWrite(w.copy.outbound, w.fds.socketOut, w.copy.outbound_shutdown, n)
           v == [copy |-> [w.copy EXCEPT !.outbound = a.stream, !.outbound_shutdown = a.done],
                 fds |-> [w.fds EXCEPT !.socketOut = a.out]]
<1>1. CopyCallback(2, w, n) = CopyServed(v)
  BY ZenonT(30), RuleNames
     DEF CopyCallback, CopyReads, FromInput, FromSocket, CopyOut, AfterWrite, CopyWorlds
<1>2. a.stream \in CopyStream /\ a.out \in Fd /\ a.done \in BOOLEAN
  OBVIOUS
<1> HIDE DEF a
<1>3. /\ v \in CopyWorlds
      /\ SameInbound(v, w)
      /\ v.fds.socketOut = a.out /\ v.copy.outbound = a.stream
      /\ v.copy.outbound_shutdown = a.done
      /\ v.fds.stdin = w.fds.stdin
  BY Zenon, <1>2 DEF CopyWorlds, SameInbound
<1> HIDE DEF v
<1> QED BY <1>1, <1>3 DEF CopyServed, a

\* A write to standard output.
LEMMA OutputWritten ==
    ASSUME NEW w \in CopyWorlds, NEW n, ~(w.copy.inbound.buff # <<>> /\ w.fds.stdout.shut),
           LET a == AfterWrite(w.copy.inbound, w.fds.stdout, w.copy.inbound_shutdown, n)
           IN  a.stream \in CopyStream /\ a.out \in Fd /\ a.done \in BOOLEAN
    PROVE  LET c == CopyCallback(4, w, n)
               a == AfterWrite(w.copy.inbound, w.fds.stdout, w.copy.inbound_shutdown, n)
           IN  /\ c.world \in CopyWorlds /\ c.serviced /\ ~c.thrown
               /\ SameOutbound(c.world, w)
               /\ c.world.fds.stdout = a.out /\ c.world.copy.inbound = a.stream
               /\ c.world.copy.inbound_shutdown = a.done
               /\ c.world.fds.socketIn = w.fds.socketIn
<1> DEFINE a == AfterWrite(w.copy.inbound, w.fds.stdout, w.copy.inbound_shutdown, n)
           v == [copy |-> [w.copy EXCEPT !.inbound = a.stream, !.inbound_shutdown = a.done],
                 fds |-> [w.fds EXCEPT !.stdout = a.out]]
<1>1. CopyCallback(4, w, n) = CopyServed(v)
  BY ZenonT(30), RuleNames
     DEF CopyCallback, CopyReads, FromInput, FromSocket, CopyOut, AfterWrite, CopyWorlds
<1>2. a.stream \in CopyStream /\ a.out \in Fd /\ a.done \in BOOLEAN
  OBVIOUS
<1> HIDE DEF a
<1>3. /\ v \in CopyWorlds
      /\ SameOutbound(v, w)
      /\ v.fds.stdout = a.out /\ v.copy.inbound = a.stream
      /\ v.copy.inbound_shutdown = a.done
      /\ v.fds.socketIn = w.fds.socketIn
  BY Zenon, <1>2 DEF CopyWorlds, SameOutbound
<1> HIDE DEF v
<1> QED BY <1>1, <1>3 DEF CopyServed, a
-----------------------------------------------------------------------------
(***************************************************************************)
(* wait_next_event() up to poll().                                         *)
(***************************************************************************)
\* Cancelling a rule that is gone changes nothing.
NothingToCancel(w) == \A r \in 1 .. 4 : CopyEvents!Gone(r, w) => CopyCancel(r, w) = w

\* The loop keeps the rules that are not gone, and asks the interested ones among them.
LEMMA AllAsked ==
    ASSUME NEW w, NothingToCancel(w), NEW rules \in SUBSET (1 .. 4)
    PROVE  LET left == {r \in rules : ~CopyEvents!Gone(r, w)}
           IN  CopyEvents!SetUp(rules, w)
                 = [world |-> w, rules |-> left, asked |-> {r \in left : CopyInterest(r, w)}]
<1> DEFINE gone == {r \in 1 .. 4 : CopyEvents!Gone(r, w)}
           keen == {r \in 1 .. 4 : CopyInterest(r, w)}
           Left(n) == {r \in rules : r <= n => r \notin gone}
           Asked(n) == {r \in rules : r <= n /\ r \notin gone /\ r \in keen}
           Acc(n) == [world |-> w, rules |-> Left(n), asked |-> Asked(n)]
<1>0. \A r \in 1 .. 4 : (r \in gone <=> CopyEvents!Gone(r, w)) /\ (r \in keen <=> CopyInterest(r, w))
  OBVIOUS
<1> HIDE DEF gone, keen
<1>1. ASSUME NEW n \in 0 .. 3
      PROVE  CopyEvents!AskRule(Acc(n), n + 1) = Acc(n + 1)
  <2> DEFINE q == n + 1
  <2>1. q \in 1 .. 4 /\ \A r \in 1 .. 4 : r <= n + 1 <=> r <= n \/ r = q
    OBVIOUS
  <2>2. Left(n) \in SUBSET (1 .. 4)
    BY Zenon
  <2> HIDE DEF q
  <2>3. CopyEvents!AskRule(Acc(n), q)
          = [world |-> w, rules |-> Left(n) \ {x \in {q} : CopyEvents!Gone(x, w)},
             asked |-> Asked(n) \cup {x \in {q} : x \in Left(n) /\ ~CopyEvents!Gone(x, w)
                                                  /\ CopyInterest(x, w)}]
    <3> HIDE DEF Left, Asked
    <3> QED BY Zenon, <2>1, <2>2 DEF CopyEvents!AskRule, NothingToCancel
  <2>4. Left(n) \ {x \in {q} : CopyEvents!Gone(x, w)} = Left(n + 1)
    BY Zenon, <1>0, <2>1
  <2>5. Asked(n) \cup {x \in {q} : x \in Left(n) /\ ~CopyEvents!Gone(x, w) /\ CopyInterest(x, w)}
          = Asked(n + 1)
    BY Zenon, <1>0, <2>1
  <2> HIDE DEF Left, Asked
  <2>6. CopyEvents!AskRule(Acc(n), q) = Acc(n + 1)
    BY <2>3, <2>4, <2>5
  <2> QED BY <2>6 DEF q
<1>2. Acc(0) = [world |-> w, rules |-> rules, asked |-> {}]
  <2>1. \A r \in rules : ~(r <= 0)
    OBVIOUS
  <2>2. Left(0) = rules /\ Asked(0) = {}
    BY Zenon, <2>1
  <2> QED BY <2>2
<1>3. Acc(4) = [world |-> w, rules |-> {r \in rules : ~CopyEvents!Gone(r, w)},
                asked |-> {r \in {q \in rules : ~CopyEvents!Gone(q, w)} : CopyInterest(r, w)}]
  <2>1. \A r \in rules : r <= 4 /\ r \in 1 .. 4
    OBVIOUS
  <2>2. Left(4) = {r \in rules : ~CopyEvents!Gone(r, w)}
    BY Zenon, <1>0, <2>1
  <2>3. Asked(4) = {r \in {q \in rules : ~CopyEvents!Gone(q, w)} : CopyInterest(r, w)}
    BY Zenon, <1>0, <2>1
  <2> QED BY <2>2, <2>3
<1> HIDE DEF Acc
<1>4. /\ CopyEvents!AskRule(Acc(0), 1) = Acc(1) /\ CopyEvents!AskRule(Acc(1), 2) = Acc(2)
      /\ CopyEvents!AskRule(Acc(2), 3) = Acc(3) /\ CopyEvents!AskRule(Acc(3), 4) = Acc(4)
  <2>1. /\ CopyEvents!AskRule(Acc(0), 0 + 1) = Acc(0 + 1)
        /\ CopyEvents!AskRule(Acc(1), 1 + 1) = Acc(1 + 1)
        /\ CopyEvents!AskRule(Acc(2), 2 + 1) = Acc(2 + 1)
        /\ CopyEvents!AskRule(Acc(3), 3 + 1) = Acc(3 + 1)
    BY <1>1
  <2>2. 0 + 1 = 1 /\ 1 + 1 = 2 /\ 2 + 1 = 3 /\ 3 + 1 = 4
    OBVIOUS
  <2> QED BY <2>1, <2>2
<1> QED BY <1>2, <1>3, <1>4 DEF CopyEvents!SetUp

\* A way that is over is the end of its input, of its stream and of its output: ending
\* its stream again changes nothing.
LEMMA NothingCancelled ==
    ASSUME NEW w \in CopyWorlds, NEW e, OutboundWay(w, e), InboundWay(w, e)
    PROVE  NothingToCancel(w)
<1>1. CASE ~(w.fds.stdin.eof \/ w.fds.socketIn.eof \/ w.fds.stdout.shut)
  <2>1. \A r \in 1 .. 4 : ~CopyEvents!Gone(r, w)
    BY <1>1, RuleNames
       DEF CopyEvents!Gone, CopyReads, CopyEof, CopyClosed, FromInput, FromSocket,
         ToOutput
  <2> QED BY <2>1 DEF NothingToCancel
<1>2. w.fds.stdin.eof => CopyCancel(1, w) = w
  <2>1. SUFFICES ASSUME w.fds.stdin.eof PROVE CopyCancel(1, w) = w
    OBVIOUS
  <2>2. w.copy.outbound.isInputEnd
    BY <2>1 DEF OutboundWay, Carries
  <2>3. EndInput(w.copy.outbound) = w.copy.outbound
    BY Zenon, <2>2, EndedTwice DEF CopyWorlds
  <2>4. EndInput(w.copy.outbound) \in CopyStream
    BY <2>3 DEF CopyWorlds
  <2> QED BY <2>3, <2>4, CancelOutbound
<1>3. w.fds.socketIn.eof \/ w.fds.stdout.shut => CopyCancel(3, w) = w /\ CopyCancel(4, w) = w
  <2>1. SUFFICES ASSUME w.fds.socketIn.eof \/ w.fds.stdout.shut
                 PROVE  CopyCancel(3, w) = w /\ CopyCancel(4, w) = w
    OBVIOUS
  <2>2. w.copy.inbound.isInputEnd
    BY <2>1 DEF InboundWay, Carries, Orderly, StreamEof
  <2>3. EndInput(w.copy.inbound) = w.copy.inbound
    BY Zenon, <2>2, EndedTwice DEF CopyWorlds
  <2> QED BY <2>3, CancelInbound
<1>4. ASSUME NEW r \in 1 .. 4, CopyEvents!Gone(r, w)
      PROVE  \/ r = 1 /\ w.fds.stdin.eof
             \/ r = 3 /\ w.fds.socketIn.eof
             \/ r = 4 /\ w.fds.stdout.shut
  BY <1>4, RuleNames DEF CopyEvents!Gone, CopyReads, CopyEof, CopyClosed, FromInput, FromSocket,
       ToOutput
<1> QED BY <1>2, <1>3, <1>4 DEF NothingToCancel
-----------------------------------------------------------------------------
(***************************************************************************)
(* The loop around the callbacks: which rules are left, which are to be    *)
(* called, and what that says about their ways.                            *)
(***************************************************************************)
Loops == [pc : {"wait", "serve", "returned", "thrown"}, rules : SUBSET (1 .. 4),
          todo : SUBSET (1 .. 4), hung : SUBSET (1 .. 4)]

\* r is the reading rule of a way, r + 1 its writing rule.
Watched(lost, r, loop, in, stream, out) ==
    /\ stream.isInputEnd /\ ~lost => r \notin loop.todo /\ (r \in loop.rules => in.eof)
    /\ r \notin loop.rules => stream.isInputEnd
    /\ r + 1 \notin loop.rules => out.shut
    /\ r \in loop.todo => in.data # <<>> \/ in.shut
    /\ r \in loop.hung => in.shut /\ in.data = <<>>

\* A hangup alone is that of standard input, or of a socket that is lost.
Reported(lost, loop) ==
    /\ loop.hung \subseteq {1, 2} /\ (2 \in loop.hung => lost)
    /\ loop.hung \subseteq loop.todo /\ loop.todo \subseteq loop.rules
    /\ loop.pc = "wait" => loop.todo = {}

Fine(w, e, loop) ==
    /\ w \in CopyWorlds /\ loop \in Loops
    /\ OutboundWay(w, e) /\ InboundWay(w, e)
    /\ Watched(e.lost, 1, loop, w.fds.stdin, w.copy.outbound, w.fds.socketOut)
    /\ Watched(FALSE, 3, loop, w.fds.socketIn, w.copy.inbound, w.fds.stdout)
    /\ w.copy.inbound.isInputEnd => w.fds.socketIn.eof
    /\ e.lost => w.fds.socketOut.shut \/ loop.pc = "thrown"
    /\ Reported(e.lost, loop)

\* The loop after rule r was called.
Called(r, loop, next, erased) ==
    /\ next \in Loops /\ (next.pc = "wait" => next.todo = {}) /\ loop.pc = "serve"
    /\ next.todo = loop.todo \ {r} /\ next.hung = loop.hung \ {r}
    /\ next.rules = IF erased THEN loop.rules \ {r} ELSE loop.rules

\* What was reported of the other rules stays.
LEMMA CalledReported ==
    ASSUME NEW lost, NEW r, NEW loop, NEW next, NEW erased \in BOOLEAN, Reported(lost, loop),
           Called(r, loop, next, erased)
    PROVE  Reported(lost, next) /\ next \in Loops
BY DEF Reported, Called

\* A read of standard input that poll() reported.
LEMMA InputCalled ==
    ASSUME NEW w, NEW e, NEW loop, NEW next, Fine(w, e, loop), 1 \in loop.todo,
           Called(1, loop, next, FALSE)
    PROVE  LET c == CopyCallback(1, w, 0) IN c.serviced /\ ~c.thrown /\ Fine(c.world, e, next)
<1> DEFINE a == AfterRead(w.fds.stdin, w.copy.outbound)
           v == CopyCallback(1, w, 0).world
<1>1. /\ w.fds.stdin.data # <<>> \/ w.fds.stdin.shut
      /\ e.lost \/ ~w.copy.outbound.isInputEnd
  BY DEF Fine, Watched
<1>2. /\ Carries(e.lost, a.in, a.stream, w.fds.socketOut, w.copy.outbound_shutdown, e.taken, e.typed)
      /\ a.stream.isInputEnd => e.lost \/ a.in.eof
  BY <1>1, ReadCarries DEF Fine, OutboundWay
<1> HIDE DEF a
<1>3. a.in \in Fd /\ a.stream \in CopyStream
  BY <1>2 DEF Carries
<1>4. /\ v \in CopyWorlds /\ CopyCallback(1, w, 0).serviced /\ ~CopyCallback(1, w, 0).thrown
      /\ SameInbound(v, w)
      /\ v.fds.stdin = a.in /\ v.copy.outbound = a.stream
      /\ v.fds.socketOut = w.fds.socketOut
      /\ v.copy.outbound_shutdown = w.copy.outbound_shutdown
  BY <1>1, <1>3, InputRead DEF Fine, a
<1> HIDE DEF v
<1>5. OutboundWay(v, e) /\ InboundWay(v, e)
  BY Zenon, <1>2, <1>4 DEF Fine, OutboundWay, InboundWay, SameInbound
<1>6. Watched(e.lost, 1, next, v.fds.stdin, v.copy.outbound, v.fds.socketOut)
  <2>1. /\ 1 \notin next.todo /\ 1 \notin next.hung /\ next.rules = loop.rules
        /\ 1 \in loop.rules
    BY DEF Called, Fine, Reported
  <2> QED BY <1>2, <1>4, <2>1 DEF Watched, Fine
<1>7. Watched(FALSE, 3, next, v.fds.socketIn, v.copy.inbound, v.fds.stdout)
  <2>1. /\ 3 \in next.todo => 3 \in loop.todo
        /\ 3 \in next.hung => 3 \in loop.hung
        /\ next.rules = loop.rules
    BY DEF Called
  <2> QED BY <1>4, <2>1 DEF Watched, Fine, SameInbound
<1>8. Reported(e.lost, next) /\ next \in Loops
  BY Zenon, CalledReported DEF Fine
<1>9. v.copy.inbound.isInputEnd => v.fds.socketIn.eof
  BY <1>4 DEF Fine, SameInbound
<1>s. e.lost => v.fds.socketOut.shut \/ next.pc = "thrown"
  BY <1>4 DEF Fine, Called, SameOutbound
<1>10. Fine(v, e, next)
  BY Zenon, <1>4, <1>5, <1>6, <1>7, <1>8, <1>9, <1>s DEF Fine
<1> QED BY <1>4, <1>10 DEF v

\* A hangup of standard input alone.
LEMMA InputHungUp ==
    ASSUME NEW w, NEW e, NEW loop, NEW next, Fine(w, e, loop), 1 \in loop.hung,
           Called(1, loop, next, TRUE)
    PROVE  Fine(CopyCancel(1, w), e, next)
<1> DEFINE v == CopyCancel(1, w)
           st == EndInput(w.copy.outbound)
<1>1. w.fds.stdin.shut /\ w.fds.stdin.data = <<>> /\ w \in CopyWorlds
  BY DEF Fine, Watched
<1>2. /\ Carries(e.lost, w.fds.stdin, st, w.fds.socketOut, w.copy.outbound_shutdown, e.taken, e.typed)
      /\ st.isInputEnd
  BY <1>1, CancelCarries DEF Fine, OutboundWay
<1>3. st \in CopyStream
  BY <1>2 DEF Carries
<1>4. /\ v \in CopyWorlds /\ SameInbound(v, w) /\ v.fds = w.fds
      /\ v.copy.outbound = st /\ v.copy.outbound_shutdown = w.copy.outbound_shutdown
  BY <1>1, <1>3, CancelOutbound
<1> HIDE DEF v, st
<1>5. OutboundWay(v, e) /\ InboundWay(v, e)
  BY Zenon, <1>2, <1>4 DEF Fine, OutboundWay, InboundWay, SameInbound
<1>6. Watched(e.lost, 1, next, v.fds.stdin, v.copy.outbound, v.fds.socketOut)
  <2>1. /\ 1 \notin next.todo /\ 1 \notin next.hung /\ 1 \notin next.rules
        /\ 1 + 1 \notin next.rules => 1 + 1 \notin loop.rules
    BY DEF Called, Fine
  <2> QED BY <1>2, <1>4, <2>1 DEF Watched, Fine
<1>7. Watched(FALSE, 3, next, v.fds.socketIn, v.copy.inbound, v.fds.stdout)
  <2>1. /\ 3 \in next.todo => 3 \in loop.todo
        /\ 3 \in next.hung => 3 \in loop.hung
        /\ 3 \in next.rules <=> 3 \in loop.rules
        /\ 3 + 1 \notin next.rules => 3 + 1 \notin loop.rules
    BY DEF Called
  <2> QED BY <1>4, <2>1 DEF Watched, Fine, SameInbound
<1>8. Reported(e.lost, next) /\ next \in Loops
  BY Zenon, CalledReported DEF Fine
<1>9. v.copy.inbound.isInputEnd => v.fds.socketIn.eof
  BY <1>4 DEF Fine, SameInbound
<1>s. e.lost => v.fds.socketOut.shut \/ next.pc = "thrown"
  BY <1>4 DEF Fine, Called, SameOutbound
<1>10. Fine(v, e, next)
  BY Zenon, <1>4, <1>5, <1>6, <1>7, <1>8, <1>9, <1>s DEF Fine
<1> QED BY <1>10 DEF v

\* A hangup of a socket that is lost, whose pair is full.
LEMMA SocketHungUp ==
    ASSUME NEW w, NEW e, NEW loop, NEW next, Fine(w, e, loop), 2 \in loop.hung,
           Called(2, loop, next, TRUE)
    PROVE  Fine(CopyCancel(2, w), e, next)
<1> DEFINE v == CopyCancel(2, w)
           st == EndInput(w.copy.outbound)
<1>1. e.lost /\ w.fds.socketOut.shut /\ w \in CopyWorlds
  BY DEF Fine, Reported, Called
<1>2. /\ Carries(e.lost, w.fds.stdin, st, w.fds.socketOut, w.copy.outbound_shutdown, e.taken, e.typed)
      /\ st.isInputEnd
  BY ZenonT(30), <1>1, CancelCarries DEF Fine, OutboundWay
<1>3. st \in CopyStream
  BY <1>2 DEF Carries
<1>4. /\ v \in CopyWorlds /\ SameInbound(v, w) /\ v.fds = w.fds
      /\ v.copy.outbound = st /\ v.copy.outbound_shutdown = w.copy.outbound_shutdown
  BY <1>1, <1>3, CancelOutbound
<1> HIDE DEF v, st
<1>5. OutboundWay(v, e) /\ InboundWay(v, e)
  BY ZenonT(30), <1>2, <1>4 DEF Fine, OutboundWay, InboundWay, SameInbound
<1>6. /\ \A q \in {1, 3} : (q \in next.todo => q \in loop.todo) /\ (q \in next.hung => q \in loop.hung)
      /\ \A q \in {1, 3, 4} : q \in next.rules <=> q \in loop.rules
  BY DEF Called
<1>7. Watched(e.lost, 1, next, v.fds.stdin, v.copy.outbound, v.fds.socketOut)
  BY Zenon, <1>1, <1>2, <1>4, <1>6 DEF Watched, Fine
<1>8. Watched(FALSE, 3, next, v.fds.socketIn, v.copy.inbound, v.fds.stdout)
  <2>1. 3 + 1 \notin next.rules => 3 + 1 \notin loop.rules
    BY <1>6
  <2> QED BY Zenon, <1>4, <1>6, <2>1 DEF Watched, Fine, SameInbound
<1>9. Reported(e.lost, next) /\ next \in Loops
  BY Zenon, CalledReported DEF Fine
<1>10. v.copy.inbound.isInputEnd => v.fds.socketIn.eof
  BY <1>4 DEF Fine, SameInbound
<1>11. Fine(v, e, next)
  BY ZenonT(30), <1>1, <1>4, <1>5, <1>7, <1>8, <1>9, <1>10 DEF Fine
<1> QED BY <1>11 DEF v

\* A write of bytes to a socket that is lost.
Refused(w, e) == e.lost /\ w.fds.socketOut.shut /\ w.copy.outbound.buff # <<>>

\* A write of bytes to a socket that is shut down throws, and changes nothing.
LEMMA SocketWriteRefused ==
    ASSUME NEW w, NEW e, NEW loop, NEW next, Fine(w, e, loop), NEW n,
           w.copy.outbound.buff # <<>>, w.fds.socketOut.shut, Called(2, loop, next, FALSE)
    PROVE  /\ CopyCallback(2, w, n) = CopyThrown(w)
           /\ Refused(w, e) /\ Fine(w, e, next)
<1>1. CopyCallback(2, w, n) = CopyThrown(w)
  BY Zenon, RuleNames DEF CopyCallback, CopyReads, FromInput, FromSocket, CopyOut
<1>2. Refused(w, e)
  BY Zenon DEF Refused, Fine, OutboundWay, Carries, Orderly, StreamEof
<1>3. /\ \A q \in {1, 3} : (q \in next.todo => q \in loop.todo) /\ (q \in next.hung => q \in loop.hung)
      /\ next.rules = loop.rules
  BY DEF Called
<1>4. /\ Watched(e.lost, 1, next, w.fds.stdin, w.copy.outbound, w.fds.socketOut)
      /\ Watched(FALSE, 3, next, w.fds.socketIn, w.copy.inbound, w.fds.stdout)
  BY <1>3 DEF Watched, Fine
<1>5. Reported(e.lost, next) /\ next \in Loops
  BY Zenon, CalledReported DEF Fine
<1>6. Fine(w, e, next)
  BY Zenon, <1>2, <1>4, <1>5 DEF Fine, Refused
<1> QED BY <1>1, <1>2, <1>6

\* A write to the socket.
LEMMA SocketWriteCalled ==
    ASSUME NEW w, NEW e, NEW loop, NEW next, Fine(w, e, loop), NEW n \in 0 .. Len(w.copy.outbound.buff),
           ~(w.copy.outbound.buff # <<>> /\ w.fds.socketOut.shut), Called(2, loop, next, FALSE)
    PROVE  LET c == CopyCallback(2, w, n) IN c.serviced /\ ~c.thrown /\ Fine(c.world, e, next)
<1> DEFINE a == AfterWrite(w.copy.outbound, w.fds.socketOut, w.copy.outbound_shutdown, n)
           v == CopyCallback(2, w, n).world
<1>1. Carries(e.lost, w.fds.stdin, w.copy.outbound, w.fds.socketOut, w.copy.outbound_shutdown,
              e.taken, e.typed)
  BY Zenon DEF Fine, OutboundWay
<1>2. /\ Carries(e.lost, w.fds.stdin, a.stream, a.out, a.done, e.taken, e.typed)
      /\ a.stream.isInputEnd = w.copy.outbound.isInputEnd
      /\ w.fds.socketOut.shut => a.out.shut
  BY <1>1, WriteCarries
<1>3. a.stream \in CopyStream /\ a.out \in Fd /\ a.done \in BOOLEAN
  BY Zenon, <1>2 DEF Carries
<1>4. /\ v \in CopyWorlds /\ CopyCallback(2, w, n).serviced /\ ~CopyCallback(2, w, n).thrown
      /\ SameInbound(v, w)
      /\ v.fds.socketOut = a.out /\ v.copy.outbound = a.stream
      /\ v.copy.outbound_shutdown = a.done /\ v.fds.stdin = w.fds.stdin
  BY Zenon, <1>3, SocketWritten DEF Fine
<1> HIDE DEF a, v
<1>5. OutboundWay(v, e) /\ InboundWay(v, e)
  BY ZenonT(30), <1>2, <1>4 DEF Fine, OutboundWay, InboundWay, SameInbound
<1>6. /\ \A q \in {1, 3} : (q \in next.todo => q \in loop.todo) /\ (q \in next.hung => q \in loop.hung)
      /\ next.rules = loop.rules
  BY DEF Called
<1>7. Watched(e.lost, 1, next, v.fds.stdin, v.copy.outbound, v.fds.socketOut)
  BY ZenonT(30), <1>2, <1>4, <1>6 DEF Watched, Fine
<1>8. Watched(FALSE, 3, next, v.fds.socketIn, v.copy.inbound, v.fds.stdout)
  BY Zenon, <1>4, <1>6 DEF Watched, Fine, SameInbound
<1>9. Reported(e.lost, next) /\ next \in Loops
  BY Zenon, CalledReported DEF Fine
<1>10. /\ v.copy.inbound.isInputEnd => v.fds.socketIn.eof
       /\ e.lost => v.fds.socketOut.shut \/ next.pc = "thrown"
  BY <1>2, <1>4 DEF Fine, SameInbound, Called
<1>11. Fine(v, e, next)
  BY Zenon, <1>4, <1>5, <1>7, <1>8, <1>9, <1>10 DEF Fine
<1> QED BY <1>4, <1>11 DEF v

\* A write to standard output.
LEMMA OutputWriteCalled ==
    ASSUME NEW w, NEW e, NEW loop, NEW next, Fine(w, e, loop), NEW n \in 0 .. Len(w.copy.inbound.buff),
           Called(4, loop, next, FALSE)
    PROVE  LET c == CopyCallback(4, w, n) IN c.serviced /\ ~c.thrown /\ Fine(c.world, e, next)
<1> DEFINE a == AfterWrite(w.copy.inbound, w.fds.stdout, w.copy.inbound_shutdown, n)
           v == CopyCallback(4, w, n).world
<1>c. Carries(FALSE, w.fds.socketIn, w.copy.inbound, w.fds.stdout, w.copy.inbound_shutdown,
              e.shown, e.sent)
  BY Zenon DEF Fine, InboundWay
<1>1. ~(w.copy.inbound.buff # <<>> /\ w.fds.stdout.shut)
  BY <1>c DEF Carries, Orderly, StreamEof
<1>2. /\ Carries(FALSE, w.fds.socketIn, a.stream, a.out, a.done, e.shown, e.sent)
      /\ a.stream.isInputEnd = w.copy.inbound.isInputEnd
      /\ w.fds.stdout.shut => a.out.shut
  BY <1>c, WriteCarries
<1>3. a.stream \in CopyStream /\ a.out \in Fd /\ a.done \in BOOLEAN
  BY ZenonT(30), <1>2 DEF Carries
<1>4. /\ v \in CopyWorlds /\ CopyCallback(4, w, n).serviced /\ ~CopyCallback(4, w, n).thrown
      /\ SameOutbound(v, w)
      /\ v.fds.stdout = a.out /\ v.copy.inbound = a.stream
      /\ v.copy.inbound_shutdown = a.done /\ v.fds.socketIn = w.fds.socketIn
  BY Zenon, <1>1, <1>3, OutputWritten DEF Fine
<1> HIDE DEF a, v
<1>5. OutboundWay(v, e) /\ InboundWay(v, e)
  BY Zenon, <1>2, <1>4 DEF Fine, OutboundWay, InboundWay, SameOutbound
<1>6. /\ \A q \in {1, 3} : (q \in next.todo => q \in loop.todo) /\ (q \in next.hung => q \in loop.hung)
      /\ next.rules = loop.rules
  BY DEF Called
<1>7. Watched(FALSE, 3, next, v.fds.socketIn, v.copy.inbound, v.fds.stdout)
  BY ZenonT(30), <1>2, <1>4, <1>6 DEF Watched, Fine
<1>8. Watched(e.lost, 1, next, v.fds.stdin, v.copy.outbound, v.fds.socketOut)
  BY <1>4, <1>6 DEF Watched, Fine, SameOutbound
<1>9. Reported(e.lost, next) /\ next \in Loops
  BY Zenon, CalledReported DEF Fine
<1>10. v.copy.inbound.isInputEnd => v.fds.socketIn.eof
  BY <1>2, <1>4 DEF Fine, SameOutbound
<1>s. e.lost => v.fds.socketOut.shut \/ next.pc = "thrown"
  BY <1>4 DEF Fine, Called, SameOutbound
<1>11. Fine(v, e, next)
  BY Zenon, <1>4, <1>5, <1>7, <1>8, <1>9, <1>10, <1>s DEF Fine
<1> QED BY <1>4, <1>11 DEF v

\* A read of the socket that poll() reported.
LEMMA SocketReadCalled ==
    ASSUME NEW w, NEW e, NEW loop, NEW next, Fine(w, e, loop), 3 \in loop.todo,
           Called(3, loop, next, FALSE)
    PROVE  LET c == CopyCallback(3, w, 0) IN c.serviced /\ ~c.thrown /\ Fine(c.world, e, next)
<1> DEFINE a == AfterRead(w.fds.socketIn, w.copy.inbound)
           v == CopyCallback(3, w, 0).world
<1>1. /\ w.fds.socketIn.data # <<>> \/ w.fds.socketIn.shut
      /\ ~w.copy.inbound.isInputEnd
  BY DEF Fine, Watched
<1>2. /\ Carries(FALSE, a.in, a.stream, w.fds.stdout, w.copy.inbound_shutdown, e.shown, e.sent)
      /\ a.stream.isInputEnd => a.in.eof
  BY ZenonT(30), <1>1, ReadCarries DEF Fine, InboundWay
<1> HIDE DEF a
<1>3. a.in \in Fd /\ a.stream \in CopyStream
  BY <1>2 DEF Carries
<1>4. /\ v \in CopyWorlds /\ CopyCallback(3, w, 0).serviced /\ ~CopyCallback(3, w, 0).thrown
      /\ SameOutbound(v, w)
      /\ v.fds.socketIn = a.in /\ v.copy.inbound = a.stream
      /\ v.fds.stdout = w.fds.stdout
      /\ v.copy.inbound_shutdown = w.copy.inbound_shutdown
  BY ZenonT(30), <1>1, <1>3, SocketRead DEF Fine, a
<1> HIDE DEF v
<1>5. OutboundWay(v, e) /\ InboundWay(v, e)
  BY ZenonT(30), <1>2, <1>4 DEF Fine, OutboundWay, InboundWay, SameOutbound
<1>6. Watched(FALSE, 3, next, v.fds.socketIn, v.copy.inbound, v.fds.stdout)
  <2>1. /\ 3 \notin next.todo /\ 3 \notin next.hung /\ next.rules = loop.rules
        /\ 3 \in loop.rules
    BY DEF Called, Fine, Reported
  <2> QED BY ZenonT(30), <1>2, <1>4, <2>1 DEF Watched, Fine
<1>7. Watched(e.lost, 1, next, v.fds.stdin, v.copy.outbound, v.fds.socketOut)
  <2>1. /\ 1 \in next.todo => 1 \in loop.todo
        /\ 1 \in next.hung => 1 \in loop.hung
        /\ next.rules = loop.rules
    BY DEF Called
  <2> QED BY <1>4, <2>1 DEF Watched, Fine, SameOutbound
<1>8. Reported(e.lost, next) /\ next \in Loops
  BY Zenon, CalledReported DEF Fine
<1>9. v.copy.inbound.isInputEnd => v.fds.socketIn.eof
  BY <1>2, <1>4
<1>s. e.lost => v.fds.socketOut.shut \/ next.pc = "thrown"
  BY <1>4 DEF Fine, Called, SameOutbound
<1>10. Fine(v, e, next)
  BY Zenon, <1>4, <1>5, <1>6, <1>7, <1>8, <1>9, <1>s DEF Fine
<1> QED BY <1>4, <1>10 DEF v
-----------------------------------------------------------------------------
(***************************************************************************)
(* The steps of the copy.                                                  *)
(***************************************************************************)
Envs == [pipe : BOOLEAN, typed : Nat, sent : Nat, taken : Nat, shown : Nat, signals : Nat,
         lost : BOOLEAN]

AllEnded ==
    /\ fds.socketIn.eof /\ \A f \in {"socketOut", "socketIn", "stdout"} : fds[f].shut
    /\ fds.stdin.shut \/ env.lost

\* The inductive invariant of the copy.
CopyInv == /\ Fine(CopyWorld, env, copyloop)
           /\ env \in Envs
           /\ copyloop.pc = "returned" /\ env.signals = 0 => AllEnded

\* The copy starts with nothing on its way.
LEMMA CopyInitInv ==
    ASSUME NEW pipe \in BOOLEAN, CopyInit(pipe)
    PROVE  CopyInv
<1> DEFINE new == NewByteStream(BUFFER_SIZE)
<1>1. /\ Descriptor \in Fd /\ Descriptor.data = <<>> /\ ~Descriptor.shut /\ ~Descriptor.eof
      /\ Len(Descriptor.data) = 0
  BY EmptySeq DEF Descriptor, Fd
<1>2. /\ new \in CopyStream /\ new.buff = <<>> /\ Len(new.buff) = 0 /\ ~new.isInputEnd
  BY CopyAssumption, EmptySeq DEF NewByteStream, CopyStream, Bounded, ByteStreamState
<1> HIDE DEF new
<1>3. Carries(FALSE, Descriptor, new, Descriptor, FALSE, 0, 0)
  BY <1>1, <1>2 DEF Carries, Orderly, FromStream
<1>4. /\ CopyWorld.copy.outbound = new /\ CopyWorld.copy.inbound = new
      /\ CopyWorld.copy.outbound_shutdown = FALSE /\ CopyWorld.copy.inbound_shutdown = FALSE
      /\ CopyWorld.fds.stdin = Descriptor /\ CopyWorld.fds.socketOut = Descriptor
      /\ CopyWorld.fds.socketIn = Descriptor /\ CopyWorld.fds.stdout = Descriptor
      /\ env.taken = 0 /\ env.typed = 0 /\ env.shown = 0 /\ env.sent = 0 /\ env.lost = FALSE
  BY DEF CopyInit, CopyWorld, new
<1>5. CopyWorld \in CopyWorlds
  BY <1>1, <1>2 DEF CopyInit, CopyWorld, CopyWorlds, new
<1>6. OutboundWay(CopyWorld, env) /\ InboundWay(CopyWorld, env)
  BY Zenon, <1>3, <1>4 DEF OutboundWay, InboundWay
<1>7. /\ copyloop \in Loops /\ copyloop.pc = "wait" /\ copyloop.rules = 1 .. 4
      /\ copyloop.todo = {} /\ copyloop.hung = {} /\ env \in Envs
  BY DEF CopyInit, Loops, Envs
<1>8. /\ Watched(FALSE, 1, copyloop, Descriptor, new, Descriptor)
      /\ Watched(FALSE, 3, copyloop, Descriptor, new, Descriptor)
  BY <1>1, <1>2, <1>7 DEF Watched
<1>r. Reported(env.lost, copyloop)
  BY <1>7 DEF Reported
<1>9. Fine(CopyWorld, env, copyloop)
  BY Zenon, <1>2, <1>4, <1>5, <1>6, <1>7, <1>8, <1>r DEF Fine
<1> QED BY <1>7, <1>9 DEF CopyInv

\* The descriptor of the rule is at its end, or closed.
Over == {r \in 1 .. 4 : \/ r = 1 /\ fds.stdin.eof
                        \/ r = 3 /\ fds.socketIn.eof
                        \/ r = 4 /\ fds.stdout.shut}

\* What wait_next_event() finds before poll(): its callbacks change nothing.
LEMMA AskedFacts ==
    ASSUME CopyInv
    PROVE  /\ CopyAsked.world = CopyWorld
           /\ CopyAsked.rules = copyloop.rules \ Over
           /\ CopyAsked.asked = {r \in copyloop.rules \ Over : CopyInterest(r, CopyWorld)}
<1> DEFINE left == {r \in copyloop.rules : ~CopyEvents!Gone(r, CopyWorld)}
<1>1. copyloop.rules \in SUBSET (1 .. 4)
  BY DEF CopyInv, Fine, Loops
<1>2. NothingToCancel(CopyWorld)
  BY NothingCancelled DEF CopyInv, Fine
<1>3. CopyAsked = [world |-> CopyWorld, rules |-> left,
                   asked |-> {r \in left : CopyInterest(r, CopyWorld)}]
  BY <1>1, <1>2, AllAsked DEF CopyAsked
<1>4. CopyWorld.fds = fds
  BY DEF CopyWorld
<1>5. ASSUME NEW r \in 1 .. 4 PROVE CopyEvents!Gone(r, CopyWorld) <=> r \in Over
  BY <1>4, RuleNames DEF CopyEvents!Gone, CopyReads, CopyEof, CopyClosed, FromInput, FromSocket,
       ToOutput, Over
<1>6. left = copyloop.rules \ Over
  BY <1>1, <1>5
<1> QED BY <1>3, <1>6
\* Which rules are interested.
LEMMA InterestFacts ==
    ASSUME CopyInv
    PROVE  /\ CopyInterest(1, CopyWorld) <=> RemainingCapacity(copy.outbound) > 0
           /\ CopyInterest(3, CopyWorld) <=> RemainingCapacity(copy.inbound) > 0
           /\ CopyInterest(2, CopyWorld)
                <=> copy.outbound.buff # <<>> \/ (copy.outbound.isInputEnd /\ ~copy.outbound_shutdown)
           /\ CopyInterest(4, CopyWorld)
                <=> copy.inbound.buff # <<>> \/ (copy.inbound.isInputEnd /\ ~fds.stdout.shut)
<1>1. CopyWorld.copy = copy /\ CopyWorld.fds = fds
  BY DEF CopyWorld
<1>2. /\ copy.outbound.error = FALSE /\ copy.inbound.error = FALSE
      /\ fds.stdout.shut = copy.inbound_shutdown
  BY Zenon, <1>1 DEF CopyInv, Fine, OutboundWay, InboundWay, Carries, Orderly, CopyStream
<1>3. CopyReads(1) /\ CopyReads(3) /\ ~CopyReads(2) /\ ~CopyReads(4)
  BY DEF CopyReads, FromInput, FromSocket
<1> QED BY <1>1, <1>2, <1>3, RuleNames DEF CopyInterest, StreamEof

\* No rule is interested in a way only when it is over.
LEMMA NobodyAsked ==
    ASSUME CopyInv, CopyAsked.asked = {}, copyloop.pc # "thrown"
    PROVE  AllEnded
<1> DEFINE left == copyloop.rules \ Over
<1>1. \A r \in left : ~CopyInterest(r, CopyWorld)
  BY AskedFacts
<1>2. CopyWorld.copy = copy /\ CopyWorld.fds = fds
  BY DEF CopyWorld
<1>3. /\ Carries(env.lost, fds.stdin, copy.outbound, fds.socketOut, copy.outbound_shutdown,
                 env.taken, env.typed)
      /\ Carries(FALSE, fds.socketIn, copy.inbound, fds.stdout, copy.inbound_shutdown,
                 env.shown, env.sent)
      /\ Watched(env.lost, 1, copyloop, fds.stdin, copy.outbound, fds.socketOut)
      /\ Watched(FALSE, 3, copyloop, fds.socketIn, copy.inbound, fds.stdout)
      /\ copyloop.rules \in SUBSET (1 .. 4)
      /\ copy.inbound.isInputEnd => fds.socketIn.eof
      /\ env.lost => fds.socketOut.shut
  BY Zenon, <1>2 DEF CopyInv, Fine, OutboundWay, InboundWay, Loops
<1>4. /\ 1 \notin left => copy.outbound.isInputEnd
      /\ 2 \notin left => fds.socketOut.shut
      /\ 3 \notin left => copy.inbound.isInputEnd
      /\ 4 \notin left => fds.stdout.shut
  <2>1. /\ 1 \notin copyloop.rules => copy.outbound.isInputEnd
        /\ 2 \notin copyloop.rules => fds.socketOut.shut
        /\ 3 \notin copyloop.rules => copy.inbound.isInputEnd
        /\ 4 \notin copyloop.rules => fds.stdout.shut
    BY <1>3 DEF Watched
  <2>2. /\ fds.stdin.eof => copy.outbound.isInputEnd
        /\ fds.socketIn.eof => copy.inbound.isInputEnd
    BY <1>3 DEF Carries
  <2> QED BY <2>1, <2>2 DEF Over
<1>5. /\ 1 \in left => ~(RemainingCapacity(copy.outbound) > 0)
      /\ 3 \in left => ~(RemainingCapacity(copy.inbound) > 0)
      /\ 2 \in left => copy.outbound.buff = <<>> /\ (copy.outbound.isInputEnd => copy.outbound_shutdown)
      /\ 4 \in left => copy.inbound.buff = <<>> /\ (copy.inbound.isInputEnd => fds.stdout.shut)
  BY <1>1, InterestFacts
<1>6. copy.outbound \in CopyStream /\ copy.inbound \in CopyStream
  BY <1>3 DEF Carries
<1>7. ASSUME NEW b \in CopyStream, b.buff = <<>> PROVE RemainingCapacity(b) > 0
  <2>1. b.capacity = BUFFER_SIZE
    BY DEF CopyStream
  <2> QED BY <1>7, <2>1, CopyAssumption DEF RemainingCapacity
<1>8. fds.socketIn.eof /\ fds.socketIn.shut /\ fds.stdout.shut
  <2>1. Orderly(fds.socketIn, copy.inbound, fds.stdout, copy.inbound_shutdown)
    BY <1>3 DEF Carries
  <2>2. copy.inbound.buff = <<>>
    BY <1>4, <1>5, <2>1 DEF Orderly, StreamEof
  <2>3. copy.inbound.isInputEnd
    BY <1>4, <1>5, <1>6, <1>7, <2>2
  <2> QED BY <1>3, <1>4, <1>5, <2>1, <2>3 DEF Orderly
<1>9. fds.socketOut.shut /\ (fds.stdin.shut \/ env.lost)
  <2>1. CASE env.lost
    BY <1>3, <2>1
  <2>2. CASE ~env.lost
    <3>1. Orderly(fds.stdin, copy.outbound, fds.socketOut, copy.outbound_shutdown)
      BY <1>3, <2>2 DEF Carries
    <3>2. copy.outbound.buff = <<>>
      BY <1>4, <1>5, <3>1 DEF Orderly, StreamEof
    <3>3. copy.outbound.isInputEnd
      BY <1>4, <1>5, <1>6, <1>7, <3>2
    <3> QED BY <1>4, <1>5, <3>1, <3>3 DEF Orderly
  <2> QED BY <2>1, <2>2
<1> QED BY <1>8, <1>9 DEF AllEnded

\* Nothing depends on where the loop is, but that nothing is to be called at poll(), nor
\* on the signals.
LEMMA FineElsewhere ==
    ASSUME NEW w, NEW e, NEW f, NEW loop, NEW pc \in {"serve", "returned", "thrown"},
           Fine(w, e, loop), loop.pc = "wait",
           f.taken = e.taken, f.typed = e.typed, f.shown = e.shown, f.sent = e.sent, f.lost = e.lost
    PROVE  Fine(w, f, [loop EXCEPT !.pc = pc])
<1> DEFINE next == [loop EXCEPT !.pc = pc]
<1>1. /\ next \in Loops /\ next.rules = loop.rules /\ next.todo = loop.todo
      /\ next.hung = loop.hung /\ next.pc = pc
  BY DEF Fine, Loops
<1> HIDE DEF next
<1>2. OutboundWay(w, f) /\ InboundWay(w, f)
  BY Zenon DEF Fine, OutboundWay, InboundWay
<1>3. Fine(w, f, next)
  BY ZenonT(30), <1>1, <1>2 DEF Fine, Watched, Reported
<1> QED BY <1>3 DEF next

\* The loop returns: no rule was asked for.
LEMMA CopyReturnsInv ==
    ASSUME CopyInv, CopyReturns
    PROVE  CopyInv'
<1>1. /\ copy' = copy /\ fds' = fds /\ env' = env
      /\ copyloop' = [copyloop EXCEPT !.pc = "returned"]
      /\ CopyAsked.asked = {} /\ copyloop.pc = "wait"
  BY AskedFacts DEF CopyReturns, CopyWorld
<1>2. CopyWorld' = CopyWorld
  BY <1>1 DEF CopyWorld
<1>3. Fine(CopyWorld, env, [copyloop EXCEPT !.pc = "returned"])
  BY Zenon, <1>1, FineElsewhere DEF CopyInv
<1>4. Fine(CopyWorld, env, copyloop)'
  BY <1>1, <1>2, <1>3
<1>5. AllEnded
  BY <1>1, NobodyAsked
<1> QED BY <1>1, <1>4, <1>5 DEF CopyInv, AllEnded

\* A signal ends the loop.
LEMMA CopyInterruptedInv ==
    ASSUME CopyInv, CopyInterrupted
    PROVE  CopyInv'
<1>1. /\ copy' = copy /\ fds' = fds /\ copyloop.pc = "wait"
      /\ env' = [env EXCEPT !.signals = @ + 1]
      /\ copyloop' = [copyloop EXCEPT !.pc = "returned"]
  BY AskedFacts DEF CopyInterrupted, CopyWorld
<1>2. CopyWorld' = CopyWorld
  BY <1>1 DEF CopyWorld
<1>3. /\ env' \in Envs /\ env'.signals # 0 /\ env'.lost = env.lost
      /\ env'.taken = env.taken /\ env'.typed = env.typed
      /\ env'.shown = env.shown /\ env'.sent = env.sent
  BY <1>1 DEF CopyInv, Envs
<1>4. Fine(CopyWorld, env', [copyloop EXCEPT !.pc = "returned"])
  BY Zenon, <1>1, <1>3, FineElsewhere DEF CopyInv
<1>5. Fine(CopyWorld, env, copyloop)'
  BY <1>1, <1>2, <1>4
<1> QED BY <1>3, <1>5 DEF CopyInv

\* poll() reports an error of the socket.
LEMMA SocketErrorInv ==
    ASSUME CopyInv, SocketError
    PROVE  CopyInv' /\ env'.lost
<1>1. /\ copy' = copy /\ fds' = fds /\ copyloop.pc = "wait"
      /\ env' = [env EXCEPT !.lost = TRUE]
      /\ copyloop' = [copyloop EXCEPT !.pc = "thrown"]
  BY AskedFacts DEF SocketError, CopyWorld
<1>2. CopyWorld' = CopyWorld
  BY <1>1 DEF CopyWorld
<1>3. /\ env' \in Envs /\ env'.lost = TRUE
      /\ env'.taken = env.taken /\ env'.typed = env.typed
      /\ env'.shown = env.shown /\ env'.sent = env.sent
  BY Zenon, <1>1 DEF CopyInv, Envs
<1>4. Fine(CopyWorld, env, [copyloop EXCEPT !.pc = "thrown"])
  BY Zenon, <1>1, FineElsewhere DEF CopyInv
<1>5. copyloop'.pc = "thrown"
  BY <1>1 DEF CopyInv, Fine, Loops
<1>6. OutboundWay(CopyWorld, env') /\ InboundWay(CopyWorld, env')
  BY Zenon, <1>3, LostCarries DEF CopyInv, Fine, OutboundWay, InboundWay
<1>7. Fine(CopyWorld, env', copyloop')
  BY <1>1, <1>3, <1>4, <1>5, <1>6 DEF Fine, Watched, Reported
<1>8. Fine(CopyWorld, env, copyloop)'
  BY <1>2, <1>7
<1> QED BY <1>3, <1>5, <1>8 DEF CopyInv

\* poll() reports rules; a hangup alone only that of standard input, or of a socket that
\* is lost.
LEMMA CopyPollsInv ==
    ASSUME CopyInv, CopyPolls
    PROVE  CopyInv'
<1> DEFINE asked == CopyAsked.asked
           ready == {r \in asked : CopyReady(r)}
           hung == {r \in asked \ ready : CopyHup(r)}
           next == [pc |-> "serve", rules |-> copyloop.rules \ Over, hung |-> hung,
                    todo |-> ready \cup hung]
<1>1. copy' = copy /\ fds' = fds /\ env' = env /\ copyloop' = next /\ copyloop.pc = "wait"
  <2>1. /\ copy' = CopyAsked.world.copy /\ fds' = fds /\ env' = env /\ copyloop.pc = "wait"
        /\ copyloop' = [pc |-> "serve", rules |-> CopyAsked.rules, hung |-> hung,
                        todo |-> ready \cup hung]
    BY DEF CopyPolls
  <2> HIDE DEF ready, hung, asked
  <2>2. CopyAsked.world.copy = copy /\ CopyAsked.rules = copyloop.rules \ Over
    BY AskedFacts DEF CopyWorld
  <2> QED BY <2>1, <2>2
<1>2. CopyWorld' = CopyWorld /\ CopyWorld.copy = copy /\ CopyWorld.fds = fds
  BY <1>1 DEF CopyWorld
<1>3. /\ Carries(env.lost, fds.stdin, copy.outbound, fds.socketOut, copy.outbound_shutdown, env.taken, env.typed)
      /\ Carries(FALSE, fds.socketIn, copy.inbound, fds.stdout, copy.inbound_shutdown, env.shown, env.sent)
      /\ Watched(env.lost, 1, copyloop, fds.stdin, copy.outbound, fds.socketOut)
      /\ Watched(FALSE, 3, copyloop, fds.socketIn, copy.inbound, fds.stdout)
      /\ copyloop.rules \in SUBSET (1 .. 4)
      /\ copy.inbound.isInputEnd => fds.socketIn.eof
      /\ env.lost => fds.socketOut.shut
  BY Zenon, <1>1, <1>2 DEF CopyInv, Fine, OutboundWay, InboundWay, Loops
<1>4. asked = {r \in copyloop.rules \ Over : CopyInterest(r, CopyWorld)}
  BY AskedFacts
<1> HIDE DEF asked
<1>5. ready \cup hung \subseteq copyloop.rules \ Over /\ ready \cup hung \subseteq 1 .. 4
  BY <1>3, <1>4
<1>6. ASSUME NEW r \in hung PROVE r = 1 \/ (r = 2 /\ env.lost)
  <2>1. r \in asked /\ ~CopyReady(r) /\ CopyHup(r) /\ r \in 1 .. 4
    BY <1>5
  <2>2. r # 4
    BY <2>1 DEF CopyHup, FromInput, ToSocket, FromSocket
  <2>3. r # 3
    <3>1. SUFFICES ASSUME r = 3 PROVE FALSE
      OBVIOUS
    <3>2. fds.socketIn.shut
      BY <2>1, <3>1 DEF CopyHup, FromInput
    <3> QED BY <2>1, <3>1, <3>2, RuleNames
               DEF CopyReady, CopyReads, FromInput, FromSocket, Readable
  <2>4. r = 2 => env.lost
    <3>1. SUFFICES ASSUME r = 2, ~env.lost PROVE FALSE
      OBVIOUS
    <3>2. fds.socketOut.shut
      BY <2>1, <3>1 DEF CopyHup, FromInput
    <3>3. copy.outbound.buff = <<>> /\ copy.outbound_shutdown
      BY Zenon, <1>3, <3>1, <3>2 DEF Carries, Orderly, StreamEof
    <3>4. CopyInterest(2, CopyWorld)
      BY <1>4, <2>1, <3>1
    <3> QED BY <3>3, <3>4, InterestFacts
  <2> QED BY <2>1, <2>2, <2>3, <2>4
<1>7. /\ 1 \in ready => fds.stdin.data # <<>> \/ fds.stdin.shut
      /\ 3 \in ready => fds.socketIn.data # <<>> \/ fds.socketIn.shut
      /\ 1 \in hung => fds.stdin.shut /\ fds.stdin.data = <<>>
  BY RuleNames DEF CopyReady, CopyReads, FromInput, FromSocket, ToSocket, Readable, CopyHup
<1> HIDE DEF ready, hung
<1>8. /\ next \in Loops /\ next.rules = copyloop.rules \ Over /\ next.pc = "serve"
      /\ next.todo = ready \cup hung /\ next.hung = hung
  BY <1>3, <1>5 DEF Loops
<1> HIDE DEF next
<1>9. Watched(env.lost, 1, next, fds.stdin, copy.outbound, fds.socketOut)
  <2>1. 1 \in Over <=> fds.stdin.eof
    BY DEF Over
  <2>2. 1 + 1 \notin Over
    BY DEF Over
  <2>3. fds.stdin.eof => copy.outbound.isInputEnd
    BY <1>3 DEF Carries
  <2> QED BY <1>3, <1>5, <1>7, <1>8, <2>1, <2>2, <2>3 DEF Watched
<1>10. Watched(FALSE, 3, next, fds.socketIn, copy.inbound, fds.stdout)
  <2>1. 3 \in Over <=> fds.socketIn.eof
    BY DEF Over
  <2>2. 3 + 1 \in Over <=> fds.stdout.shut
    BY DEF Over
  <2>3. fds.socketIn.eof => copy.inbound.isInputEnd
    BY <1>3 DEF Carries
  <2> QED BY <1>3, <1>5, <1>6, <1>7, <1>8, <2>1, <2>2, <2>3 DEF Watched
<1>11. Reported(env.lost, next)
  BY <1>5, <1>6, <1>8 DEF Reported
<1>12. Fine(CopyWorld, env, next)
  BY Zenon, <1>2, <1>3, <1>8, <1>9, <1>10, <1>11 DEF Fine, CopyInv
<1>13. Fine(CopyWorld, env, copyloop)'
  BY <1>1, <1>2, <1>12
<1>14. copyloop'.pc = "serve" /\ env' \in Envs
  BY <1>1, <1>8 DEF CopyInv
<1> QED BY <1>13, <1>14 DEF CopyInv

\* The bytes a write may take are in the stream.
LEMMA BytesTakenFacts ==
    ASSUME CopyInv
    PROVE  /\ BytesTaken(1) = {0} /\ BytesTaken(3) = {0}
           /\ BytesTaken(2) \subseteq 0 .. Len(copy.outbound.buff)
           /\ BytesTaken(4) \subseteq 0 .. Len(copy.inbound.buff)
<1>1. /\ fds.socketOut \in Fd /\ fds.stdout \in Fd
      /\ copy.outbound \in CopyStream /\ copy.inbound \in CopyStream
  BY Zenon DEF CopyInv, Fine, OutboundWay, InboundWay, Carries, CopyWorld
<1>2. /\ Len(copy.outbound.buff) \in Nat /\ Len(copy.inbound.buff) \in Nat
      /\ Len(fds.socketOut.data) \in Nat /\ Len(fds.stdout.data) \in Nat
  BY <1>1, CarriedLengths
<1>3. CopyReads(1) /\ CopyReads(3) /\ ~CopyReads(2) /\ ~CopyReads(4)
  BY DEF CopyReads, FromInput, FromSocket
<1>4. ASSUME NEW a \in Nat, NEW b \in Nat
      PROVE  LET offered == Lesser(MAX_COPY_LENGTH, a)
             IN  1 .. Lesser(offered, KERNEL_BUFFER - b) \subseteq 0 .. a
  BY CopyAssumption DEF Lesser
<1>5. BytesTaken(1) = {0} /\ BytesTaken(3) = {0}
  BY <1>3 DEF BytesTaken
<1>6. ASSUME NEW n \in BytesTaken(2) PROVE n \in 0 .. Len(copy.outbound.buff)
  BY SMTT(30), <1>2, <1>3, <1>4, RuleNames DEF BytesTaken, BufferSize
<1>7. ASSUME NEW n \in BytesTaken(4) PROVE n \in 0 .. Len(copy.inbound.buff)
  BY SMTT(30), <1>2, <1>3, <1>4, RuleNames DEF BytesTaken, BufferSize
<1> QED BY <1>5, <1>6, <1>7

\* A rule that was reported is called; it throws only for bytes that a lost socket
\* refuses.
LEMMA CopyServesInv ==
    ASSUME CopyInv, CopyServes
    PROVE  CopyInv' /\ (copyloop'.pc = "thrown" => Refused(CopyWorld, env)')
<1> DEFINE E(r, n) == CopyEvents!Serve(r, CopyWorld, r \notin copyloop.hung,
                                      CopyCallback(r, CopyWorld, n))
<1>1. /\ env' = env /\ copyloop.pc = "serve"
      /\ \E r \in copyloop.todo : \E n \in BytesTaken(r) : CopyCalled(r, E(r, n))
  BY Zenon DEF CopyServes
<1>2. PICK r \in copyloop.todo : \E n \in BytesTaken(r) : CopyCalled(r, E(r, n))
  BY Zenon, <1>1
<1>n. PICK n \in BytesTaken(r) : CopyCalled(r, E(r, n))
  BY Zenon, <1>2
<1> DEFINE c == CopyCallback(r, CopyWorld, n)
           e == CopyEvents!Serve(r, CopyWorld, r \notin copyloop.hung, c)
           pc(thrown) == IF thrown THEN "thrown" ELSE IF copyloop.todo = {r} THEN "wait" ELSE "serve"
           next(erased, thrown) ==
              [pc |-> pc(thrown), todo |-> copyloop.todo \ {r}, hung |-> copyloop.hung \ {r},
               rules |-> IF erased THEN copyloop.rules \ {r} ELSE copyloop.rules]
<1>3. copy' = e.world.copy /\ fds' = e.world.fds /\ copyloop' = next(e.erased, e.thrown)
  BY Zenon, <1>n DEF CopyCalled
<1>w. \A v \in CopyWorlds : copy' = v.copy /\ fds' = v.fds => CopyWorld' = v
  BY DEF CopyWorld, CopyWorlds
<1>4. /\ copyloop \in Loops /\ copyloop.hung \subseteq {1, 2}
      /\ copyloop.rules \in SUBSET (1 .. 4) /\ copyloop.todo \in SUBSET (1 .. 4)
      /\ copyloop.hung \in SUBSET (1 .. 4)
  BY DEF CopyInv, Fine, Reported, Loops
<1>5. \A erased \in BOOLEAN, thrown \in BOOLEAN :
         /\ Called(r, copyloop, next(erased, thrown), erased)
         /\ next(erased, thrown).pc # "returned"
         /\ next(erased, thrown).pc = "thrown" => thrown
  BY <1>1, <1>4 DEF Called, Loops
<1> HIDE DEF next, c
<1>6. CASE r \in copyloop.hung
  <2>1. r = 1 \/ r = 2
    BY <1>4, <1>6
  <2>2. e.world = CopyCancel(r, CopyWorld) /\ e.erased = TRUE /\ e.thrown = FALSE
    BY Zenon, <1>6 DEF CopyEvents!Serve
  <2> HIDE DEF e
  <2>3. Fine(CopyCancel(r, CopyWorld), env, next(TRUE, FALSE))
    BY Zenon, <1>5, <1>6, <2>1, InputHungUp, SocketHungUp DEF CopyInv
  <2>4. CopyWorld' = CopyCancel(r, CopyWorld) /\ copyloop' = next(TRUE, FALSE)
    BY Zenon, <1>3, <1>w, <2>2, <2>3 DEF Fine
  <2>5. /\ Fine(CopyWorld, env, copyloop)' /\ copyloop'.pc # "returned"
        /\ copyloop'.pc # "thrown"
    BY Zenon, <1>1, <1>5, <2>3, <2>4
  <2> QED BY Zenon, <1>1, <2>5 DEF CopyInv
<1>7. CASE r \notin copyloop.hung /\ r = 2 /\ copy.outbound.buff # <<>> /\ fds.socketOut.shut
  <2>1. CopyWorld.copy = copy /\ CopyWorld.fds = fds
    BY DEF CopyWorld
  <2>2. c = CopyThrown(CopyWorld) /\ Refused(CopyWorld, env) /\ Fine(CopyWorld, env, next(FALSE, TRUE))
    BY Zenon, <1>5, <1>7, <2>1, SocketWriteRefused DEF CopyInv, c
  <2>3. e.world = CopyWorld /\ e.erased = FALSE /\ e.thrown = TRUE
    BY ZenonT(30), <1>7, <2>2 DEF CopyEvents!Serve, CopyThrown
  <2> HIDE DEF e
  <2>4. CopyWorld' = CopyWorld /\ copyloop' = next(FALSE, TRUE)
    BY Zenon, <1>3, <1>w, <2>2, <2>3 DEF Fine
  <2>5. Fine(CopyWorld, env, copyloop)' /\ copyloop'.pc # "returned" /\ Refused(CopyWorld, env)'
    BY Zenon, <1>1, <1>5, <2>2, <2>4 DEF Refused
  <2> QED BY Zenon, <1>1, <2>5 DEF CopyInv
<1>8. CASE /\ r \notin copyloop.hung
           /\ r = 2 => ~(copy.outbound.buff # <<>> /\ fds.socketOut.shut)
  <2>1. /\ c.serviced /\ ~c.thrown /\ Fine(c.world, env, next(FALSE, FALSE))
    <3>1. CASE r = 1
      BY Zenon, <1>5, <3>1, BytesTakenFacts, InputCalled DEF CopyInv, c
    <3>2. CASE r = 2
      <4>1. CopyWorld.copy = copy /\ CopyWorld.fds = fds
        BY DEF CopyWorld
      <4> QED BY Zenon, <1>5, <1>8, <3>2, <4>1, BytesTakenFacts, SocketWriteCalled
                 DEF CopyInv, c
    <3>3. CASE r = 3
      BY Zenon, <1>5, <3>3, BytesTakenFacts, SocketReadCalled DEF CopyInv, c
    <3>4. CASE r = 4
      BY ZenonT(30), <1>5, <3>4, BytesTakenFacts, OutputWriteCalled DEF CopyInv, CopyWorld, c
    <3>5. r \in 1 .. 4
      BY <1>4
    <3>6. r = 1 \/ r = 2 \/ r = 3 \/ r = 4
      BY <3>5
    <3> QED BY Zenon, <3>1, <3>2, <3>3, <3>4, <3>6
  <2>2. e.world = c.world /\ e.erased = FALSE /\ e.thrown = FALSE
    BY ZenonT(30), <1>8, <2>1 DEF CopyEvents!Serve
  <2> HIDE DEF e
  <2>3. CopyWorld' = c.world /\ copyloop' = next(FALSE, FALSE)
    BY Zenon, <1>3, <1>w, <2>1, <2>2 DEF Fine
  <2>4. /\ Fine(CopyWorld, env, copyloop)' /\ copyloop'.pc # "returned"
        /\ copyloop'.pc # "thrown"
    BY Zenon, <1>1, <1>5, <2>1, <2>3
  <2> QED BY <1>1, <2>4 DEF CopyInv
<1> QED BY <1>6, <1>7, <1>8
-----------------------------------------------------------------------------
(***************************************************************************)
(* The steps of the other ends.                                            *)
(***************************************************************************)
\* A descriptor f that is given a byte or ended becomes g.
Passed(f, g) == /\ g.eof = f.eof /\ (f.shut => g.shut /\ g.data = f.data)
                /\ (f.data # <<>> => g.data # <<>>)

\* A descriptor f whose bytes are taken becomes g.
Drained(f, g) == g.eof = f.eof /\ g.shut = f.shut

\* Appending gives a sequence that is not empty.
LEMMA AppendNotEmpty == \A s \in Seq(Nat), x \in Nat : Append(s, x) # <<>>
<1> TAKE s \in Seq(Nat), x \in Nat
<1>1. Len(Append(s, x)) = Len(s) + 1 /\ Len(s) \in Nat
  BY AppendProperties, LenProperties
<1>2. Len(Append(s, x)) # 0
  BY <1>1
<1> QED BY <1>2

\* A byte on standard input.
LEMMA TypedInv ==
    ASSUME CopyInv, Gives("stdin", "typed", InputBytes)
    PROVE  CopyInv'
<1> DEFINE fd == [fds.stdin EXCEPT !.data = Append(fds.stdin.data, env.typed)]
<1>1. CopyWorld.copy = copy /\ CopyWorld.fds = fds /\ CopyWorld \in CopyWorlds /\ env \in Envs
  BY Zenon DEF CopyWorld, CopyInv, Fine
<1>2. Carries(env.lost, fds.stdin, copy.outbound, fds.socketOut, copy.outbound_shutdown,
              env.taken, env.typed)
  BY Zenon, <1>1 DEF CopyInv, Fine, OutboundWay
<1>3. /\ copy' = copy /\ copyloop' = copyloop /\ ~fds.stdin.shut
      /\ fds' = [fds EXCEPT !.stdin = fd]
      /\ env' = [env EXCEPT !.typed = env.typed + 1]
  BY Zenon, <1>1 DEF Gives, CopyWorlds
<1>4. Carries(env.lost, fd, copy.outbound, fds.socketOut, copy.outbound_shutdown,
              env.taken, env.typed + 1)
  BY <1>2, <1>3, GiveCarries
<1>5. fd \in Fd /\ fds.stdin \in Fd
  BY <1>2, <1>4 DEF Carries
<1>6. Passed(fds.stdin, fd)
  BY Zenon, <1>1, <1>3, <1>5, AppendNotEmpty DEF Passed, Fd, Envs
<1> HIDE DEF fd
<1>7. /\ fds' \in [{"stdin", "socketOut", "socketIn", "stdout"} -> Fd] /\ fds'.stdin = fd
      /\ fds'.socketOut = fds.socketOut /\ fds'.socketIn = fds.socketIn /\ fds'.stdout = fds.stdout
  BY <1>1, <1>3, <1>5 DEF CopyWorlds
<1>8. Len(fds.stdin.data) \in Nat
  BY <1>5, LenProperties DEF Fd
<1>9. /\ env' \in Envs /\ env'.signals = env.signals /\ env'.lost = env.lost
      /\ env'.typed = env.typed + 1
      /\ env'.taken = env.taken /\ env'.shown = env.shown /\ env'.sent = env.sent
  BY <1>1, <1>3, <1>8 DEF Envs
<1>10. CopyWorld' \in CopyWorlds /\ CopyWorld'.copy = copy /\ CopyWorld'.fds = fds'
  BY Zenon, <1>1, <1>3, <1>7 DEF CopyWorld, CopyWorlds
<1>11. OutboundWay(CopyWorld, env)' /\ InboundWay(CopyWorld, env)'
  BY Zenon, <1>1, <1>4, <1>7, <1>9, <1>10 DEF CopyInv, Fine, OutboundWay, InboundWay
<1>12. Fine(CopyWorld, env, copyloop)'
  BY <1>1, <1>3, <1>6, <1>7, <1>9, <1>10, <1>11 DEF CopyInv, Fine, Watched, Passed
<1>13. AllEnded => AllEnded'
  BY <1>6, <1>7, <1>9 DEF AllEnded, Passed
<1> QED BY <1>3, <1>9, <1>12, <1>13 DEF CopyInv

\* A byte on the socket.
LEMMA SentInv ==
    ASSUME CopyInv, Gives("socketIn", "sent", RemoteBytes)
    PROVE  CopyInv'
<1> DEFINE fd == [fds.socketIn EXCEPT !.data = Append(fds.socketIn.data, env.sent)]
<1>1. CopyWorld.copy = copy /\ CopyWorld.fds = fds /\ CopyWorld \in CopyWorlds /\ env \in Envs
  BY DEF CopyWorld, CopyInv, Fine
<1>2. Carries(FALSE, fds.socketIn, copy.inbound, fds.stdout, copy.inbound_shutdown,
              env.shown, env.sent)
  BY Zenon, <1>1 DEF CopyInv, Fine, InboundWay
<1>3. /\ copy' = copy /\ copyloop' = copyloop /\ ~fds.socketIn.shut
      /\ fds' = [fds EXCEPT !.socketIn = fd]
      /\ env' = [env EXCEPT !.sent = env.sent + 1]
  BY Zenon, <1>1 DEF Gives, CopyWorlds
<1>4. Carries(FALSE, fd, copy.inbound, fds.stdout, copy.inbound_shutdown,
              env.shown, env.sent + 1)
  BY Zenon, <1>2, <1>3, GiveCarries
<1>5. fd \in Fd /\ fds.socketIn \in Fd
  BY <1>2, <1>4 DEF Carries
<1>6. Passed(fds.socketIn, fd)
  BY Zenon, <1>1, <1>3, <1>5, AppendNotEmpty DEF Passed, Fd, Envs
<1> HIDE DEF fd
<1>7. /\ fds' \in [{"stdin", "socketOut", "socketIn", "stdout"} -> Fd] /\ fds'.socketIn = fd
      /\ fds'.stdin = fds.stdin /\ fds'.socketOut = fds.socketOut /\ fds'.stdout = fds.stdout
  BY <1>1, <1>3, <1>5 DEF CopyWorlds
<1>8. Len(fds.socketIn.data) \in Nat
  BY <1>5, LenProperties DEF Fd
<1>9. /\ env' \in Envs /\ env'.signals = env.signals /\ env'.lost = env.lost
      /\ env'.sent = env.sent + 1
      /\ env'.taken = env.taken /\ env'.typed = env.typed /\ env'.shown = env.shown
  BY <1>1, <1>3, <1>8 DEF Envs
<1>10. CopyWorld' \in CopyWorlds /\ CopyWorld'.copy = copy /\ CopyWorld'.fds = fds'
  BY Zenon, <1>1, <1>3, <1>7 DEF CopyWorld, CopyWorlds
<1>11. OutboundWay(CopyWorld, env)' /\ InboundWay(CopyWorld, env)'
  BY Zenon, <1>1, <1>4, <1>7, <1>9, <1>10 DEF CopyInv, Fine, OutboundWay, InboundWay
<1>12. Fine(CopyWorld, env, copyloop)'
  BY <1>1, <1>3, <1>6, <1>7, <1>9, <1>10, <1>11 DEF CopyInv, Fine, Watched, Passed
<1>13. AllEnded => AllEnded'
  BY Zenon, <1>6, <1>7, <1>9 DEF AllEnded, Passed
<1> QED BY <1>3, <1>9, <1>12, <1>13 DEF CopyInv

\* The end of standard input.
LEMMA InputEndsInv ==
    ASSUME CopyInv, Ends("stdin")
    PROVE  CopyInv'
<1> DEFINE fd == [fds.stdin EXCEPT !.shut = TRUE]
<1>1. CopyWorld.copy = copy /\ CopyWorld.fds = fds /\ CopyWorld \in CopyWorlds /\ env \in Envs
  BY DEF CopyWorld, CopyInv, Fine
<1>2. Carries(env.lost, fds.stdin, copy.outbound, fds.socketOut, copy.outbound_shutdown,
              env.taken, env.typed)
  BY <1>1 DEF CopyInv, Fine, OutboundWay
<1>3. /\ copy' = copy /\ copyloop' = copyloop
      /\ fds' = [fds EXCEPT !.stdin = fd]
      /\ env' = env
  BY Zenon, <1>1 DEF Ends, CopyWorlds
<1>4. Carries(env.lost, fd, copy.outbound, fds.socketOut, copy.outbound_shutdown,
              env.taken, env.typed)
  BY <1>2, <1>3, EndCarries
<1>5. fd \in Fd /\ fds.stdin \in Fd
  BY <1>2, <1>4 DEF Carries
<1>6. Passed(fds.stdin, fd)
  BY <1>1, <1>3, <1>5 DEF Passed, Fd, Envs
<1> HIDE DEF fd
<1>7. /\ fds' \in [{"stdin", "socketOut", "socketIn", "stdout"} -> Fd] /\ fds'.stdin = fd
      /\ fds'.socketOut = fds.socketOut /\ fds'.socketIn = fds.socketIn /\ fds'.stdout = fds.stdout
  BY <1>1, <1>3, <1>5 DEF CopyWorlds
<1>8. Len(fds.stdin.data) \in Nat
  BY <1>5, LenProperties DEF Fd
<1>9. /\ env' \in Envs /\ env'.signals = env.signals /\ env'.lost = env.lost
      /\ env'.taken = env.taken /\ env'.typed = env.typed /\ env'.shown = env.shown /\ env'.sent = env.sent
  BY <1>1, <1>3, <1>8 DEF Envs
<1>10. CopyWorld' \in CopyWorlds /\ CopyWorld'.copy = copy /\ CopyWorld'.fds = fds'
  BY Zenon, <1>1, <1>3, <1>7 DEF CopyWorld, CopyWorlds
<1>11. OutboundWay(CopyWorld, env)' /\ InboundWay(CopyWorld, env)'
  BY Zenon, <1>1, <1>4, <1>7, <1>9, <1>10 DEF CopyInv, Fine, OutboundWay, InboundWay
<1>12. Fine(CopyWorld, env, copyloop)'
  BY <1>1, <1>3, <1>6, <1>7, <1>9, <1>10, <1>11 DEF CopyInv, Fine, Watched, Passed
<1>13. AllEnded => AllEnded'
  BY <1>6, <1>7, <1>9 DEF AllEnded, Passed
<1> QED BY <1>3, <1>9, <1>12, <1>13 DEF CopyInv

\* The end of what comes from the socket.
LEMMA SocketEndsInv ==
    ASSUME CopyInv, Ends("socketIn")
    PROVE  CopyInv'
<1> DEFINE fd == [fds.socketIn EXCEPT !.shut = TRUE]
<1>1. CopyWorld.copy = copy /\ CopyWorld.fds = fds /\ CopyWorld \in CopyWorlds /\ env \in Envs
  BY DEF CopyWorld, CopyInv, Fine
<1>2. Carries(FALSE, fds.socketIn, copy.inbound, fds.stdout, copy.inbound_shutdown,
              env.shown, env.sent)
  BY Zenon, <1>1 DEF CopyInv, Fine, InboundWay
<1>3. /\ copy' = copy /\ copyloop' = copyloop
      /\ fds' = [fds EXCEPT !.socketIn = fd]
      /\ env' = env
  BY Zenon, <1>1 DEF Ends, CopyWorlds
<1>4. Carries(FALSE, fd, copy.inbound, fds.stdout, copy.inbound_shutdown,
              env.shown, env.sent)
  BY Zenon, <1>2, <1>3, EndCarries
<1>5. fd \in Fd /\ fds.socketIn \in Fd
  BY <1>2, <1>4 DEF Carries
<1>6. Passed(fds.socketIn, fd)
  BY <1>1, <1>3, <1>5 DEF Passed, Fd, Envs
<1> HIDE DEF fd
<1>7. /\ fds' \in [{"stdin", "socketOut", "socketIn", "stdout"} -> Fd] /\ fds'.socketIn = fd
      /\ fds'.stdin = fds.stdin /\ fds'.socketOut = fds.socketOut /\ fds'.stdout = fds.stdout
  BY <1>1, <1>3, <1>5 DEF CopyWorlds
<1>8. Len(fds.socketIn.data) \in Nat
  BY <1>5, LenProperties DEF Fd
<1>9. /\ env' \in Envs /\ env'.signals = env.signals /\ env'.lost = env.lost
      /\ env'.taken = env.taken /\ env'.typed = env.typed /\ env'.shown = env.shown /\ env'.sent = env.sent
  BY <1>1, <1>3, <1>8 DEF Envs
<1>10. CopyWorld' \in CopyWorlds /\ CopyWorld'.copy = copy /\ CopyWorld'.fds = fds'
  BY Zenon, <1>1, <1>3, <1>7 DEF CopyWorld, CopyWorlds
<1>11. OutboundWay(CopyWorld, env)' /\ InboundWay(CopyWorld, env)'
  BY Zenon, <1>1, <1>4, <1>7, <1>9, <1>10 DEF CopyInv, Fine, OutboundWay, InboundWay
<1>12. Fine(CopyWorld, env, copyloop)'
  BY <1>1, <1>3, <1>6, <1>7, <1>9, <1>10, <1>11 DEF CopyInv, Fine, Watched, Passed
<1>13. AllEnded => AllEnded'
  BY ZenonT(30), <1>6, <1>7, <1>9 DEF AllEnded, Passed
<1> QED BY <1>3, <1>9, <1>12, <1>13 DEF CopyInv

\* The other end of the socket takes bytes.
LEMMA TakenInv ==
    ASSUME CopyInv, Takes("socketOut", "taken")
    PROVE  CopyInv'
<1> DEFINE fd == [fds.socketOut EXCEPT !.data = <<>>]
<1>1. CopyWorld.copy = copy /\ CopyWorld.fds = fds /\ CopyWorld \in CopyWorlds /\ env \in Envs
  BY DEF CopyWorld, CopyInv, Fine
<1>2. Carries(env.lost, fds.stdin, copy.outbound, fds.socketOut, copy.outbound_shutdown,
              env.taken, env.typed)
  BY <1>1 DEF CopyInv, Fine, OutboundWay
<1>3. /\ copy' = copy /\ copyloop' = copyloop
      /\ fds' = [fds EXCEPT !.socketOut = fd]
      /\ env' = [env EXCEPT !.taken = env.taken + Len(fds.socketOut.data)]
  BY Zenon, <1>1 DEF Takes, CopyWorlds
<1>4. Carries(env.lost, fds.stdin, copy.outbound, fd, copy.outbound_shutdown,
              env.taken + Len(fds.socketOut.data), env.typed)
  BY <1>2, <1>3, TakeCarries
<1>5. fd \in Fd /\ fds.socketOut \in Fd
  BY <1>2, <1>4 DEF Carries
<1>6. Drained(fds.socketOut, fd)
  BY <1>1, <1>3, <1>5 DEF Drained, Fd, Envs
<1> HIDE DEF fd
<1>7. /\ fds' \in [{"stdin", "socketOut", "socketIn", "stdout"} -> Fd] /\ fds'.socketOut = fd
      /\ fds'.stdin = fds.stdin /\ fds'.socketIn = fds.socketIn /\ fds'.stdout = fds.stdout
  BY <1>1, <1>3, <1>5 DEF CopyWorlds
<1>8. Len(fds.socketOut.data) \in Nat
  BY <1>5, LenProperties DEF Fd
<1>9. /\ env' \in Envs /\ env'.signals = env.signals /\ env'.lost = env.lost
      /\ env'.taken = env.taken + Len(fds.socketOut.data)
      /\ env'.typed = env.typed /\ env'.shown = env.shown /\ env'.sent = env.sent
  BY <1>1, <1>3, <1>8 DEF Envs
<1>10. CopyWorld' \in CopyWorlds /\ CopyWorld'.copy = copy /\ CopyWorld'.fds = fds'
  BY Zenon, <1>1, <1>3, <1>7 DEF CopyWorld, CopyWorlds
<1>11. OutboundWay(CopyWorld, env)' /\ InboundWay(CopyWorld, env)'
  BY Zenon, <1>1, <1>4, <1>7, <1>9, <1>10 DEF CopyInv, Fine, OutboundWay, InboundWay
<1>12. Fine(CopyWorld, env, copyloop)'
  BY <1>1, <1>3, <1>6, <1>7, <1>9, <1>10, <1>11 DEF CopyInv, Fine, Watched, Drained
<1>13. AllEnded => AllEnded'
  BY <1>6, <1>7, <1>9 DEF AllEnded, Drained
<1> QED BY <1>3, <1>9, <1>12, <1>13 DEF CopyInv

\* The reader of standard output takes bytes.
LEMMA ShownInv ==
    ASSUME CopyInv, Takes("stdout", "shown")
    PROVE  CopyInv'
<1> DEFINE fd == [fds.stdout EXCEPT !.data = <<>>]
<1>1. CopyWorld.copy = copy /\ CopyWorld.fds = fds /\ CopyWorld \in CopyWorlds /\ env \in Envs
  BY DEF CopyWorld, CopyInv, Fine
<1>2. Carries(FALSE, fds.socketIn, copy.inbound, fds.stdout, copy.inbound_shutdown,
              env.shown, env.sent)
  BY Zenon, <1>1 DEF CopyInv, Fine, InboundWay
<1>3. /\ copy' = copy /\ copyloop' = copyloop
      /\ fds' = [fds EXCEPT !.stdout = fd]
      /\ env' = [env EXCEPT !.shown = env.shown + Len(fds.stdout.data)]
  BY Zenon, <1>1 DEF Takes, CopyWorlds
<1>4. Carries(FALSE, fds.socketIn, copy.inbound, fd, copy.inbound_shutdown,
              env.shown + Len(fds.stdout.data), env.sent)
  BY Zenon, <1>2, <1>3, TakeCarries
<1>5. fd \in Fd /\ fds.stdout \in Fd
  BY <1>2, <1>4 DEF Carries
<1>6. Drained(fds.stdout, fd)
  BY <1>1, <1>3, <1>5 DEF Drained, Fd, Envs
<1> HIDE DEF fd
<1>7. /\ fds' \in [{"stdin", "socketOut", "socketIn", "stdout"} -> Fd] /\ fds'.stdout = fd
      /\ fds'.stdin = fds.stdin /\ fds'.socketOut = fds.socketOut /\ fds'.socketIn = fds.socketIn
  BY <1>1, <1>3, <1>5 DEF CopyWorlds
<1>8. Len(fds.stdout.data) \in Nat
  BY <1>5, LenProperties DEF Fd
<1>9. /\ env' \in Envs /\ env'.signals = env.signals /\ env'.lost = env.lost
      /\ env'.shown = env.shown + Len(fds.stdout.data)
      /\ env'.taken = env.taken /\ env'.typed = env.typed /\ env'.sent = env.sent
  BY <1>1, <1>3, <1>8 DEF Envs
<1>10. CopyWorld' \in CopyWorlds /\ CopyWorld'.copy = copy /\ CopyWorld'.fds = fds'
  BY Zenon, <1>1, <1>3, <1>7 DEF CopyWorld, CopyWorlds
<1>11. OutboundWay(CopyWorld, env)' /\ InboundWay(CopyWorld, env)'
  BY Zenon, <1>1, <1>4, <1>7, <1>9, <1>10 DEF CopyInv, Fine, OutboundWay, InboundWay
<1>12. Fine(CopyWorld, env, copyloop)'
  BY <1>1, <1>3, <1>6, <1>7, <1>9, <1>10, <1>11 DEF CopyInv, Fine, Watched, Drained
<1>13. AllEnded => AllEnded'
  BY <1>6, <1>7, <1>9 DEF AllEnded, Drained
<1> QED BY <1>3, <1>9, <1>12, <1>13 DEF CopyInv

\* The connection of a TCPSpongeSocket is lost: both directions of its pair are shut down.
LEMMA ShutDownInv ==
    ASSUME CopyInv, SocketShutDown
    PROVE  CopyInv'
<1> DEFINE in == [fds.socketIn EXCEPT !.shut = TRUE]
           out == [fds.socketOut EXCEPT !.shut = TRUE]
<1>1. CopyWorld.copy = copy /\ CopyWorld.fds = fds /\ CopyWorld \in CopyWorlds /\ env \in Envs
  BY DEF CopyWorld, CopyInv, Fine
<1>2. /\ Carries(env.lost, fds.stdin, copy.outbound, fds.socketOut, copy.outbound_shutdown,
                 env.taken, env.typed)
      /\ Carries(FALSE, fds.socketIn, copy.inbound, fds.stdout, copy.inbound_shutdown,
                 env.shown, env.sent)
  BY Zenon, <1>1 DEF CopyInv, Fine, OutboundWay, InboundWay
<1>3. /\ copy' = copy /\ copyloop' = copyloop
      /\ fds' = [fds EXCEPT !.socketIn = in, !.socketOut = out]
      /\ env' = [env EXCEPT !.lost = TRUE]
  BY Zenon, <1>1 DEF SocketShutDown, CopyWorlds
<1>4. /\ Carries(TRUE, fds.stdin, copy.outbound, out, copy.outbound_shutdown,
                 env.taken, env.typed)
      /\ Carries(FALSE, in, copy.inbound, fds.stdout, copy.inbound_shutdown,
                 env.shown, env.sent)
  BY Zenon, <1>2, LostCarries, EndCarries
<1>5. in \in Fd /\ out \in Fd /\ fds.socketIn \in Fd /\ fds.socketOut \in Fd
  BY <1>2, <1>4 DEF Carries
<1>6. Passed(fds.socketIn, in) /\ in.shut /\ out.shut
  BY Zenon, <1>5 DEF Passed, Fd
<1> HIDE DEF in, out
<1>7. /\ fds' \in [{"stdin", "socketOut", "socketIn", "stdout"} -> Fd]
      /\ fds'.socketIn = in /\ fds'.socketOut = out
      /\ fds'.stdin = fds.stdin /\ fds'.stdout = fds.stdout
  BY Zenon, <1>1, <1>3, <1>5 DEF CopyWorlds
<1>9. /\ env' \in Envs /\ env'.signals = env.signals /\ env'.lost = TRUE
      /\ env'.taken = env.taken /\ env'.typed = env.typed /\ env'.shown = env.shown /\ env'.sent = env.sent
  BY ZenonT(30), <1>1, <1>3 DEF Envs
<1>10. CopyWorld' \in CopyWorlds /\ CopyWorld'.copy = copy /\ CopyWorld'.fds = fds'
  BY Zenon, <1>1, <1>3, <1>7 DEF CopyWorld, CopyWorlds
<1>11. OutboundWay(CopyWorld, env)' /\ InboundWay(CopyWorld, env)'
  BY Zenon, <1>1, <1>4, <1>7, <1>9, <1>10 DEF OutboundWay, InboundWay
<1>12. /\ Watched(TRUE, 1, copyloop, fds.stdin, copy.outbound, out)
       /\ Watched(FALSE, 3, copyloop, in, copy.inbound, fds.stdout)
       /\ Reported(TRUE, copyloop) /\ copyloop \in Loops
       /\ copy.inbound.isInputEnd => in.eof
  <2>1. /\ Watched(env.lost, 1, copyloop, fds.stdin, copy.outbound, fds.socketOut)
        /\ Watched(FALSE, 3, copyloop, fds.socketIn, copy.inbound, fds.stdout)
        /\ Reported(env.lost, copyloop) /\ copyloop \in Loops
        /\ copy.inbound.isInputEnd => fds.socketIn.eof
    BY Zenon, <1>1 DEF CopyInv, Fine
  <2>2. Watched(TRUE, 1, copyloop, fds.stdin, copy.outbound, out)
    BY <1>6, <2>1 DEF Watched
  <2>3. Watched(FALSE, 3, copyloop, in, copy.inbound, fds.stdout)
    BY <1>6, <2>1 DEF Watched, Passed
  <2> QED BY Zenon, <1>6, <2>1, <2>2, <2>3 DEF Reported, Passed
<1>13. Fine(CopyWorld, env, copyloop)'
  <2>1. /\ Watched(env.lost, 1, copyloop, CopyWorld.fds.stdin, CopyWorld.copy.outbound,
                   CopyWorld.fds.socketOut)'
        /\ Watched(FALSE, 3, copyloop, CopyWorld.fds.socketIn, CopyWorld.copy.inbound,
                   CopyWorld.fds.stdout)'
    BY Zenon, <1>3, <1>7, <1>9, <1>10, <1>12
  <2>2. /\ (CopyWorld.copy.inbound.isInputEnd => CopyWorld.fds.socketIn.eof)'
        /\ CopyWorld.fds.socketOut.shut' /\ Reported(env.lost, copyloop)' /\ copyloop' \in Loops
    BY Zenon, <1>3, <1>6, <1>7, <1>9, <1>10, <1>12
  <2> QED BY Zenon, <1>10, <1>11, <2>1, <2>2 DEF Fine
<1>14. AllEnded => AllEnded'
  BY Zenon, <1>6, <1>7, <1>9 DEF AllEnded, Passed
<1> QED BY <1>3, <1>9, <1>13, <1>14 DEF CopyInv
-----------------------------------------------------------------------------
(***************************************************************************)
(* The command line.                                                       *)
(***************************************************************************)
\* The arguments before n, read item by item from those that start one.
ReadUpTo(starts, n) ==
    LET valued == {i \in starts : TakesValue(main.program, argv[i])}
    IN  /\ starts \in SUBSET (1 .. n - 1)
        /\ \A i \in 1 .. n - 1 : (i \in starts) # (i - 1 \in valued)
        /\ \A i \in starts : argv[i] = "-l" \/ i \in valued
        /\ \A i \in valued : i + 1 <= n - 1

\* The configuration says what was read.
ConfigAsRead(starts) ==
    /\ main.config.listen = (\E i \in starts : argv[i] = "-l")
    /\ main.config.values = {i + 1 : i \in {j \in starts : TakesValue(main.program, argv[j])}}

\* Every reading of the whole line reads the arguments before n in the same way, and
\* starts an item at n.
OnlyReading(starts, n) ==
    \A t \in SUBSET (1 .. Len(argv) - 2) :
        Reading(t) => /\ t \cap (1 .. n - 1) = starts
                      /\ n <= Len(argv) - 2 => n \in t

MainStates ==
    [program : Programs,
     pc : {"start", "options", "usage", "help", "open", "copy", "failure", "wait_until_closed",
           "success"},
     config : [listen : BOOLEAN, values : SUBSET Int, host : Int, port : Int]]

LineInv ==
    /\ main \in MainStates /\ argv \in Seq(Words) /\ curr \in Nat
    /\ At("start") => curr = 1 /\ main.config = NoConfig
    /\ At("options") => /\ main.program # "tcp_native" /\ curr \in 1 .. Len(argv) - 1
                        /\ \E s : ReadUpTo(s, curr) /\ ConfigAsRead(s) /\ OnlyReading(s, curr)
    /\ CommandLineAsRead

\* No option with a value is "-l".
LEMMA ListenTakesNoValue ==
    ASSUME NEW p \in {"tcp_ipv4", "tcp_udp"}
    PROVE  ~TakesValue(p, "-l")
BY DEF TakesValue, ValueOptions, Matches

\* The program starts with the first argument.
LEMMA LineInit ==
    ASSUME AppInit
    PROVE  LineInv
<1>1. PICK n \in 0 .. MaxArgs : argv \in [1 .. n -> Words]
  BY DEF AppInit
<1>2. argv \in Seq(Words)
  BY <1>1, AppAssumption, SeqDef
<1>3. PICK p \in Programs : main = [program |-> p, pc |-> "start", config |-> NoConfig]
  BY DEF AppInit
<1>4. main \in MainStates
  BY <1>3 DEF MainStates, NoConfig
<1> QED BY ZenonT(30), <1>2, <1>3, <1>4 DEF LineInv, AppInit, At, CommandLineAsRead

\* The number of arguments is looked at.
LEMMA StartLine ==
    ASSUME LineInv, Start
    PROVE  LineInv'
<1>1. Len(argv) \in Nat /\ argv' = argv /\ curr' = curr /\ curr = 1 /\ main.config = NoConfig
  BY LenProperties DEF LineInv, Start, ParseStep
<1>2. CASE main.program = "tcp_native"
  <2>1. /\ main' \in MainStates /\ main'.program = "tcp_native"
        /\ main'.pc \in {"usage", "open"}
    <3> DEFINE listen == Len(argv) > 0 /\ argv[1] = "-l"
               least == IF listen THEN 3 ELSE 2
               pc == IF Len(argv) < least THEN "usage" ELSE "open"
               config == [listen |-> listen, values |-> {}, host |-> least - 1, port |-> least]
    <3>1. main' = [main EXCEPT !.pc = pc, !.config = config]
      BY <1>2 DEF Start
    <3>2. listen \in BOOLEAN /\ least \in {2, 3}
      OBVIOUS
    <3> HIDE DEF listen, least
    <3>3. /\ config \in [listen : BOOLEAN, values : SUBSET Int, host : Int, port : Int]
          /\ pc \in {"usage", "open"}
      BY <3>2
    <3> HIDE DEF config, pc
    <3> QED BY Zenon, <1>2, <3>1, <3>3 DEF LineInv, MainStates
  <2> QED BY <1>1, <2>1 DEF LineInv, At, CommandLineAsRead
<1>3. CASE main.program # "tcp_native"
  <2>1. /\ main' \in MainStates /\ main'.program = main.program /\ main'.config = NoConfig
        /\ main'.pc = IF Len(argv) < 2 THEN "usage" ELSE "options"
    BY Zenon, <1>1, <1>3 DEF Start, LineInv, MainStates, NoConfig
  <2>2. CASE Len(argv) < 2
    BY <1>1, <2>1, <2>2 DEF LineInv, At, CommandLineAsRead
  <2>3. CASE ~(Len(argv) < 2)
    <3>1. ReadUpTo({}, curr)' /\ ConfigAsRead({})'
      BY <1>1, <2>1 DEF ReadUpTo, ConfigAsRead, NoConfig
    <3>2. OnlyReading({}, curr)'
      BY <1>1, <2>1 DEF OnlyReading, Reading
    <3> QED BY <1>1, <1>3, <2>1, <2>3, <3>1, <3>2 DEF LineInv, At, CommandLineAsRead
  <2> QED BY <2>2, <2>3
<1> QED BY <1>2, <1>3
\* The names of the arguments and options in a step of the loop.
LEMMA OptionFacts ==
    ASSUME LineInv, MoreOptions
    PROVE  /\ main \in MainStates /\ main.program \in {"tcp_ipv4", "tcp_udp"}
           /\ Len(argv) \in Nat /\ curr \in Nat /\ 1 <= curr /\ curr <= Len(argv) - 2
<1>1. /\ main \in MainStates /\ argv \in Seq(Words) /\ curr \in Nat /\ main.program # "tcp_native"
      /\ curr \in 1 .. Len(argv) - 1 /\ Len(argv) - curr >= 2
  BY DEF LineInv, MoreOptions
<1>2. main.program \in {"tcp_ipv4", "tcp_udp"}
  BY Zenon, <1>1, AppAssumption DEF MainStates
<1>3. Len(argv) \in Nat
  BY <1>1, LenProperties
<1> QED BY <1>1, <1>2, <1>3

\* One more item that has no value.
LEMMA OneMore ==
    ASSUME NEW n \in Nat, 1 <= n, n <= Len(argv) - 2, Len(argv) \in Nat,
           NEW s, ReadUpTo(s, n), OnlyReading(s, n),
           argv[n] = "-l", ~TakesValue(main.program, argv[n])
    PROVE  ReadUpTo(s \cup {n}, n + 1) /\ OnlyReading(s \cup {n}, n + 1)
<1> DEFINE u == s \cup {n}
           V(i) == TakesValue(main.program, argv[i])
<1>1. /\ s \in SUBSET (1 .. n - 1)
      /\ \A i \in 1 .. n - 1 : (i \in s) # (i - 1 \in s /\ V(i - 1))
      /\ \A i \in s : argv[i] = "-l" \/ V(i)
      /\ \A i \in s : V(i) => i + 1 <= n - 1
  BY DEF ReadUpTo
<1> HIDE DEF V
<1>2. ASSUME NEW i \in 1 .. n PROVE (i \in u) # (i - 1 \in u /\ V(i - 1))
  <2>1. CASE i = n
    <3>1. i - 1 # n
      BY <2>1
    <3>2. i - 1 \in s => ~V(i - 1)
      <4>1. i - 1 \in s /\ V(i - 1) => (i - 1) + 1 <= n - 1
        BY <1>1
      <4> QED BY <2>1, <4>1
    <3> QED BY <2>1, <3>1, <3>2
  <2>2. CASE i # n
    <3>1. i \in 1 .. n - 1 /\ i - 1 # n
      BY <2>2
    <3> QED BY <1>1, <3>1, <2>2
  <2> QED BY <2>1, <2>2
<1>3. ReadUpTo(u, n + 1)
  <2>1. u \in SUBSET (1 .. (n + 1) - 1) /\ (n + 1) - 1 = n
    BY <1>1
  <2>2. \A i \in u : argv[i] = "-l" \/ V(i)
    BY <1>1
  <2>3. \A i \in u : V(i) => i + 1 <= (n + 1) - 1
    BY <1>1 DEF V
  <2>4. \A i \in 1 .. (n + 1) - 1 : (i \in u) # (i - 1 \in u /\ V(i - 1))
    BY <1>2, <2>1
  <2> HIDE DEF u
  <2>5. \A i : i \in {j \in u : TakesValue(main.program, argv[j])} <=> i \in u /\ V(i)
    BY DEF V
  <2> QED BY <2>1, <2>2, <2>3, <2>4, <2>5 DEF ReadUpTo
<1>4. ASSUME NEW t \in SUBSET (1 .. Len(argv) - 2), Reading(t)
      PROVE  /\ t \cap (1 .. (n + 1) - 1) = u
             /\ n + 1 <= Len(argv) - 2 => n + 1 \in t
  <2>1. t \cap (1 .. n - 1) = s /\ n \in t
    BY <1>4 DEF OnlyReading
  <2>2. t \cap (1 .. (n + 1) - 1) = u
    <3>1. 1 .. (n + 1) - 1 = (1 .. n - 1) \cup {n}
      OBVIOUS
    <3> QED BY <2>1, <3>1
  <2>3. ASSUME n + 1 <= Len(argv) - 2 PROVE n + 1 \in t
    <3>1. n + 1 \in 1 .. Len(argv) - 2 /\ (n + 1) - 1 = n
      BY <2>3
    <3>2. (n + 1 \in t) # (n \in t /\ V(n))
      BY <1>4, <3>1 DEF Reading, V
    <3> QED BY <3>2 DEF V
  <2> QED BY <2>2, <2>3
<1> QED BY <1>3, <1>4 DEF OnlyReading

\* One more item and its value.
LEMMA TwoMore ==
    ASSUME NEW n \in Nat, 1 <= n, n + 1 <= Len(argv) - 2, Len(argv) \in Nat,
           NEW s, ReadUpTo(s, n), OnlyReading(s, n), TakesValue(main.program, argv[n])
    PROVE  ReadUpTo(s \cup {n}, n + 2) /\ OnlyReading(s \cup {n}, n + 2)
<1> DEFINE u == s \cup {n}
           V(i) == TakesValue(main.program, argv[i])
<1>1. /\ s \in SUBSET (1 .. n - 1)
      /\ \A i \in 1 .. n - 1 : (i \in s) # (i - 1 \in s /\ V(i - 1))
      /\ \A i \in s : argv[i] = "-l" \/ V(i)
      /\ \A i \in s : V(i) => i + 1 <= n - 1
  BY DEF ReadUpTo
<1>v. V(n)
  OBVIOUS
<1> HIDE DEF V
<1>2. ASSUME NEW i \in 1 .. n + 1 PROVE (i \in u) # (i - 1 \in u /\ V(i - 1))
  <2>1. CASE i = n
    <3>1. i - 1 # n
      BY <2>1
    <3>2. i - 1 \in s => ~V(i - 1)
      <4>1. i - 1 \in s /\ V(i - 1) => (i - 1) + 1 <= n - 1
        BY <1>1
      <4> QED BY <2>1, <4>1
    <3> QED BY <2>1, <3>1, <3>2
  <2>2. CASE i = n + 1
    <3>1. i \notin u /\ i - 1 = n
      BY <1>1, <2>2
    <3> QED BY <1>v, <3>1
  <2>3. CASE i # n /\ i # n + 1
    <3>1. i \in 1 .. n - 1 /\ i - 1 # n
      BY <2>3
    <3> QED BY <1>1, <3>1, <2>3
  <2> QED BY <2>1, <2>2, <2>3
<1>3. ReadUpTo(u, n + 2)
  <2>1. u \in SUBSET (1 .. (n + 2) - 1) /\ (n + 2) - 1 = n + 1
    BY <1>1
  <2>2. \A i \in u : argv[i] = "-l" \/ V(i)
    BY <1>1, <1>v
  <2>3. \A i \in u : V(i) => i + 1 <= (n + 2) - 1
    BY <1>1
  <2>4. \A i \in 1 .. (n + 2) - 1 : (i \in u) # (i - 1 \in u /\ V(i - 1))
    BY <1>2, <2>1
  <2> HIDE DEF u
  <2>5. \A i : i \in {j \in u : TakesValue(main.program, argv[j])} <=> i \in u /\ V(i)
    BY DEF V
  <2> QED BY <2>1, <2>2, <2>3, <2>4, <2>5 DEF ReadUpTo
<1>4. ASSUME NEW t \in SUBSET (1 .. Len(argv) - 2), Reading(t)
      PROVE  /\ t \cap (1 .. (n + 2) - 1) = u
             /\ n + 2 <= Len(argv) - 2 => n + 2 \in t
  <2>1. t \cap (1 .. n - 1) = s /\ n \in t
    BY <1>4 DEF OnlyReading
  <2>2. n + 1 \notin t
    <3>1. n + 1 \in 1 .. Len(argv) - 2 /\ (n + 1) - 1 = n
      OBVIOUS
    <3>2. (n + 1 \in t) # (n \in t /\ V(n))
      BY <1>4, <3>1 DEF Reading, V
    <3> QED BY <1>v, <2>1, <3>2
  <2>3. t \cap (1 .. (n + 2) - 1) = u
    <3>1. 1 .. (n + 2) - 1 = (1 .. n - 1) \cup {n} \cup {n + 1}
      OBVIOUS
    <3> QED BY <2>1, <2>2, <3>1
  <2>4. ASSUME n + 2 <= Len(argv) - 2 PROVE n + 2 \in t
    <3>1. n + 2 \in 1 .. Len(argv) - 2 /\ (n + 2) - 1 = n + 1
      BY <2>4
    <3>2. (n + 2 \in t) # (n + 1 \in t /\ V(n + 1))
      BY <1>4, <3>1 DEF Reading, V
    <3> QED BY <2>2, <3>2
  <2> QED BY <2>3, <2>4
<1> QED BY <1>3, <1>4 DEF OnlyReading
\* The option -l.
LEMMA ListenLine ==
    ASSUME LineInv, Listen
    PROVE  LineInv'
<1>1. /\ main \in MainStates /\ main.program \in {"tcp_ipv4", "tcp_udp"}
      /\ Len(argv) \in Nat /\ curr \in Nat /\ 1 <= curr /\ curr <= Len(argv) - 2
  BY OptionFacts DEF Listen
<1>2. /\ argv[curr] = "-l" /\ argv' = argv /\ curr' = curr + 1
      /\ main' = [main EXCEPT !.config.listen = TRUE]
  BY DEF Listen, ParseStep
<1>3. PICK s : ReadUpTo(s, curr) /\ ConfigAsRead(s) /\ OnlyReading(s, curr)
  BY DEF LineInv, Listen, MoreOptions
<1>4. ~TakesValue(main.program, argv[curr])
  BY <1>1, <1>2, ListenTakesNoValue
<1>5. /\ main' \in MainStates /\ main'.program = main.program /\ main'.pc = main.pc
      /\ main'.config.listen = TRUE /\ main'.config.values = main.config.values
  BY Zenon, <1>1, <1>2 DEF MainStates
<1>u. PICK u : u = s \cup {curr}
  BY Zenon
<1>6. ReadUpTo(u, curr + 1) /\ OnlyReading(u, curr + 1)
  BY <1>1, <1>2, <1>3, <1>4, <1>u, OneMore
<1>7. ReadUpTo(u, curr)'
  BY <1>2, <1>5, <1>6 DEF ReadUpTo
<1>r. \A t : Reading(t)' <=> Reading(t)
  BY <1>2, <1>5 DEF Reading
<1>o. OnlyReading(u, curr)'
  BY <1>2, <1>6, <1>r DEF OnlyReading
<1>8. ConfigAsRead(u)'
  <2>1. \E i \in u : argv[i] = "-l"
    BY <1>2, <1>u
  <2>2. {i + 1 : i \in {j \in u : TakesValue(main.program, argv[j])}}
          = {i + 1 : i \in {j \in s : TakesValue(main.program, argv[j])}}
    BY <1>4, <1>u
  <2> QED BY Zenon, <1>2, <1>3, <1>5, <2>1, <2>2 DEF ConfigAsRead
<1>9. At("options") /\ At("options")'
  BY <1>5 DEF Listen, MoreOptions, At
<1>10. curr' \in 1 .. Len(argv') - 1
  BY <1>1, <1>2
<1>11. CommandLineAsRead'
  BY <1>9 DEF At, CommandLineAsRead
<1>12. /\ argv' \in Seq(Words) /\ curr' \in Nat /\ main'.program # "tcp_native"
       /\ ~At("start")'
  BY <1>1, <1>2, <1>5, <1>9 DEF LineInv, At
<1> QED BY <1>5, <1>7, <1>o, <1>8, <1>10, <1>11, <1>12 DEF LineInv
\* A line that stops the loop has no reading.
LEMMA NoReading ==
    ASSUME LineInv, MoreOptions,
           \/ TakesValue(main.program, argv[curr]) /\ curr + 3 > Len(argv)
           \/ argv[curr] # "-l" /\ ~TakesValue(main.program, argv[curr])
    PROVE  {t \in SUBSET (1 .. Len(argv) - 2) : Reading(t)} = {}
<1>1. Len(argv) \in Nat /\ curr \in Nat /\ curr <= Len(argv) - 2
  BY OptionFacts
<1>2. PICK s : OnlyReading(s, curr)
  BY DEF LineInv, MoreOptions
<1>3. SUFFICES ASSUME NEW t \in SUBSET (1 .. Len(argv) - 2), Reading(t) PROVE FALSE
  OBVIOUS
<1>4. curr \in t
  BY <1>1, <1>2, <1>3 DEF OnlyReading
<1>5. /\ argv[curr] = "-l" \/ TakesValue(main.program, argv[curr])
      /\ TakesValue(main.program, argv[curr]) => curr + 1 <= Len(argv) - 2
  BY <1>3, <1>4 DEF Reading
<1> QED BY <1>1, <1>5

\* A step to the usage message.
LEMMA UsageLine ==
    ASSUME LineInv, MoreOptions, argv' = argv, curr' = curr, main' = [main EXCEPT !.pc = "usage"],
           {t \in SUBSET (1 .. Len(argv) - 2) : Reading(t)} = {}
    PROVE  LineInv'
<1>1. /\ main' \in MainStates /\ main'.program = main.program /\ main'.pc = "usage"
      /\ main'.config = main.config
  BY DEF LineInv, MainStates
<1>2. \A t : Reading(t)' <=> Reading(t)
  BY <1>1 DEF Reading
<1>3. {t \in SUBSET (1 .. Len(argv') - 2) : Reading(t)'} = {}
  BY <1>2
<1>4. CommandLineAsRead'
  BY <1>1, <1>3 DEF CommandLineAsRead, At
<1> QED BY <1>1, <1>4 DEF LineInv, At

\* An option with a value.
LEMMA OptionLine ==
    ASSUME LineInv, Option
    PROVE  LineInv'
<1>1. /\ main \in MainStates /\ main.program \in {"tcp_ipv4", "tcp_udp"}
      /\ Len(argv) \in Nat /\ curr \in Nat /\ 1 <= curr /\ curr <= Len(argv) - 2
  BY OptionFacts DEF Option
<1>2. /\ MoreOptions /\ TakesValue(main.program, argv[curr]) /\ argv' = argv
  BY DEF Option, ParseStep
<1>3. CASE CheckArgc
  <2>1. curr + 3 > Len(argv) /\ curr' = curr /\ main' = [main EXCEPT !.pc = "usage"]
    BY <1>3 DEF Option, CheckArgc, Goto
  <2> QED BY <1>2, <2>1, NoReading, UsageLine
<1>4. CASE ~CheckArgc
  <2>1. /\ curr + 3 <= Len(argv) /\ curr' = curr + 2
        /\ main' = [main EXCEPT !.config.values = @ \cup {curr + 1}]
    BY <1>1, <1>4 DEF Option, CheckArgc
  <2>2. PICK s : ReadUpTo(s, curr) /\ ConfigAsRead(s) /\ OnlyReading(s, curr)
    BY <1>2 DEF LineInv, MoreOptions
  <2>3. argv[curr] # "-l"
    BY <1>1, <1>2, ListenTakesNoValue
  <2>4. /\ main' \in MainStates /\ main'.program = main.program /\ main'.pc = main.pc
        /\ main'.config.listen = main.config.listen
        /\ main'.config.values = main.config.values \cup {curr + 1}
    BY <1>1, <2>1 DEF MainStates
  <2>5. PICK u : u = s \cup {curr}
    BY Zenon
  <2>6. ReadUpTo(u, curr + 2) /\ OnlyReading(u, curr + 2)
    <3>1. curr + 1 <= Len(argv) - 2
      BY <1>1, <2>1
    <3> QED BY Zenon, <1>1, <1>2, <2>2, <2>5, <3>1, TwoMore
  <2>7. ReadUpTo(u, curr)'
    BY <1>2, <2>1, <2>4, <2>6 DEF ReadUpTo
  <2>8. \A t : Reading(t)' <=> Reading(t)
    BY <1>2, <2>4 DEF Reading
  <2>9. OnlyReading(u, curr)'
    BY <1>2, <2>1, <2>6, <2>8 DEF OnlyReading
  <2>10. ConfigAsRead(u)'
    <3>1. (\E i \in u : argv[i] = "-l") <=> (\E i \in s : argv[i] = "-l")
      BY <2>3, <2>5
    <3>2. {i + 1 : i \in {j \in u : TakesValue(main.program, argv[j])}}
            = {i + 1 : i \in {j \in s : TakesValue(main.program, argv[j])}} \cup {curr + 1}
      BY <1>2, <2>5
    <3> QED BY <1>2, <2>2, <2>4, <3>1, <3>2 DEF ConfigAsRead
  <2>11. At("options") /\ At("options")' /\ ~At("start")'
    BY <1>2, <2>4 DEF MoreOptions, At
  <2>12. curr' \in 1 .. Len(argv') - 1 /\ curr' \in Nat
    BY <1>1, <1>2, <2>1
  <2>13. CommandLineAsRead'
    BY <2>11 DEF At, CommandLineAsRead
  <2>14. argv' \in Seq(Words) /\ main'.program # "tcp_native"
    BY <1>1, <1>2, <2>4 DEF LineInv
  <2> QED BY <2>4, <2>7, <2>9, <2>10, <2>11, <2>12, <2>13, <2>14 DEF LineInv
<1> QED BY <1>3, <1>4

\* The option -h.
LEMMA HelpLine ==
    ASSUME LineInv, Help
    PROVE  LineInv'
<1>1. /\ argv' = argv /\ curr' = curr /\ main' = [main EXCEPT !.pc = "help"]
  BY DEF Help, ParseStep, Goto
<1>2. main' \in MainStates /\ main'.pc = "help"
  BY <1>1 DEF LineInv, MainStates
<1> QED BY <1>1, <1>2 DEF LineInv, At, CommandLineAsRead

\* Any other argument.
LEMMA UnrecognizedLine ==
    ASSUME LineInv, Unrecognized
    PROVE  LineInv'
<1>1. /\ argv' = argv /\ curr' = curr /\ main' = [main EXCEPT !.pc = "usage"] /\ MoreOptions
      /\ argv[curr] # "-l" /\ ~TakesValue(main.program, argv[curr])
  BY DEF Unrecognized, ParseStep, Goto
<1> QED BY <1>1, NoReading, UsageLine

\* The host and the port.
LEMMA PositionalLine ==
    ASSUME LineInv, Positional
    PROVE  LineInv'
<1> DEFINE last == Len(argv)
           port == IF main.program = "tcp_ipv4" THEN curr + 1 ELSE last
           host == IF main.config.listen THEN 0 ELSE port - 1
           zero == main.program = "tcp_ipv4" /\ main.config.listen /\ argv[port] = "0"
           pc == IF zero THEN "usage" ELSE "open"
<1>1. /\ main \in MainStates /\ argv \in Seq(Words) /\ curr \in Nat /\ last \in Nat
      /\ main.program # "tcp_native" /\ curr \in 1 .. last - 1 /\ ~(last - curr >= 2)
  BY LenProperties DEF LineInv, Positional, MoreOptions
<1>2. /\ argv' = argv /\ curr' = curr
      /\ main' = [main EXCEPT !.pc = pc, !.config.host = host, !.config.port = port]
  BY DEF Positional, ParseStep
<1>3. curr = last - 1 /\ port = last /\ host = IF main.config.listen THEN 0 ELSE last - 1
  BY <1>1
<1>4. zero => main.config.listen /\ argv[last] = "0"
  BY <1>3
<1>5. pc \in {"usage", "open"} /\ (pc = "usage" => zero)
  OBVIOUS
<1>6. PICK s : ReadUpTo(s, curr) /\ ConfigAsRead(s)
  BY DEF LineInv, Positional
<1> HIDE DEF port, host, zero, pc
<1>7. /\ main' \in MainStates /\ main'.program = main.program /\ main'.pc = pc
      /\ main'.config.listen = main.config.listen /\ main'.config.values = main.config.values
      /\ main'.config.host = (IF main'.config.listen THEN 0 ELSE last - 1)
      /\ main'.config.port = last
  <2>1. host \in Int /\ port \in Int
    BY <1>1, <1>3
  <2>2. /\ main' \in MainStates /\ main'.program = main.program /\ main'.pc = pc
        /\ main'.config.listen = main.config.listen /\ main'.config.values = main.config.values
        /\ main'.config.host = host /\ main'.config.port = port
    BY Zenon, <1>1, <1>2, <1>5, <2>1 DEF MainStates
  <2> QED BY <1>3, <2>2
<1>8. s \in SUBSET (1 .. last - 2) /\ Reading(s)'
  <2>1. curr - 1 = last - 2
    BY <1>1, <1>3
  <2>2. s \in SUBSET (1 .. last - 2) /\ Reading(s)
    BY <1>6, <2>1 DEF ReadUpTo, Reading
  <2> QED BY <1>2, <1>7, <2>2 DEF Reading
<1>9. CommandLineAsRead'
  <2>1. ConfigAsRead(s)'
    BY Zenon, <1>2, <1>6, <1>7 DEF ConfigAsRead
  <2>2. CASE pc = "open"
    <3>1. At("open")' /\ ~At("usage")'
      BY <1>7, <2>2 DEF At
    <3> QED BY Zenon, <1>2, <1>7, <1>8, <2>1, <3>1 DEF CommandLineAsRead, ConfigAsRead
  <2>3. CASE pc = "usage"
    <3>1. At("usage")' /\ ~At("open")' /\ main'.config.listen /\ argv'[Len(argv')] = "0"
      BY <1>2, <1>4, <1>5, <1>7, <2>3 DEF At
    <3> QED BY <3>1 DEF CommandLineAsRead
  <2> QED BY <1>5, <2>2, <2>3
<1> QED BY <1>1, <1>2, <1>5, <1>7, <1>9 DEF LineInv, At
-----------------------------------------------------------------------------
(***************************************************************************)
(* The programs.                                                           *)
(***************************************************************************)
\* main() is past the copy only when the loop has returned.
PastCopy == main.pc \in {"wait_until_closed", "success"} => copyloop.pc = "returned"

AppInv == LineInv /\ CopyInv /\ PastCopy /\ ThrowsOnlyIfLost

\* A step that leaves the command line, and goes to a place after it.
LEMMA LineBehind ==
    ASSUME LineInv, argv' \in Seq(Words), curr' \in Nat, main' \in MainStates,
           main'.pc \in {"copy", "failure", "wait_until_closed", "success"}
    PROVE  LineInv'
BY Zenon DEF LineInv, At, CommandLineAsRead

\* The reading of the command line leaves the copy alone.
LEMMA CopyUnchanged ==
    ASSUME CopyInv, UNCHANGED copyVars
    PROVE  CopyInv'
<1>1. copy' = copy /\ fds' = fds /\ copyloop' = copyloop /\ env' = env
  BY DEF copyVars
<1>2. CopyWorld' = CopyWorld /\ (AllEnded <=> AllEnded')
  BY <1>1 DEF CopyWorld, AllEnded
<1> QED BY <1>1, <1>2 DEF CopyInv

\* The socket is opened, and it shows what standard input is.
LEMMA OpenCopy ==
    ASSUME CopyInv, OpenSocket
    PROVE  CopyInv'
<1>1. PICK pipe \in BOOLEAN : env' = [env EXCEPT !.pipe = pipe]
  BY DEF OpenSocket
<1>2. copy' = copy /\ fds' = fds /\ copyloop' = copyloop
  BY DEF OpenSocket
<1>3. /\ env' \in Envs /\ env'.signals = env.signals /\ env'.lost = env.lost /\ env'.taken = env.taken
      /\ env'.typed = env.typed /\ env'.shown = env.shown /\ env'.sent = env.sent
  BY <1>1 DEF CopyInv, Envs
<1>4. CopyWorld' = CopyWorld /\ (AllEnded <=> AllEnded')
  BY <1>2, <1>3 DEF CopyWorld, AllEnded
<1>5. Fine(CopyWorld, env, copyloop)'
  BY Zenon, <1>2, <1>3, <1>4 DEF CopyInv, Fine, OutboundWay, InboundWay
<1> QED BY <1>2, <1>3, <1>4, <1>5 DEF CopyInv

\* A step of the copy, of a signal or of the other ends.
LEMMA CopyingInv ==
    ASSUME CopyInv,
           CopyLoop \/ CopyInterrupted \/ CopyInputs \/ CopyOutputs \/ SocketShutDown \/ SocketError
    PROVE  CopyInv'
BY CopyReturnsInv, CopyPollsInv, CopyServesInv, CopyInterruptedInv, TypedInv, SentInv,
   InputEndsInv, SocketEndsInv, TakenInv, ShownInv, ShutDownInv, SocketErrorInv
   DEF CopyLoop, CopyInputs, CopyOutputs

\* Such a step throws only when the connection is lost; and after that the other ends
\* leave what the loop has.
LEMMA ThrowingInv ==
    ASSUME CopyInv, ThrowsOnlyIfLost, main' = main,
           \/ CopyLoop \/ CopyInterrupted \/ CopyInputs \/ CopyOutputs
           \/ main.program # "tcp_native" /\ SocketShutDown
           \/ main.program = "tcp_native" /\ SocketError
    PROVE  ThrowsOnlyIfLost'
<1>1. /\ copyloop \in Loops /\ env \in Envs
      /\ fds \in [{"stdin", "socketOut", "socketIn", "stdout"} -> Fd]
  BY DEF CopyInv, Fine, CopyWorld, CopyWorlds
<1>2. CASE CopyReturns \/ CopyPolls \/ CopyInterrupted
  <2>1. copyloop'.pc \in {"returned", "serve"}
    BY <1>1, <1>2 DEF CopyReturns, CopyPolls, CopyInterrupted, Loops
  <2> QED BY <2>1 DEF ThrowsOnlyIfLost
<1>3. CASE CopyServes
  <2>1. copyloop'.pc = "thrown" => env'.lost /\ fds'.socketOut.shut /\ copy'.outbound.buff # <<>>
    BY <1>3, CopyServesInv DEF Refused, CopyWorld
  <2> QED BY <2>1 DEF ThrowsOnlyIfLost
<1>4. CASE CopyInputs \/ CopyOutputs \/ SocketShutDown
  <2>1. copy' = copy /\ copyloop' = copyloop
    BY <1>4 DEF CopyInputs, CopyOutputs, SocketShutDown, Gives, Ends, Takes
  <2>2. env.lost => env'.lost
    BY <1>1, <1>4 DEF CopyInputs, CopyOutputs, SocketShutDown, Gives, Ends, Takes, Envs
  <2>3. fds.socketOut.shut => fds'.socketOut.shut
    BY Zenon, <1>1, <1>4 DEF CopyInputs, CopyOutputs, SocketShutDown, Gives, Ends, Takes, Fd
  <2> QED BY <2>1, <2>2, <2>3 DEF ThrowsOnlyIfLost
<1>5. CASE main.program = "tcp_native" /\ SocketError
  BY <1>5, SocketErrorInv DEF ThrowsOnlyIfLost
<1> QED BY <1>2, <1>3, <1>4, <1>5 DEF CopyLoop

\* The reading of the command line and the end of main() leave it.
LEMMA ThrowsUnchanged ==
    ASSUME ThrowsOnlyIfLost, UNCHANGED copyVars, main'.program = main.program
    PROVE  ThrowsOnlyIfLost'
BY DEF ThrowsOnlyIfLost, copyVars

\* The invariant holds when main() starts.
LEMMA AppInvInit == AppInit => AppInv
<1>1. SUFFICES ASSUME AppInit PROVE AppInv
  OBVIOUS
<1>2. LineInv
  BY <1>1, LineInit
<1>3. CopyInv
  BY Zenon, <1>1, CopyInitInv DEF AppInit
<1>4. PastCopy /\ ThrowsOnlyIfLost
  BY <1>1 DEF AppInit, CopyInit, PastCopy, ThrowsOnlyIfLost
<1> QED BY <1>2, <1>3, <1>4 DEF AppInv

\* Every step of the program, of its inputs and of its outputs keeps the invariant.
LEMMA AppInvNext == AppInv /\ [AppNext]_appVars => AppInv'
<1>1. SUFFICES ASSUME AppInv, [AppNext]_appVars PROVE AppInv'
  OBVIOUS
<1>2. /\ LineInv /\ CopyInv /\ PastCopy /\ ThrowsOnlyIfLost
      /\ main \in MainStates /\ argv \in Seq(Words) /\ curr \in Nat
  BY <1>1 DEF AppInv, LineInv
<1>3. CASE Start \/ Listen \/ Option \/ Help \/ Unrecognized \/ Positional
  <2>1. LineInv'
    BY <1>2, <1>3, StartLine, ListenLine, OptionLine, HelpLine, UnrecognizedLine, PositionalLine
  <2>2. UNCHANGED copyVars
    BY <1>3 DEF Start, Listen, Option, Help, Unrecognized, Positional, ParseStep
  <2>3. main.pc \in {"start", "options"}
    BY <1>3 DEF Start, Listen, Option, Help, Unrecognized, Positional, MoreOptions, At
  <2>4. main'.pc \notin {"wait_until_closed", "success"} /\ main'.program = main.program
    <3>1. CASE Start
      BY <1>2, <3>1 DEF Start, MainStates
    <3>2. CASE Listen
      BY <1>2, <2>3, <3>2 DEF Listen, MainStates
    <3>3. CASE Option
      BY <1>2, <2>3, <3>3 DEF Option, Goto, MainStates
    <3>4. CASE Help \/ Unrecognized
      BY <1>2, <3>4 DEF Help, Unrecognized, Goto, MainStates
    <3>5. CASE Positional
      BY <1>2, <3>5 DEF Positional, MainStates
    <3> QED BY <1>3, <3>1, <3>2, <3>3, <3>4, <3>5
  <2> QED BY <1>2, <2>1, <2>2, <2>4, CopyUnchanged, ThrowsUnchanged DEF AppInv, PastCopy
<1>4. CASE OpenSocket
  <2>1. PICK pc \in {"copy", "failure"} : main' = [main EXCEPT !.pc = pc, !.config = NoConfig]
    BY Zenon, <1>4 DEF OpenSocket
  <2>2. main' \in MainStates /\ main'.pc = pc /\ main'.program = main.program
    <3>1. NoConfig \in [listen : BOOLEAN, values : SUBSET Int, host : Int, port : Int]
      BY DEF NoConfig
    <3> QED BY Zenon, <1>2, <2>1, <3>1 DEF MainStates
  <2>3. argv' \in Seq(Words) /\ curr' \in Nat
    BY <1>4, EmptySeq DEF OpenSocket
  <2>4. LineInv'
    BY <1>2, <2>2, <2>3, LineBehind
  <2>5. ThrowsOnlyIfLost'
    <3>1. copy' = copy /\ fds' = fds /\ copyloop' = copyloop /\ env'.lost = env.lost
      BY <1>2, <1>4 DEF OpenSocket, CopyInv, Envs
    <3> QED BY <1>2, <2>2, <3>1 DEF ThrowsOnlyIfLost
  <2> QED BY <1>2, <1>4, <2>2, <2>4, <2>5, OpenCopy DEF AppInv, PastCopy
<1>5. CASE CopyStep \/ CopySignal \/ Inputs \/ Outputs \/ Loses
  <2>1. main' = main /\ argv' = argv /\ curr' = curr /\ main.pc = "copy"
    BY <1>5 DEF CopyStep, CopySignal, Inputs, Outputs, Loses, Copying, At
  <2>2. LineInv'
    BY <1>2, <2>1, LineBehind
  <2>3. CopyInv'
    BY <1>2, <1>5, CopyingInv DEF CopyStep, CopySignal, Inputs, Outputs, Loses
  <2>4. ThrowsOnlyIfLost'
    BY <1>2, <1>5, <2>1, ThrowingInv DEF CopyStep, CopySignal, Inputs, Outputs, Loses
  <2> QED BY <2>1, <2>2, <2>3, <2>4 DEF AppInv, PastCopy
<1>6. CASE AfterCopy
  <2>1. UNCHANGED copyVars /\ argv' = argv /\ curr' = curr /\ copyloop' = copyloop
    BY <1>6 DEF AfterCopy, copyVars
  <2>2. /\ main' \in MainStates /\ main'.program = main.program
        /\ \/ main'.pc = "failure"
           \/ main'.pc \in {"success", "wait_until_closed"} /\ copyloop.pc = "returned"
    BY <1>2, <1>6 DEF AfterCopy, Goto, MainStates
  <2>3. LineInv'
    BY <1>2, <2>1, <2>2, LineBehind
  <2> QED BY <1>2, <2>1, <2>2, <2>3, CopyUnchanged, ThrowsUnchanged DEF AppInv, PastCopy
<1>7. CASE WaitUntilClosed
  <2>1. UNCHANGED copyVars /\ argv' = argv /\ curr' = curr /\ copyloop' = copyloop
    BY <1>7 DEF WaitUntilClosed, copyVars
  <2>2. /\ copyloop.pc = "returned" /\ main' \in MainStates /\ main'.pc = "success"
        /\ main'.program = main.program
    BY <1>2, <1>7 DEF WaitUntilClosed, Goto, MainStates, PastCopy, At
  <2>3. LineInv'
    BY <1>2, <2>1, <2>2, LineBehind
  <2> QED BY <1>2, <2>1, <2>2, <2>3, CopyUnchanged, ThrowsUnchanged DEF AppInv, PastCopy
<1>8. CASE UNCHANGED appVars
  <2>1. UNCHANGED copyVars /\ argv' = argv /\ curr' = curr /\ main' = main /\ copyloop' = copyloop
    BY <1>8 DEF appVars, copyVars
  <2>2. CopyInv' /\ PastCopy' /\ ThrowsOnlyIfLost'
    BY <1>2, <2>1, CopyUnchanged, ThrowsUnchanged DEF PastCopy
  <2>3. LineInv'
    <3>1. \A t : Reading(t)' <=> Reading(t)
      BY <2>1 DEF Reading
    <3>2. CommandLineAsRead'
      <4>1. CommandLineAsRead
        BY <1>2 DEF LineInv
      <4>2. {t \in SUBSET (1 .. Len(argv') - 2) : Reading(t)'}
              = {t \in SUBSET (1 .. Len(argv) - 2) : Reading(t)}
        BY <2>1, <3>1
      <4> QED BY Zenon, <2>1, <4>1, <4>2 DEF CommandLineAsRead, At
    <3>3. \A t : (ReadUpTo(t, curr)' <=> ReadUpTo(t, curr)) /\ (ConfigAsRead(t)' <=> ConfigAsRead(t))
      BY <2>1 DEF ReadUpTo, ConfigAsRead
    <3>4. \A t : OnlyReading(t, curr)' <=> OnlyReading(t, curr)
      BY <2>1, <3>1 DEF OnlyReading
    <3> QED BY <1>2, <2>1, <3>2, <3>3, <3>4 DEF LineInv, At
  <2> QED BY <2>2, <2>3 DEF AppInv
<1> QED BY <1>1, <1>3, <1>4, <1>5, <1>6, <1>7, <1>8 DEF AppNext, MainStep
\* The invariant of the programs, for every command line and all the copy carries.
LEMMA AppInvariant == AppSpec => []AppInv
BY AppInvInit, AppInvNext, PTL DEF AppSpec

\* bidirectional_stream_copy() throws only when the connection is lost: a rule is called
\* only when its descriptor can be read or written without blocking, no write follows the
\* program's own shutdown of the socket or its close of the output, and no callback is a
\* busy wait.
THEOREM CopyThrowsOnlyIfLost == AppSpec => []ThrowsOnlyIfLost
<1>1. AppInv => ThrowsOnlyIfLost
  BY DEF AppInv
<1> QED BY <1>1, AppInvariant, PTL

\* Three sequences one after the other.
LEMMA JoinThree ==
    ASSUME NEW p \in Seq(Nat), NEW q \in Seq(Nat), NEW r \in Seq(Nat), NEW k \in Nat,
           FromStream(p, k), FromStream(q, k + Len(p)), FromStream(r, k + Len(p) + Len(q))
    PROVE  /\ Len(p \o q \o r) = Len(p) + Len(q) + Len(r)
           /\ FromStream(p \o q \o r, k)
<1>1. /\ p \o q \in Seq(Nat) /\ Len(p \o q) = Len(p) + Len(q) /\ FromStream(p \o q, k)
  BY JoinFacts
<1>2. Len(p) \in Nat /\ Len(q) \in Nat
  BY LenProperties
<1>3. k + (Len(p) + Len(q)) = k + Len(p) + Len(q)
  BY <1>2
<1>4. FromStream(r, k + Len(p \o q))
  BY <1>1, <1>3
<1>5. /\ Len((p \o q) \o r) = Len(p \o q) + Len(r) /\ FromStream((p \o q) \o r, k)
  BY Zenon, <1>1, <1>4, JoinFacts
<1> QED BY <1>1, <1>5

\* One way of the copy, as CopiesAll says it.
Path(lost, in, stream, out, taken, given) ==
    LET path == out.data \o stream.buff \o in.data
    IN  /\ taken + Len(path) = given
        /\ \A i \in 1 .. Len(path) : path[i] = taken + i - 1
        /\ out.shut /\ ~lost => in.shut /\ stream.buff \o in.data = <<>>

\* A way that carries is such a path.
LEMMA CarriedPath ==
    ASSUME NEW lost, NEW in, NEW stream, NEW out, NEW done, NEW taken, NEW given,
           Carries(lost, in, stream, out, done, taken, given)
    PROVE  Path(lost, in, stream, out, taken, given)
<1> DEFINE path == out.data \o stream.buff \o in.data
<1>1. /\ in \in Fd /\ out \in Fd /\ stream \in CopyStream /\ taken \in Nat
      /\ FromStream(out.data, taken) /\ FromStream(stream.buff, taken + Len(out.data))
      /\ FromStream(in.data, taken + Len(out.data) + Len(stream.buff))
      /\ taken + Len(out.data) + Len(stream.buff) + Len(in.data) = given
      /\ ~lost /\ stream.isInputEnd => in.shut /\ in.data = <<>>
      /\ ~lost /\ out.shut => StreamEof(stream)
  BY Zenon DEF Carries, Orderly
<1>2. /\ out.data \in Seq(Nat) /\ stream.buff \in Seq(Nat) /\ in.data \in Seq(Nat)
      /\ Len(out.data) \in Nat /\ Len(stream.buff) \in Nat /\ Len(in.data) \in Nat
  BY <1>1, CarriedLengths
<1>3. Len(path) = Len(out.data) + Len(stream.buff) + Len(in.data) /\ FromStream(path, taken)
  BY Zenon, <1>1, <1>2, JoinThree
<1>4. taken + Len(path) = given
  <2> DEFINE a == Len(out.data)
             b == Len(stream.buff)
             c == Len(in.data)
  <2>1. /\ Len(path) = a + b + c /\ taken + a + b + c = given
        /\ a \in Nat /\ b \in Nat /\ c \in Nat /\ taken \in Nat
    BY Zenon, <1>1, <1>2, <1>3
  <2> HIDE DEF a, b, c, path
  <2> QED BY <2>1
<1>5. out.shut /\ ~lost => in.shut /\ stream.buff \o in.data = <<>>
  BY <1>1, EmptySeq, ConcatEmptySeq DEF StreamEof
<1> QED BY Zenon, <1>3, <1>4, <1>5 DEF Path, FromStream

\* Every byte read from one side is written to the other, once and in order, and each
\* output is shut down or closed only when all of its input is written, or because the
\* connection is lost.
THEOREM CopyCarriesAll == AppSpec => []CopiesAll
<1>1. AppInv => CopiesAll
  <2>1. SUFFICES ASSUME AppInv PROVE CopiesAll
    OBVIOUS
  <2>2. /\ Carries(env.lost, fds.stdin, copy.outbound, fds.socketOut, copy.outbound_shutdown, env.taken,
                   env.typed)
        /\ Carries(FALSE, fds.socketIn, copy.inbound, fds.stdout, copy.inbound_shutdown, env.shown,
                   env.sent)
    BY ZenonT(30), <2>1 DEF AppInv, CopyInv, Fine, OutboundWay, InboundWay, CopyWorld
  <2> DEFINE c1 == <<"stdin", "typed", "outbound", "socketOut", "taken">>
             c2 == <<"socketIn", "sent", "inbound", "stdout", "shown">>
             Way(c) == LET path == fds[c[4]].data \o copy[c[3]].buff \o fds[c[1]].data
                       IN  /\ env[c[5]] + Len(path) = env[c[2]]
                           /\ \A i \in 1 .. Len(path) : path[i] = env[c[5]] + i - 1
                           /\ fds[c[4]].shut /\ ~(c[4] = "socketOut" /\ env.lost) =>
                                 fds[c[1]].shut /\ copy[c[3]].buff \o fds[c[1]].data = <<>>
  <2>3. Way(c1)
    <3>1. c1[1] = "stdin" /\ c1[2] = "typed" /\ c1[3] = "outbound" /\ c1[4] = "socketOut" /\ c1[5] = "taken"
      OBVIOUS
    <3>2. Path(env.lost, fds.stdin, copy.outbound, fds.socketOut, env.taken, env.typed)
      BY Zenon, <2>2, CarriedPath
    <3> HIDE DEF c1
    <3> QED BY Zenon, <3>1, <3>2 DEF Path
  <2>4. Way(c2)
    <3>1. c2[1] = "socketIn" /\ c2[2] = "sent" /\ c2[3] = "inbound" /\ c2[4] = "stdout" /\ c2[5] = "shown"
      OBVIOUS
    <3>2. Path(FALSE, fds.socketIn, copy.inbound, fds.stdout, env.shown, env.sent)
      BY Zenon, <2>2, CarriedPath
    <3> HIDE DEF c2
    <3> QED BY Zenon, <3>1, <3>2 DEF Path
  <2>5. CopiesAll <=> Way(c1) /\ Way(c2)
    BY Zenon DEF CopiesAll
  <2> HIDE DEF Way, c1, c2
  <2> QED BY <2>3, <2>4, <2>5
<1> QED BY <1>1, AppInvariant, PTL

\* A command line is taken exactly when it can be read option by option before its last
\* two arguments, and then as that reading says; no other reading exists.  A program that
\* listens takes its port from the last argument and reads over the host.
THEOREM CommandLineReading == AppSpec => []CommandLineAsRead
<1>1. AppInv => CommandLineAsRead
  BY DEF AppInv, LineInv
<1> QED BY <1>1, AppInvariant, PTL

\* The program waits for the connection to close, and ends well, only when both
\* directions are over, unless a signal ended the copy or the connection was lost.
THEOREM ProgramWaitsAtTheEnd == AppSpec => []WaitsAtTheEnd
<1>1. AppInv => WaitsAtTheEnd
  BY DEF AppInv, CopyInv, PastCopy, WaitsAtTheEnd, AllEnded
<1> QED BY <1>1, AppInvariant, PTL
=============================================================================
