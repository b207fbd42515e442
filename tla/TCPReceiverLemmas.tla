-------------------------- MODULE TCPReceiverLemmas --------------------------
(***************************************************************************)
(* What the operations of StreamReassembler and TCPReceiver keep, for      *)
(* every capacity, length of the stream, modulus and cut into segments:    *)
(* lemmas about StreamReassemblerOps and TCPReceiverOps that the proofs of *)
(* the reassembler, the receiver and two connections share.                *)
(***************************************************************************)
EXTENDS TCPReceiverOps, BasicLemmas, FiniteSets, FiniteSetTheorems

Pair == [first : Nat, second : Seq(Nat)]

PairEnd(p) == p.first + Len(p.second)

\* The indices that the first k pairs of a list stand for.
CoveredTo(list, k) ==
    {n \in Nat : \E i \in 1 .. k : list[i].first <= n /\ n < PairEnd(list[i])}

Covered(list) == CoveredTo(list, Len(list))

\* Pairs with the right bytes, in increasing order and without overlap.
Chain(list) ==
    /\ list \in Seq(Pair)
    /\ \A i \in 1 .. Len(list) : FromStream(list[i].second, list[i].first)
    /\ \A i, j \in 1 .. Len(list) : i < j => PairEnd(list[i]) <= list[j].first

\* The last pair is the sentinel and no other is empty.
Sealed(list) ==
    /\ list # <<>>
    /\ list[Len(list)] = Sentinel
    /\ \A i \in 1 .. Len(list) - 1 : list[i].second # <<>>

\* The fields of a pair.
LEMMA PairFacts ==
    ASSUME NEW p \in Pair
    PROVE  /\ p.first \in Nat /\ p.second \in Seq(Nat) /\ Len(p.second) \in Nat
           /\ PairEnd(p) \in Nat /\ p.first <= PairEnd(p)
           /\ p.second # <<>> => p.first < PairEnd(p)
<1>1. p.first \in Nat /\ p.second \in Seq(Nat)
  BY DEF Pair
<1>2. Len(p.second) \in Nat /\ (p.second # <<>> => Len(p.second) > 0)
  BY <1>1, LenProperties, EmptySeq
<1> QED BY <1>1, <1>2 DEF PairEnd

\* The pair at the end of the list.
LEMMA SentinelFacts ==
    /\ Sentinel \in Pair /\ Sentinel.first = SIZE_MAX /\ SIZE_MAX \in Nat
    /\ PairEnd(Sentinel) = SIZE_MAX /\ Sentinel.second = <<>>
    /\ FromStream(Sentinel.second, Sentinel.first)
<1>1. <<>> \in Seq(Nat) /\ Len(<<>>) = 0 /\ SIZE_MAX \in Nat
  BY EmptySeq, SizeAssumption
<1>2. Sentinel.first = SIZE_MAX /\ Sentinel.second = <<>>
  BY DEF Sentinel
<1>3. Sentinel \in Pair
  BY <1>1 DEF Sentinel, Pair
<1> QED BY <1>1, <1>2, <1>3 DEF PairEnd, FromStream

\* The pairs of a list.
LEMMA ChainFacts ==
    ASSUME NEW list, Chain(list)
    PROVE  /\ Len(list) \in Nat
           /\ \A i \in 1 .. Len(list) :
                 /\ list[i] \in Pair /\ list[i].first \in Nat /\ PairEnd(list[i]) \in Nat
                 /\ list[i].first <= PairEnd(list[i])
           /\ Covered(list) \subseteq Nat
<1>1. list \in Seq(Pair) /\ Len(list) \in Nat
  BY LenProperties DEF Chain
<1>2. \A i \in 1 .. Len(list) : list[i] \in Pair
  BY <1>1, ElementOfSeq
<1> QED BY <1>1, <1>2, PairFacts DEF Covered, CoveredTo

\* Adding an interval that is new adds its length.
LEMMA AddInterval ==
    ASSUME NEW S, IsFiniteSet(S), NEW a \in Nat, NEW b \in Nat, a <= b,
           S \cap (a .. b - 1) = {}
    PROVE  /\ IsFiniteSet(S \cup (a .. b - 1))
           /\ Cardinality(S \cup (a .. b - 1)) = Cardinality(S) + (b - a)
           /\ Cardinality(S) \in Nat
<1> DEFINE T == a .. b - 1
<1>1. IsFiniteSet(T) /\ Cardinality(T) = b - a
  <2>1. a \in Int /\ b - 1 \in Int
    OBVIOUS
  <2>2. IsFiniteSet(T) /\ Cardinality(T) = IF a > b - 1 THEN 0 ELSE (b - 1) - a + 1
    BY <2>1, FS_Interval
  <2> QED BY <2>2
<1>2. Cardinality(S) \in Nat
  BY FS_CardinalityType
<1>3. /\ IsFiniteSet(S \cup T)
      /\ Cardinality(S \cup T) = Cardinality(S) + Cardinality(T) - Cardinality(S \cap T)
  BY Zenon, <1>1, FS_Union
<1>4. Cardinality(S \cap T) = 0
  BY FS_EmptySet
<1> QED BY <1>1, <1>2, <1>3, <1>4

\* The first k pairs stand for a finite set, and the next adds its length.
LEMMA CoveredGrows ==
    ASSUME NEW list, Chain(list), NEW k \in 1 .. Len(list)
    PROVE  LET T == list[k].first .. PairEnd(list[k]) - 1
           IN  /\ CoveredTo(list, k) = CoveredTo(list, k - 1) \cup T
               /\ \A n \in CoveredTo(list, k - 1) : n < list[k].first
               /\ IsFiniteSet(CoveredTo(list, k - 1)) /\ IsFiniteSet(CoveredTo(list, k))
               /\ Cardinality(CoveredTo(list, k)) =
                     Cardinality(CoveredTo(list, k - 1)) + Len(list[k].second)
               /\ Cardinality(CoveredTo(list, k - 1)) \in Nat
<1> DEFINE p == list[k]
           T == p.first .. PairEnd(p) - 1
           S == CoveredTo(list, k - 1)
<1>1. /\ Len(list) \in Nat /\ k \in Nat
      /\ \A i \in 1 .. Len(list) :
            list[i] \in Pair /\ list[i].first \in Nat /\ PairEnd(list[i]) \in Nat
  BY ChainFacts
<1>2. \A i \in 1 .. k - 1 : PairEnd(list[i]) <= p.first
  BY <1>1 DEF Chain
<1>3. CoveredTo(list, k) = S \cup T
  BY <1>1 DEF CoveredTo
<1>4. \A n \in S : n \in Nat /\ n < p.first
  <2>1. ASSUME NEW n \in S PROVE n \in Nat /\ n < p.first
    <3>1. n \in Nat
      BY DEF CoveredTo
    <3>2. PICK i \in 1 .. k - 1 : list[i].first <= n /\ n < PairEnd(list[i])
      BY DEF CoveredTo
    <3>3. i \in 1 .. Len(list)
      BY <1>1
    <3> QED BY <1>1, <1>2, <3>1, <3>2, <3>3
  <2> QED BY <2>1
<1>5. IsFiniteSet(S)
  <2>1. p.first \in Nat /\ S \in SUBSET Nat /\ \A n \in S : n <= p.first
    BY <1>1, <1>4
  <2> HIDE DEF S, p
  <2> QED BY Zenon, <2>1, FS_BoundedSetOfNaturals
<1>6. S \cap T = {}
  BY <1>1, <1>4
<1>7. /\ p.first \in Nat /\ PairEnd(p) \in Nat /\ p.first <= PairEnd(p)
      /\ PairEnd(p) - p.first = Len(p.second)
  BY <1>1, PairFacts DEF PairEnd
<1> HIDE DEF S, p
<1>8. /\ IsFiniteSet(S \cup T)
      /\ Cardinality(S \cup T) = Cardinality(S) + (PairEnd(p) - p.first)
      /\ Cardinality(S) \in Nat
  BY Zenon, <1>5, <1>6, <1>7, AddInterval
<1> QED BY <1>3, <1>4, <1>5, <1>7, <1>8 DEF S, p

\* The set a list stands for is finite.
LEMMA CoveredFinite ==
    ASSUME NEW list, Chain(list)
    PROVE  IsFiniteSet(Covered(list)) /\ Cardinality(Covered(list)) \in Nat
<1>1. Len(list) \in Nat
  BY ChainFacts
<1>2. CASE Len(list) = 0
  <2>1. Covered(list) = {}
    BY <1>2 DEF Covered, CoveredTo
  <2> QED BY <2>1, FS_EmptySet
<1>3. CASE Len(list) > 0
  <2>1. Len(list) \in 1 .. Len(list)
    BY <1>1, <1>3
  <2>2. IsFiniteSet(Covered(list))
    BY <2>1, CoveredGrows DEF Covered
  <2> QED BY <2>2, FS_CardinalityType
<1> QED BY <1>1, <1>2, <1>3

\* A pair that starts where all others have ended goes to the end of the list.
LEMMA AppendPair ==
    ASSUME NEW list, Chain(list), NEW p \in Pair, FromStream(p.second, p.first),
           \A i \in 1 .. Len(list) : PairEnd(list[i]) <= p.first
    PROVE  LET both == Append(list, p)
           IN  /\ Chain(both)
               /\ Len(both) = Len(list) + 1 /\ both[Len(both)] = p /\ both # <<>>
               /\ \A i \in 1 .. Len(list) : both[i] = list[i]
               /\ Covered(both) = Covered(list) \cup (p.first .. PairEnd(p) - 1)
               /\ Cardinality(Covered(both)) = Cardinality(Covered(list)) + Len(p.second)
<1> DEFINE both == Append(list, p)
           n == Len(list)
<1>1. n \in Nat /\ list \in Seq(Pair)
  BY ChainFacts DEF Chain
<1>2. /\ both \in Seq(Pair) /\ both # <<>> /\ Len(both) = n + 1
      /\ \A i \in 1 .. n : both[i] = list[i]
      /\ both[n + 1] = p
  BY <1>1, AppendProperties
<1> HIDE DEF both, n
<1>3. Chain(both)
  <2>1. \A i \in 1 .. n + 1 : FromStream(both[i].second, both[i].first)
    BY <1>1, <1>2 DEF Chain, n
  <2>2. \A i, j \in 1 .. n + 1 : i < j => PairEnd(both[i]) <= both[j].first
    BY <1>1, <1>2 DEF Chain, n
  <2> QED BY <1>2, <2>1, <2>2 DEF Chain
<1>4. CoveredTo(both, n) = Covered(list)
  BY <1>1, <1>2 DEF Covered, CoveredTo, n
<1>5. n + 1 \in 1 .. Len(both) /\ (n + 1) - 1 = n
  BY <1>1, <1>2
<1>6. /\ CoveredTo(both, n + 1) = CoveredTo(both, n) \cup (p.first .. PairEnd(p) - 1)
      /\ Cardinality(CoveredTo(both, n + 1)) = Cardinality(CoveredTo(both, n)) + Len(p.second)
  BY <1>2, <1>3, <1>5, CoveredGrows
<1> QED BY <1>2, <1>3, <1>4, <1>6 DEF Covered, both, n

\* The list without its first pair.
LEMMA TailPair ==
    ASSUME NEW list, Chain(list), list # <<>>
    PROVE  LET rest == Tail(list)
               p == list[1]
           IN  /\ Chain(rest) /\ Len(rest) = Len(list) - 1 /\ Len(list) > 0
               /\ \A i \in 1 .. Len(rest) : rest[i] = list[i + 1]
               /\ Covered(list) = Covered(rest) \cup (p.first .. PairEnd(p) - 1)
               /\ Cardinality(Covered(list)) = Cardinality(Covered(rest)) + Len(p.second)
<1> DEFINE rest == Tail(list)
           p == list[1]
           n == Len(list)
           T == p.first .. PairEnd(p) - 1
<1>1. n \in Nat /\ list \in Seq(Pair) /\ n > 0
  BY ChainFacts, EmptySeq DEF Chain
<1>2. /\ rest \in Seq(Pair) /\ Len(rest) = n - 1
      /\ \A i \in 1 .. n - 1 : rest[i] = list[i + 1]
  BY <1>1, HeadTailProperties
<1>3. \A i \in 1 .. n : /\ list[i] \in Pair /\ list[i].first \in Nat
                        /\ PairEnd(list[i]) \in Nat
  BY ChainFacts
<1>4. /\ p \in Pair /\ p.first \in Nat /\ PairEnd(p) \in Nat /\ p.first <= PairEnd(p)
      /\ PairEnd(p) - p.first = Len(p.second)
  BY <1>1, <1>3, PairFacts DEF PairEnd
<1> HIDE DEF rest, n
<1>5. Chain(rest)
  <2>1. \A i \in 1 .. n - 1 : FromStream(rest[i].second, rest[i].first)
    BY <1>1, <1>2 DEF Chain, n
  <2>2. \A i, j \in 1 .. n - 1 : i < j => PairEnd(rest[i]) <= rest[j].first
    BY <1>1, <1>2 DEF Chain, n
  <2> QED BY <1>2, <2>1, <2>2 DEF Chain
<1>6. Covered(list) = Covered(rest) \cup T
  <2>1. ASSUME NEW x \in Covered(list) PROVE x \in Covered(rest) \cup T
    <3>1. x \in Nat
      BY DEF Covered, CoveredTo
    <3>2. PICK i \in 1 .. n : list[i].first <= x /\ x < PairEnd(list[i])
      BY DEF Covered, CoveredTo, n
    <3>3. CASE i = 1
      BY <1>4, <3>1, <3>2, <3>3
    <3>4. CASE i > 1
      <4>1. i - 1 \in 1 .. n - 1 /\ rest[i - 1] = list[i]
        BY <1>1, <1>2, <3>4
      <4> QED BY <1>2, <3>1, <3>2, <4>1 DEF Covered, CoveredTo
    <3> QED BY <1>1, <3>3, <3>4
  <2>2. ASSUME NEW x \in Covered(rest) PROVE x \in Covered(list)
    <3>1. x \in Nat
      BY DEF Covered, CoveredTo
    <3>2. PICK i \in 1 .. n - 1 : rest[i].first <= x /\ x < PairEnd(rest[i])
      BY <1>2 DEF Covered, CoveredTo
    <3>3. i + 1 \in 1 .. n /\ rest[i] = list[i + 1]
      BY <1>1, <1>2
    <3> QED BY <3>1, <3>2, <3>3 DEF Covered, CoveredTo, n
  <2>3. ASSUME NEW x \in T PROVE x \in Covered(list)
    <3>1. x \in Nat /\ list[1].first <= x /\ x < PairEnd(list[1]) /\ 1 \in 1 .. n
      BY <1>1, <1>4
    <3> QED BY <3>1 DEF Covered, CoveredTo, n
  <2> QED BY <2>1, <2>2, <2>3
<1>7. Covered(rest) \cap T = {}
  <2>1. SUFFICES ASSUME NEW x \in Covered(rest), x \in T PROVE FALSE
    OBVIOUS
  <2>2. x \in Nat
    BY DEF Covered, CoveredTo
  <2>3. PICK i \in 1 .. n - 1 : rest[i].first <= x /\ x < PairEnd(rest[i])
    BY <1>2 DEF Covered, CoveredTo
  <2>4. rest[i] = list[i + 1] /\ i + 1 \in 1 .. n /\ 1 \in 1 .. n /\ 1 < i + 1
    BY <1>1, <1>2
  <2>5. PairEnd(p) <= rest[i].first /\ rest[i].first \in Nat
    BY <1>3, <2>4 DEF Chain, n
  <2> QED BY <1>4, <2>1, <2>2, <2>3, <2>5
<1>8. IsFiniteSet(Covered(rest))
  BY <1>5, CoveredFinite
<1> HIDE DEF p
<1>9. Cardinality(Covered(rest) \cup T) = Cardinality(Covered(rest)) + (PairEnd(p) - p.first)
  BY Zenon, <1>4, <1>7, <1>8, AddInterval
<1> QED BY <1>1, <1>2, <1>4, <1>5, <1>6, <1>9 DEF rest, n, p

\* What substr() cuts from bytes of the stream.
LEMMA SubstrFacts ==
    ASSUME NEW data \in Seq(Nat), NEW index \in Nat, FromStream(data, index),
           NEW from \in Nat, from <= Len(data), NEW count \in Nat
    PROVE  LET s == Substr(data, from, count)
           IN  /\ s \in Seq(Nat) /\ FromStream(s, index + from)
               /\ Len(s) = Lesser(from + count, Len(data)) - from
<1> DEFINE m == Lesser(from + count, Len(data))
           s == Substr(data, from, count)
<1>1. Len(data) \in Nat
  BY LenProperties
<1>2. m \in Nat /\ from <= m /\ m <= Len(data)
  BY <1>1 DEF Lesser
<1>3. \A i \in from + 1 .. m : data[i] \in Nat
  BY <1>1, <1>2, ElementOfSeq
<1>4. s = SubSeq(data, from + 1, m)
  BY DEF Substr
<1> HIDE DEF m, s
<1>5. /\ s \in Seq(Nat)
      /\ Len(s) = IF from + 1 <= m THEN m - (from + 1) + 1 ELSE 0
      /\ \A i \in 1 .. m - (from + 1) + 1 : s[i] = data[from + 1 + i - 1]
  BY <1>2, <1>3, <1>4, SubSeqProperties
<1>6. Len(s) = m - from
  BY <1>2, <1>5
<1>7. ASSUME NEW j \in 1 .. m - from PROVE s[j] = index + from + j - 1
  <2>1. s[j] = data[from + j] /\ from + j \in 1 .. Len(data)
    BY <1>1, <1>2, <1>5
  <2> QED BY <1>2, <2>1 DEF FromStream
<1> QED BY <1>5, <1>6, <1>7 DEF FromStream, m, s

\* One pair of push_unassembledString(): where the substring has not ended yet and
\* the pair starts at or after its first byte.
Gap(acc, it, data, index) ==
    Substr(data, Greater(acc.pos, index) - index, it.first - Greater(acc.pos, index))

PushState == [list : Seq(Pair), pos : Nat, added : Nat]

\* The bytes of the substring before the pair are of the stream.
LEMMA GapFacts ==
    ASSUME NEW acc \in PushState, NEW it \in Pair, NEW data \in Seq(Nat), NEW index \in Nat,
           FromStream(data, index),
           acc.pos < index + Len(data), it.first >= Greater(acc.pos, index)
    PROVE  LET pos == Greater(acc.pos, index)
               temp == Gap(acc, it, data, index)
           IN  /\ temp \in Seq(Nat) /\ Len(temp) \in Nat /\ FromStream(temp, pos)
               /\ pos \in Nat /\ pos + Len(temp) = Lesser(it.first, index + Len(data))
<1> DEFINE pos == Greater(acc.pos, index)
           temp == Gap(acc, it, data, index)
<1>1. it.first \in Nat /\ acc.pos \in Nat /\ Len(data) \in Nat
  BY PairFacts, LenProperties DEF PushState
<1>2. /\ pos \in Nat /\ pos - index \in Nat /\ index + (pos - index) = pos
      /\ it.first - pos \in Nat /\ pos - index <= Len(data)
  BY <1>1 DEF Greater
<1>3. temp = Substr(data, pos - index, it.first - pos)
  BY DEF Gap
<1> HIDE DEF pos, temp
<1>4. /\ temp \in Seq(Nat) /\ FromStream(temp, index + (pos - index))
      /\ Len(temp) = Lesser((pos - index) + (it.first - pos), Len(data)) - (pos - index)
  BY Zenon, <1>2, <1>3, SubstrFacts
<1>5. pos + Len(temp) = Lesser(it.first, index + Len(data))
  BY <1>1, <1>2, <1>4 DEF Lesser
<1> QED BY <1>2, <1>4, <1>5, LenProperties DEF pos, temp

\* What one iteration does to the list, pair by pair.
LEMMA PushStepCases ==
    ASSUME NEW acc \in PushState, NEW it \in Pair, NEW data \in Seq(Nat), NEW index \in Nat,
           FromStream(data, index)
    PROVE  LET u == PushStep(acc, it, data, index)
               pos == Greater(acc.pos, index)
               temp == Gap(acc, it, data, index)
               done == acc.pos >= index + Len(data)
           IN  /\ u \in PushState
               /\ done \/ it.first < index =>
                     u.list = Append(acc.list, it) /\ u.added = acc.added
               /\ done => u.pos = acc.pos
               /\ ~done /\ it.first < index => u.pos = PairEnd(it)
               /\ ~done /\ it.first >= pos =>
                     /\ u.pos = PairEnd(it) /\ u.added = acc.added + Len(temp)
                     /\ u.list = IF temp = <<>> THEN Append(acc.list, it)
                                 ELSE Append(Append(acc.list, [first |-> pos, second |-> temp]), it)
<1> DEFINE u == PushStep(acc, it, data, index)
           pos == Greater(acc.pos, index)
           temp == Gap(acc, it, data, index)
           done == acc.pos >= index + Len(data)
           piece == [first |-> pos, second |-> temp]
           gap == IF temp = <<>> THEN <<>> ELSE <<piece>>
<1>1. /\ acc.list \in Seq(Pair) /\ acc.pos \in Nat /\ acc.added \in Nat
      /\ it.first \in Nat /\ PairEnd(it) \in Nat /\ Len(data) \in Nat
  BY PairFacts, LenProperties DEF PushState
<1>2. pos \in Nat /\ pos >= index
  BY <1>1 DEF Greater
<1>3. Append(acc.list, it) \in Seq(Pair)
  BY <1>1, AppendProperties
<1>4. u = IF done THEN [acc EXCEPT !.list = Append(acc.list, it)]
          ELSE IF it.first < index
          THEN [acc EXCEPT !.list = Append(acc.list, it), !.pos = PairEnd(it)]
          ELSE IF it.first < pos
          THEN [acc EXCEPT !.list = Append(acc.list, it), !.pos = pos]
          ELSE [list |-> acc.list \o Append(gap, it), pos |-> PairEnd(it),
                added |-> acc.added + Len(temp)]
  BY DEF PushStep, Gap, PairEnd
<1>5. CASE done
  BY Zenon, <1>1, <1>3, <1>4, <1>5 DEF PushState
<1>6. CASE ~done /\ it.first < index
  <2> HIDE DEF temp, gap, pos
  <2>1. u = [acc EXCEPT !.list = Append(acc.list, it), !.pos = PairEnd(it)]
    BY <1>4, <1>6
  <2> HIDE DEF u
  <2>2. u \in PushState /\ u.list = Append(acc.list, it) /\ u.added = acc.added /\ u.pos = PairEnd(it)
    BY Zenon, <1>1, <1>3, <2>1 DEF PushState
  <2> QED BY <1>1, <1>2, <1>6, <2>2 DEF u, pos
<1>7. CASE ~done /\ ~(it.first < index) /\ it.first < pos
  <2> HIDE DEF temp, gap, pos
  <2>1. u = [acc EXCEPT !.list = Append(acc.list, it), !.pos = pos]
    BY <1>4, <1>7
  <2> HIDE DEF u
  <2>2. u \in PushState
    BY Zenon, <1>1, <1>2, <1>3, <2>1 DEF PushState
  <2> QED BY <1>1, <1>2, <1>7, <2>2 DEF u, pos
<1>8. CASE ~done /\ it.first >= pos
  <2>1. temp \in Seq(Nat) /\ Len(temp) \in Nat
    BY <1>1, <1>8, GapFacts
  <2>2. piece \in Pair
    BY <1>2, <2>1 DEF Pair
  <2>3. acc.list \o Append(gap, it) =
            IF temp = <<>> THEN Append(acc.list, it) ELSE Append(Append(acc.list, piece), it)
    <3> HIDE DEF temp, piece
    <3>1. CASE temp = <<>>
      <4>1. Append(<<>>, it) = <<>> \o <<it>> /\ <<it>> \in Seq(Pair)
        BY EmptySeq, AppendIsConcat, AppendProperties
      <4>2. <<>> \o <<it>> = <<it>>
        BY <4>1, ConcatEmptySeq
      <4>3. Append(acc.list, it) = acc.list \o <<it>>
        BY <1>1, AppendIsConcat
      <4> QED BY <3>1, <4>1, <4>2, <4>3
    <3>2. CASE temp # <<>>
      <4>1. <<it>> \in Seq(Pair) /\ <<piece>> \in Seq(Pair)
        BY <2>2
      <4>2. Append(<<piece>>, it) = <<piece>> \o <<it>>
        BY <4>1, AppendIsConcat
      <4>3. Append(acc.list, piece) = acc.list \o <<piece>> /\ Append(acc.list, piece) \in Seq(Pair)
        BY Zenon, <1>1, <2>2, AppendIsConcat, AppendProperties
      <4>4. Append(Append(acc.list, piece), it) = (acc.list \o <<piece>>) \o <<it>>
        BY <4>3, AppendIsConcat
      <4>5. (acc.list \o <<piece>>) \o <<it>> = acc.list \o (<<piece>> \o <<it>>)
        BY <1>1, <4>1, ConcatAssociative
      <4> QED BY Zenon, <3>2, <4>2, <4>4, <4>5
    <3> QED BY Zenon, <3>1, <3>2
  <2>4. acc.list \o Append(gap, it) \in Seq(Pair)
    <3> HIDE DEF temp, piece, gap
    <3>1. Append(acc.list, piece) \in Seq(Pair)
      BY <1>1, <2>2, AppendProperties
    <3>2. Append(Append(acc.list, piece), it) \in Seq(Pair)
      BY <3>1, AppendProperties
    <3> QED BY <1>3, <2>3, <3>2
  <2> HIDE DEF temp, piece, gap
  <2>5. u = [list |-> acc.list \o Append(gap, it), pos |-> PairEnd(it),
             added |-> acc.added + Len(temp)]
    BY <1>1, <1>2, <1>4, <1>8
  <2> HIDE DEF u
  <2>6. u \in PushState
    BY <1>1, <2>1, <2>4, <2>5 DEF PushState
  <2>7. u.list = acc.list \o Append(gap, it) /\ u.pos = PairEnd(it)
        /\ u.added = acc.added + Len(temp)
    BY Zenon, <2>5
  <2> QED BY <1>1, <1>2, <1>8, <2>3, <2>6, <2>7 DEF u, temp, piece
<1> QED BY <1>1, <1>2, <1>5, <1>6, <1>7, <1>8

\* The loop of push_unassembledString() exists.
LEMMA PushLoop ==
    ASSUME NEW list \in Seq(Pair), NEW data \in Seq(Nat), NEW index \in Nat,
           FromStream(data, index)
    PROVE  \E f : /\ f \in [0 .. Len(list) -> PushState]
                  /\ f[0] = [list |-> <<>>, pos |-> index, added |-> 0]
                  /\ \A k \in 1 .. Len(list) :
                        f[k] = PushStep(f[k - 1], list[k], data, index)
                  /\ PushUnassembledString(list, data, index) = f[Len(list)]
<1> DEFINE n == Len(list)
           s == [list |-> <<>>, pos |-> index, added |-> 0]
           Body(f) == [k \in 0 .. n |-> IF k = 0 THEN s
                                        ELSE PushStep(f[k - 1], list[k], data, index)]
           F == CHOOSE f : f = Body(f)
           g == [z \in (1 .. n) \X PushState |-> PushStep(z[2], list[z[1]], data, index)]
<1>1. n \in Nat /\ \A k \in 1 .. n : list[k] \in Pair
  BY LenProperties, ElementOfSeq
<1>2. s \in PushState
  BY EmptySeq DEF PushState
<1>3. g \in [(1 .. n) \X PushState -> PushState]
  <2>1. ASSUME NEW k \in 1 .. n, NEW acc \in PushState
        PROVE  PushStep(acc, list[k], data, index) \in PushState
    BY Zenon, <1>1, PushStepCases
  <2> QED BY <2>1
<1>4. PICK f : IsIndexedLoop(f, PushState, g, s, n)
  <2> HIDE DEF g, F, Body, s, n
  <2> QED BY Zenon, <1>1, <1>2, <1>3, IndexedLoopExists
<1> HIDE DEF n, s
<1>5. f = Body(f)
  <2>1. ASSUME NEW k \in 1 .. n PROVE f[k] = PushStep(f[k - 1], list[k], data, index)
    <3>1. f[k - 1] \in PushState
      BY <1>1, <1>4 DEF IsIndexedLoop
    <3>2. <<k, f[k - 1]>> \in (1 .. n) \X PushState
      BY <3>1
    <3> QED BY Zenon, <1>4, <3>2 DEF IsIndexedLoop
  <2> QED BY <1>1, <1>4, <2>1 DEF IsIndexedLoop
<1>6. F = Body(F)
  <2>1. \E h : h = Body(h)
    BY Zenon, <1>5
  <2> HIDE DEF Body
  <2> QED BY <2>1
<1>7. PushUnassembledString(list, data, index) = F[n]
  BY DEF PushUnassembledString, n, s
<1> HIDE DEF F
<1>8. F[0] = s /\ \A k \in 1 .. n : F[k] = PushStep(F[k - 1], list[k], data, index)
  BY <1>1, <1>6
<1>9. F \in [0 .. n -> PushState]
  <2> DEFINE Q == {z \in Nat \X PushState : TRUE}
  <2>1. F[0] \in PushState
    BY <1>2, <1>8
  <2>2. ASSUME NEW m \in 0 .. n PROVE F[m] \in PushState
    <3>1. ASSUME NEW k \in 1 .. m, F[k - 1] \in PushState PROVE F[k] \in PushState
      <4>1. k \in 1 .. n
        BY <1>1
      <4> QED BY <1>1, <1>8, <3>1, <4>1, PushStepCases, ZenonT(30)
    <3>2. m \in Nat
      OBVIOUS
    <3> QED BY <2>1, <3>1, <3>2, LoopStays
  <2>3. F = [k \in 0 .. n |-> F[k]]
    BY <1>6
  <2> QED BY <2>2, <2>3
<1> QED BY <1>7, <1>8, <1>9 DEF n, s

\* Where the k-th stored pair ends.
EndAt(list, k) == IF k = 0 THEN 0 ELSE PairEnd(list[k])

\* After k pairs of the stored list L, with a substring of the indices index .. last - 1:
\* the rebuilt list holds the k pairs and, of the substring, what lies before their end.
PushInv(L, index, last, k, acc) ==
    /\ Chain(acc.list)
    /\ acc.list = <<>> <=> k = 0
    /\ k > 0 => acc.list[Len(acc.list)] = L[k]
    /\ \A i \in 1 .. Len(acc.list) - 1 : acc.list[i].second # <<>>
    /\ \A i \in 1 .. Len(acc.list) : PairEnd(acc.list[i]) <= EndAt(L, k)
    /\ Covered(acc.list) = CoveredTo(L, k) \cup {n \in index .. last - 1 : n < EndAt(L, k)}
    /\ Cardinality(Covered(acc.list)) = Cardinality(CoveredTo(L, k)) + acc.added
    /\ IF acc.pos >= last THEN last <= index \/ last <= EndAt(L, k)
       ELSE Greater(acc.pos, index) = Greater(EndAt(L, k), index)

\* The pair goes behind the rebuilt list, whether or not a gap before it was filled.
Copied(L, k, list, both) ==
    /\ Chain(both) /\ both # <<>> /\ both[Len(both)] = L[k]
    /\ \A i \in 1 .. Len(both) - 1 : both[i].second # <<>>
    /\ \A i \in 1 .. Len(both) : PairEnd(both[i]) <= EndAt(L, k)
    /\ Covered(both) = Covered(list) \cup (L[k].first .. PairEnd(L[k]) - 1)
    /\ Cardinality(Covered(both)) = Cardinality(Covered(list)) + Len(L[k].second)

\* Without a gap the pair is all that is added.
LEMMA PushKeeps ==
    ASSUME NEW L, Chain(L), Sealed(L), NEW k \in 1 .. Len(L), NEW list, Chain(list),
           \A i \in 1 .. Len(list) : list[i].second # <<>>,
           \A i \in 1 .. Len(list) : PairEnd(list[i]) <= L[k].first
    PROVE  Copied(L, k, list, Append(list, L[k]))
<1> DEFINE p == L[k]
           both == Append(list, p)
<1>1. p \in Pair /\ FromStream(p.second, p.first) /\ k > 0
  BY ChainFacts DEF Chain
<1>2. p.first \in Nat /\ PairEnd(p) \in Nat /\ p.first <= PairEnd(p)
  BY <1>1, PairFacts
<1>3. Len(list) \in Nat /\ \A i \in 1 .. Len(list) : PairEnd(list[i]) \in Nat
  BY ChainFacts
<1>4. EndAt(L, k) = PairEnd(p)
  BY <1>1 DEF EndAt
<1> HIDE DEF p
<1>5. /\ Chain(both)
      /\ Len(both) = Len(list) + 1 /\ both[Len(both)] = p /\ both # <<>>
      /\ \A i \in 1 .. Len(list) : both[i] = list[i]
      /\ Covered(both) = Covered(list) \cup (p.first .. PairEnd(p) - 1)
      /\ Cardinality(Covered(both)) = Cardinality(Covered(list)) + Len(p.second)
  BY <1>1, AppendPair DEF p
<1> HIDE DEF both
<1>6. \A i \in 1 .. Len(both) - 1 : both[i].second # <<>>
  BY <1>3, <1>5 DEF p
<1>7. \A i \in 1 .. Len(both) : PairEnd(both[i]) <= PairEnd(p)
  BY <1>2, <1>3, <1>5 DEF p
<1> QED BY <1>4, <1>5, <1>6, <1>7 DEF both, p, Copied

\* One iteration preserves it.
LEMMA PushStepInv ==
    ASSUME NEW L, Chain(L), Sealed(L), NEW k \in 1 .. Len(L),
           NEW data \in Seq(Nat), NEW index \in Nat, FromStream(data, index),
           NEW acc \in PushState, PushInv(L, index, index + Len(data), k - 1, acc)
    PROVE  PushInv(L, index, index + Len(data), k, PushStep(acc, L[k], data, index))
<1> DEFINE last == index + Len(data)
           it == L[k]
           u == PushStep(acc, it, data, index)
           pos == Greater(acc.pos, index)
           temp == Gap(acc, it, data, index)
           e == EndAt(L, k - 1)
           piece == [first |-> pos, second |-> temp]
           New(x) == {n \in index .. last - 1 : n < x}
           T == it.first .. PairEnd(it) - 1
<1> SUFFICES PushInv(L, index, last, k, u)
  OBVIOUS
<1>1. /\ Len(data) \in Nat /\ last \in Nat /\ acc.pos \in Nat /\ acc.added \in Nat
      /\ k \in Nat /\ k > 0 /\ k - 1 \in Nat /\ Len(L) \in Nat
  BY LenProperties, ChainFacts DEF PushState
<1>2. /\ it \in Pair /\ it.first \in Nat /\ PairEnd(it) \in Nat /\ it.first <= PairEnd(it)
      /\ Len(it.second) \in Nat
  BY ChainFacts, PairFacts
<1>3. /\ e \in Nat /\ e <= it.first /\ EndAt(L, k) = PairEnd(it)
      /\ (k - 1 > 0 => L[k - 1].second # <<>>)
  <2>1. CASE k = 1
    BY <1>1, <1>2, <2>1 DEF EndAt
  <2>2. CASE k > 1
    <3>1. k - 1 \in 1 .. Len(L) /\ k - 1 < k /\ k - 1 \in 1 .. Len(L) - 1
      BY <1>1, <2>2
    <3>2. PairEnd(L[k - 1]) \in Nat
      BY <3>1, ChainFacts
    <3>3. PairEnd(L[k - 1]) <= L[k].first /\ L[k - 1].second # <<>>
      BY <1>1, <3>1 DEF Chain, Sealed
    <3> QED BY <1>1, <2>2, <3>2, <3>3 DEF EndAt
  <2> QED BY <1>1, <2>1, <2>2
<1>4. /\ CoveredTo(L, k) = CoveredTo(L, k - 1) \cup T
      /\ Cardinality(CoveredTo(L, k)) = Cardinality(CoveredTo(L, k - 1)) + Len(it.second)
      /\ Cardinality(CoveredTo(L, k - 1)) \in Nat
  BY CoveredGrows
<1>5. /\ u \in PushState
      /\ acc.pos >= last \/ it.first < index =>
            u.list = Append(acc.list, it) /\ u.added = acc.added
      /\ acc.pos >= last => u.pos = acc.pos
      /\ ~(acc.pos >= last) /\ it.first < index => u.pos = PairEnd(it)
      /\ ~(acc.pos >= last) /\ it.first >= pos =>
            /\ u.pos = PairEnd(it) /\ u.added = acc.added + Len(temp)
            /\ u.list = IF temp = <<>> THEN Append(acc.list, it)
                        ELSE Append(Append(acc.list, piece), it)
  BY <1>2, PushStepCases
<1>6. /\ Chain(acc.list) /\ Len(acc.list) \in Nat
      /\ \A i \in 1 .. Len(acc.list) : PairEnd(acc.list[i]) \in Nat /\ PairEnd(acc.list[i]) <= e
      /\ Covered(acc.list) = CoveredTo(L, k - 1) \cup New(e)
      /\ Cardinality(Covered(acc.list)) = Cardinality(CoveredTo(L, k - 1)) + acc.added
      /\ IF acc.pos >= last THEN last <= index \/ last <= e ELSE pos = Greater(e, index)
  BY ChainFacts DEF PushInv
<1>7. \A i \in 1 .. Len(acc.list) : acc.list[i].second # <<>>
  <2>1. CASE k - 1 = 0
    <3>1. Len(acc.list) = 0
      BY <2>1, EmptySeq DEF PushInv
    <3> QED BY <3>1
  <2>2. CASE k - 1 > 0
    <3>1. /\ acc.list[Len(acc.list)] = L[k - 1]
          /\ \A i \in 1 .. Len(acc.list) - 1 : acc.list[i].second # <<>>
      BY <2>2 DEF PushInv
    <3> QED BY <1>3, <1>6, <2>2, <3>1
  <2> QED BY <1>1, <2>1, <2>2
<1> HIDE DEF u, temp, piece, last, e, it, pos
<1>8. ASSUME NEW i \in 1 .. Len(acc.list) PROVE PairEnd(acc.list[i]) <= it.first
  <2> DEFINE z == PairEnd(acc.list[i])
  <2>1. z \in Nat /\ z <= e
    BY <1>6
  <2>2. e \in Nat /\ e <= it.first /\ it.first \in Nat
    BY <1>2, <1>3
  <2> HIDE DEF z
  <2>3. z <= it.first
    BY <2>1, <2>2
  <2> QED BY <2>3 DEF z
\* the pair alone is added
<1>9. ASSUME u.list = Append(acc.list, it), u.added = acc.added,
             New(PairEnd(it)) \subseteq New(e) \cup T
      PROVE  /\ Chain(u.list) /\ u.list # <<>> /\ u.list[Len(u.list)] = it
             /\ \A i \in 1 .. Len(u.list) - 1 : u.list[i].second # <<>>
             /\ \A i \in 1 .. Len(u.list) : PairEnd(u.list[i]) <= EndAt(L, k)
             /\ Covered(u.list) = CoveredTo(L, k) \cup New(PairEnd(it))
             /\ Cardinality(Covered(u.list)) = Cardinality(CoveredTo(L, k)) + u.added
  <2>1. /\ Chain(u.list) /\ u.list # <<>> /\ u.list[Len(u.list)] = it
        /\ \A i \in 1 .. Len(u.list) - 1 : u.list[i].second # <<>>
        /\ \A i \in 1 .. Len(u.list) : PairEnd(u.list[i]) <= EndAt(L, k)
        /\ Covered(u.list) = Covered(acc.list) \cup T
        /\ Cardinality(Covered(u.list)) = Cardinality(Covered(acc.list)) + Len(it.second)
    <3>1. Copied(L, k, acc.list, u.list)
      BY Zenon, <1>6, <1>7, <1>8, <1>9, PushKeeps DEF it
    <3> QED BY <3>1 DEF Copied, it
  <2>2. New(e) \subseteq New(PairEnd(it))
    BY <1>1, <1>2, <1>3
  <2>3. Covered(u.list) = CoveredTo(L, k) \cup New(PairEnd(it))
    <3> HIDE DEF New, T
    <3> QED BY <1>4, <1>6, <1>9, <2>1, <2>2
  <2>4. Cardinality(Covered(u.list)) = Cardinality(CoveredTo(L, k)) + u.added
    BY <1>1, <1>2, <1>4, <1>6, <1>9, <2>1
  <2> QED BY <2>1, <2>3, <2>4
<1>14. ASSUME Chain(u.list), u.list # <<>>, u.list[Len(u.list)] = it,
             \A i \in 1 .. Len(u.list) - 1 : u.list[i].second # <<>>,
             \A i \in 1 .. Len(u.list) : PairEnd(u.list[i]) <= EndAt(L, k),
             Covered(u.list) = CoveredTo(L, k) \cup New(PairEnd(it)),
             Cardinality(Covered(u.list)) = Cardinality(CoveredTo(L, k)) + u.added,
             IF u.pos >= last THEN last <= index \/ last <= EndAt(L, k)
             ELSE Greater(u.pos, index) = Greater(EndAt(L, k), index)
      PROVE  PushInv(L, index, last, k, u)
  <2>1. Covered(u.list) = CoveredTo(L, k) \cup {n \in index .. last - 1 : n < EndAt(L, k)}
    BY <1>3, <1>14
  <2>2. k > 0 /\ u.list[Len(u.list)] = L[k]
    BY <1>1, <1>14 DEF it
  <2>3. u.list = <<>> <=> k = 0
    BY <1>1, <1>14
  <2> QED BY <1>14, <2>1, <2>2, <2>3 DEF PushInv
<1>10. CASE acc.pos >= last
  <2>1. New(PairEnd(it)) \subseteq New(e) \cup T
    BY <1>1, <1>2, <1>3, <1>6, <1>10, SMTT(30)
  <2>2. IF u.pos >= last THEN last <= index \/ last <= EndAt(L, k)
        ELSE Greater(u.pos, index) = Greater(EndAt(L, k), index)
    BY <1>1, <1>2, <1>3, <1>5, <1>6, <1>10
  <2> QED BY <1>14, <1>5, <1>9, <1>10, <2>1, <2>2
<1>11. CASE ~(acc.pos >= last) /\ it.first < index
  <2>1. New(PairEnd(it)) \subseteq New(e) \cup T
    BY <1>1, <1>2, <1>11, SMTT(30)
  <2>2. IF u.pos >= last THEN last <= index \/ last <= EndAt(L, k)
        ELSE Greater(u.pos, index) = Greater(EndAt(L, k), index)
    BY <1>1, <1>2, <1>3, <1>5, <1>11
  <2> QED BY Zenon, <1>14, <1>5, <1>9, <1>11, <2>1, <2>2
<1>12. CASE ~(acc.pos >= last) /\ it.first >= index
  <2>1. pos \in Nat /\ it.first >= pos /\ pos >= index /\ pos >= e /\ pos = Greater(e, index)
    <3>1. pos = Greater(e, index)
      BY <1>6, <1>12
    <3> QED BY <1>1, <1>2, <1>3, <1>12, <3>1 DEF Greater
  <2>2. /\ temp \in Seq(Nat) /\ Len(temp) \in Nat /\ FromStream(temp, pos)
        /\ pos + Len(temp) = Lesser(it.first, last)
    <3>1. acc.pos < index + Len(data) /\ it.first >= Greater(acc.pos, index)
      BY <1>1, <1>12, <2>1 DEF last, pos
    <3> QED BY <1>2, <3>1, GapFacts DEF temp, last, pos
  <2>3. /\ u.pos = PairEnd(it) /\ u.added = acc.added + Len(temp)
        /\ u.list = IF temp = <<>> THEN Append(acc.list, it)
                    ELSE Append(Append(acc.list, piece), it)
    BY <1>5, <1>12, <2>1
  <2>4. New(PairEnd(it)) \subseteq New(e) \cup T \cup (pos .. pos + Len(temp) - 1)
    <3>1. ASSUME NEW x \in New(PairEnd(it)) PROVE x \in New(e) \cup T \cup (pos .. pos + Len(temp) - 1)
      <4>1. x \in Int /\ index <= x /\ x <= last - 1 /\ x < PairEnd(it)
        BY <1>1
      <4>2. CASE x < e
        BY <4>2
      <4>3. CASE x >= it.first
        BY <1>2, <4>1, <4>3
      <4>4. CASE x >= e /\ x < it.first
        <5>1. pos <= x
          BY <1>3, <2>1, <4>1, <4>4 DEF Greater
        <5>2. x <= pos + Len(temp) - 1
          BY <1>1, <1>2, <2>1, <2>2, <4>1, <4>4, SMTT(30) DEF Lesser
        <5>3. x \in pos .. pos + Len(temp) - 1
          BY <2>1, <2>2, <4>1, <5>1, <5>2
        <5> QED BY <5>3
      <4> QED BY <1>2, <1>3, <4>1, <4>2, <4>3, <4>4
    <3> QED BY <3>1
  <2>5. pos .. pos + Len(temp) - 1 \subseteq New(PairEnd(it))
    <3>1. pos + Len(temp) <= last /\ pos + Len(temp) <= PairEnd(it)
      BY <1>1, <1>2, <2>2 DEF Lesser
    <3>2. ASSUME NEW x \in pos .. pos + Len(temp) - 1 PROVE x \in New(PairEnd(it))
      <4>1. x \in Int /\ pos <= x /\ x <= pos + Len(temp) - 1
        BY <2>1, <2>2
      <4>2. index <= x
        BY <2>1, <4>1
      <4>3. x <= last - 1
        BY <1>1, <2>1, <2>2, <3>1, <4>1
      <4>4. x < PairEnd(it)
        BY <1>2, <2>1, <2>2, <3>1, <4>1
      <4> QED BY <1>1, <4>1, <4>2, <4>3, <4>4
    <3> QED BY <3>2
  <2>6. IF u.pos >= last THEN last <= index \/ last <= EndAt(L, k)
        ELSE Greater(u.pos, index) = Greater(EndAt(L, k), index)
    BY <1>1, <1>2, <1>3, <2>3
  <2>7. CASE temp = <<>>
    <3>1. Len(temp) = 0
      BY <2>7
    <3>2. New(PairEnd(it)) \subseteq New(e) \cup T
      BY <2>1, <2>4, <3>1
    <3>3. u.list = Append(acc.list, it) /\ u.added = acc.added
      BY <1>1, <2>3, <2>7, <3>1
    <3> QED BY Zenon, <1>14, <1>9, <2>6, <3>2, <3>3
  <2>8. CASE temp # <<>>
    <3> DEFINE mid == Append(acc.list, piece)
               I == pos .. pos + Len(temp) - 1
    <3>1. /\ piece \in Pair /\ piece.first = pos /\ piece.second = temp
          /\ PairEnd(piece) = pos + Len(temp)
      BY <2>1, <2>2 DEF piece, Pair, PairEnd
    <3>2. \A i \in 1 .. Len(acc.list) : PairEnd(acc.list[i]) <= piece.first
      BY <1>3, <1>6, <2>1, <3>1
    <3>3. /\ Chain(mid) /\ Len(mid) = Len(acc.list) + 1 /\ mid[Len(mid)] = piece
          /\ \A i \in 1 .. Len(acc.list) : mid[i] = acc.list[i]
          /\ Covered(mid) = Covered(acc.list) \cup I
          /\ Cardinality(Covered(mid)) = Cardinality(Covered(acc.list)) + Len(temp)
      <4>1. FromStream(piece.second, piece.first)
        BY <2>2, <3>1
      <4>2. /\ Chain(mid) /\ Len(mid) = Len(acc.list) + 1 /\ mid[Len(mid)] = piece
            /\ \A i \in 1 .. Len(acc.list) : mid[i] = acc.list[i]
            /\ Covered(mid) = Covered(acc.list) \cup (piece.first .. PairEnd(piece) - 1)
            /\ Cardinality(Covered(mid)) = Cardinality(Covered(acc.list)) + Len(piece.second)
        BY Zenon, <1>6, <3>1, <3>2, <4>1, AppendPair
      <4>3. piece.first .. PairEnd(piece) - 1 = I
        <5> DEFINE a == pos
                   d == Len(temp)
        <5>1. piece.first = a /\ PairEnd(piece) = a + d /\ a \in Nat /\ d \in Nat /\ I = a .. a + d - 1
          BY <2>1, <2>2, <3>1
        <5> HIDE DEF a, d
        <5> QED BY <5>1
      <4>4. Len(piece.second) = Len(temp)
        BY <3>1
      <4> HIDE DEF mid, I
      <4> QED BY Zenon, <4>2, <4>3, <4>4
    <3>4. u.list = Append(mid, it)
      BY Zenon, <2>3, <2>8
    <3> HIDE DEF mid
    <3>5. /\ \A i \in 1 .. Len(mid) : mid[i].second # <<>>
          /\ \A i \in 1 .. Len(mid) : PairEnd(mid[i]) <= it.first
      <4>1. PairEnd(piece) <= it.first /\ piece.second # <<>>
        BY <1>1, <1>2, <2>1, <2>2, <2>8, <3>1, SMTT(30) DEF Lesser
      <4>2. ASSUME NEW i \in 1 .. Len(mid) PROVE mid[i].second # <<>> /\ PairEnd(mid[i]) <= it.first
        <5>1. CASE i = Len(mid)
          BY <3>3, <4>1, <5>1
        <5>2. CASE i # Len(mid)
          <6>1. i \in 1 .. Len(acc.list)
            BY <1>6, <3>3, <5>2
          <6> QED BY Zenon, <1>7, <1>8, <3>3, <6>1
        <5> QED BY <5>1, <5>2
      <4> QED BY <4>2
    <3>6. /\ Chain(u.list) /\ u.list # <<>> /\ u.list[Len(u.list)] = it
          /\ \A i \in 1 .. Len(u.list) - 1 : u.list[i].second # <<>>
          /\ \A i \in 1 .. Len(u.list) : PairEnd(u.list[i]) <= EndAt(L, k)
          /\ Covered(u.list) = Covered(mid) \cup T
          /\ Cardinality(Covered(u.list)) = Cardinality(Covered(mid)) + Len(it.second)
      <4>1. Copied(L, k, mid, u.list)
        BY ZenonT(30), <3>3, <3>4, <3>5, PushKeeps DEF it
      <4> QED BY <4>1 DEF Copied, it
    <3>7. New(e) \subseteq New(PairEnd(it))
      BY <1>1, <1>2, <1>3
    <3>8. Covered(u.list) = CoveredTo(L, k) \cup New(PairEnd(it))
      <4> HIDE DEF New, T, I
      <4>1. New(PairEnd(it)) \subseteq New(e) \cup T \cup I /\ I \subseteq New(PairEnd(it))
        BY <2>4, <2>5 DEF I
      <4> QED BY Zenon, <1>4, <1>6, <3>3, <3>6, <3>7, <4>1
    <3>9. Cardinality(Covered(u.list)) = Cardinality(CoveredTo(L, k)) + u.added
      <4>1. u.added = acc.added + Len(temp)
        BY <2>3
      <4>2. /\ Cardinality(Covered(u.list)) = Cardinality(Covered(mid)) + Len(it.second)
            /\ Cardinality(Covered(mid)) = Cardinality(Covered(acc.list)) + Len(temp)
            /\ Cardinality(Covered(acc.list)) = Cardinality(CoveredTo(L, k - 1)) + acc.added
        BY <1>6, <3>3, <3>6
      <4> QED BY <1>1, <1>2, <1>4, <2>2, <4>1, <4>2, SMTT(30)
    <3> QED BY <1>14, <2>6, <3>6, <3>8, <3>9
  <2> QED BY <2>7, <2>8
<1> QED BY <1>1, <1>2, <1>10, <1>11, <1>12

\* push_unassembledString() adds the indices of the substring to the set the list
\* stands for, and counts those that were new.
LEMMA PushFacts ==
    ASSUME NEW L, Chain(L), Sealed(L), NEW data \in Seq(Nat), NEW index \in Nat,
           FromStream(data, index), index + Len(data) <= SIZE_MAX
    PROVE  LET p == PushUnassembledString(L, data, index)
           IN  /\ Chain(p.list) /\ Sealed(p.list) /\ p.added \in Nat
               /\ Covered(p.list) = Covered(L) \cup (index .. index + Len(data) - 1)
               /\ Cardinality(Covered(p.list)) = Cardinality(Covered(L)) + p.added
<1> DEFINE n == Len(L)
           last == index + Len(data)
           S == {z \in (0 .. n) \X PushState : PushInv(L, index, last, z[1], z[2])}
<1>1. /\ L \in Seq(Pair) /\ n \in Nat /\ n > 0 /\ Len(data) \in Nat /\ last \in Nat
      /\ L[n] = Sentinel
  BY ChainFacts, LenProperties, EmptySeq DEF Chain, Sealed
<1>2. PICK f : /\ f \in [0 .. n -> PushState]
               /\ f[0] = [list |-> <<>>, pos |-> index, added |-> 0]
               /\ \A k \in 1 .. n : f[k] = PushStep(f[k - 1], L[k], data, index)
               /\ PushUnassembledString(L, data, index) = f[n]
  BY Zenon, <1>1, PushLoop
<1>3. PushInv(L, index, last, 0, f[0])
  <2> DEFINE s == f[0]
  <2>1. s.list = <<>> /\ s.pos = index /\ s.added = 0 /\ Len(s.list) = 0
    BY <1>2
  <2> HIDE DEF s
  <2>2. Chain(s.list)
    BY <2>1 DEF Chain
  <2>3. Covered(s.list) = {} /\ CoveredTo(L, 0) = {}
    BY <2>1 DEF Covered, CoveredTo
  <2>4. {m \in index .. last - 1 : m < EndAt(L, 0)} = {}
    BY DEF EndAt
  <2>6. IF s.pos >= last THEN last <= index \/ last <= EndAt(L, 0)
        ELSE Greater(s.pos, index) = Greater(EndAt(L, 0), index)
    BY <1>1, <2>1 DEF EndAt, Greater
  <2> HIDE DEF last
  <2>7. Cardinality(Covered(s.list)) = Cardinality(CoveredTo(L, 0)) + s.added
    <3>1. Cardinality(Covered(s.list)) = 0 /\ Cardinality(CoveredTo(L, 0)) = 0
      BY ZenonT(30), <2>3, FS_EmptySet
    <3> QED BY <2>1, <3>1
  <2>8. Covered(s.list) = CoveredTo(L, 0) \cup {m \in index .. last - 1 : m < EndAt(L, 0)}
    BY <2>3, <2>4
  <2>9. /\ \A i \in 1 .. Len(s.list) - 1 : s.list[i].second # <<>>
        /\ \A i \in 1 .. Len(s.list) : PairEnd(s.list[i]) <= EndAt(L, 0)
    BY <2>1
  <2>10. PushInv(L, index, last, 0, s)
    BY <2>1, <2>2, <2>6, <2>7, <2>8, <2>9 DEF PushInv
  <2> QED BY <2>10 DEF s
<1>4. <<0, f[0]>> \in S
  BY <1>1, <1>2, <1>3
<1>5. ASSUME NEW k \in 1 .. n, <<k - 1, f[k - 1]>> \in S PROVE <<k, f[k]>> \in S
  <2>1. f[k - 1] \in PushState /\ PushInv(L, index, last, k - 1, f[k - 1])
    BY <1>5
  <2>2. PushInv(L, index, last, k, f[k])
    BY <1>2, <2>1, PushStepInv
  <2>3. k \in 0 .. n
    BY <1>1
  <2>4. f[k] \in PushState
    BY <1>2, <2>3
  <2> QED BY <2>2, <2>3, <2>4
<1>6. <<n, f[n]>> \in S
  <2> HIDE DEF S, n
  <2> QED BY <1>1, <1>4, <1>5, LoopStaysIndexed
<1>7. PushInv(L, index, last, n, f[n]) /\ f[n] \in PushState
  BY <1>6
<1>8. EndAt(L, n) = SIZE_MAX /\ SIZE_MAX \in Nat
  BY <1>1, SentinelFacts DEF EndAt
<1>9. {m \in index .. last - 1 : m < EndAt(L, n)} = index .. last - 1
  BY <1>1, <1>8
<1> HIDE DEF n, last
<1>10. /\ Chain(f[n].list) /\ f[n].list # <<>> /\ f[n].list[Len(f[n].list)] = L[n]
       /\ \A i \in 1 .. Len(f[n].list) - 1 : f[n].list[i].second # <<>>
       /\ Covered(f[n].list) = CoveredTo(L, n) \cup (index .. last - 1)
       /\ Cardinality(Covered(f[n].list)) = Cardinality(CoveredTo(L, n)) + f[n].added
  BY <1>1, <1>7, <1>9 DEF PushInv
<1>11. Sealed(f[n].list) /\ f[n].added \in Nat
  BY <1>1, <1>7, <1>10 DEF Sealed, PushState
<1> QED BY <1>2, <1>10, <1>11 DEF Covered, n, last

PopState == {acc \in [list : Seq(Pair), temp : Seq(Nat)] : Chain(acc.list) /\ Sealed(acc.list)}

\* The fields of a state of the loop, and that only its last pair is at SIZE_MAX.
LEMMA PopStateFacts ==
    ASSUME NEW acc \in PopState
    PROVE  /\ acc.list \in Seq(Pair) /\ acc.temp \in Seq(Nat) /\ Len(acc.temp) \in Nat
           /\ Chain(acc.list) /\ Sealed(acc.list) /\ Len(acc.list) \in Nat /\ Len(acc.list) > 0
           /\ acc.list[1] \in Pair
           /\ acc.list[1].first < SIZE_MAX => Len(acc.list) > 1
<1>1. /\ acc.list \in Seq(Pair) /\ acc.temp \in Seq(Nat)
      /\ Chain(acc.list) /\ Sealed(acc.list)
  BY DEF PopState
<1>2. Len(acc.temp) \in Nat /\ Len(acc.list) \in Nat /\ Len(acc.list) > 0
  BY <1>1, LenProperties, EmptySeq DEF Sealed
<1>3. acc.list[1] \in Pair
  BY <1>1, <1>2, ElementOfSeq
<1>4. ASSUME Len(acc.list) = 1 PROVE acc.list[1].first = SIZE_MAX
  BY <1>1, <1>4, SentinelFacts DEF Sealed
<1>5. acc.list[1].first < SIZE_MAX => Len(acc.list) > 1
  <2>1. Len(acc.list) \in Nat /\ Len(acc.list) > 0
    BY <1>2
  <2>2. Len(acc.list) = 1 => acc.list[1].first = SIZE_MAX
    BY <1>4
  <2> DEFINE m == Len(acc.list)
             x == acc.list[1].first
  <2> HIDE DEF m, x
  <2>3. m \in Nat /\ m > 0 /\ (m = 1 => x = SIZE_MAX) /\ SIZE_MAX \in Nat
    BY <2>1, <2>2, SizeAssumption DEF m, x
  <2>4. x < SIZE_MAX => m > 1
    BY <2>3
  <2> QED BY <2>4 DEF m, x
<1> QED BY <1>1, <1>2, <1>3, <1>5

\* One iteration of pop_unassembledString() removes the first pair or changes nothing.
LEMMA PopStepCases ==
    ASSUME NEW acc \in PopState, NEW fu \in Nat
    PROVE  LET u == PopStep(acc, fu)
           IN  /\ u \in PopState
               /\ Popable(acc, fu) =>
                     /\ u.list = Tail(acc.list) /\ u.temp = acc.temp \o acc.list[1].second
                     /\ acc.list[1].first = fu + Len(acc.temp)
               /\ ~Popable(acc, fu) => u = acc
<1> DEFINE u == PopStep(acc, fu)
           rest == Tail(acc.list)
           both == acc.temp \o acc.list[1].second
<1>1. /\ acc.list \in Seq(Pair) /\ acc.temp \in Seq(Nat)
      /\ Chain(acc.list) /\ Sealed(acc.list) /\ Len(acc.list) \in Nat /\ Len(acc.list) > 0
      /\ acc.list[1] \in Pair
      /\ acc.list[1].first < SIZE_MAX => Len(acc.list) > 1
  BY PopStateFacts
<1>2. CASE Popable(acc, fu)
  <2>1. u = [list |-> rest, temp |-> both]
    BY <1>2 DEF PopStep
  <2>2. /\ acc.list[1].first < SIZE_MAX /\ acc.list[1].first = fu + Len(acc.temp)
        /\ Len(acc.list) > 1
    BY <1>1, <1>2 DEF Popable
  <2>3. both \in Seq(Nat)
    BY <1>1, PairFacts, ConcatProperties
  <2>4. /\ Chain(rest) /\ Len(rest) = Len(acc.list) - 1
        /\ \A i \in 1 .. Len(rest) : rest[i] = acc.list[i + 1]
    BY <1>1, TailPair DEF Sealed
  <2> HIDE DEF rest, both
  <2>5. rest[Len(rest)] = Sentinel /\ rest # <<>>
    <3>1. Len(rest) \in 1 .. Len(rest) /\ Len(rest) + 1 = Len(acc.list)
      BY <1>1, <2>2, <2>4
    <3>2. rest[Len(rest)] = acc.list[Len(acc.list)]
      BY <2>4, <3>1
    <3> QED BY <1>1, <3>1, <3>2 DEF Sealed
  <2>6. \A i \in 1 .. Len(rest) - 1 : rest[i].second # <<>>
    <3>1. ASSUME NEW i \in 1 .. Len(rest) - 1 PROVE rest[i].second # <<>>
      <4>1. i \in 1 .. Len(rest) /\ i + 1 \in 1 .. Len(acc.list) - 1
        BY <1>1, <2>2, <2>4
      <4> QED BY <1>1, <2>4, <4>1 DEF Sealed
    <3> QED BY <3>1
  <2>7. Sealed(rest) /\ rest \in Seq(Pair)
    BY <2>4, <2>5, <2>6 DEF Sealed, Chain
  <2> HIDE DEF u
  <2>8. u \in PopState
    BY <2>1, <2>3, <2>4, <2>7 DEF PopState
  <2>9. u.list = rest /\ u.temp = both
    BY <2>1
  <2>10. /\ u.list = Tail(acc.list) /\ u.temp = acc.temp \o acc.list[1].second
         /\ acc.list[1].first = fu + Len(acc.temp)
    BY <2>2, <2>9 DEF rest, both
  <2> QED BY <1>2, <2>8, <2>10 DEF u
<1>3. CASE ~Popable(acc, fu)
  BY Zenon, <1>3 DEF PopStep
<1> QED BY Zenon, <1>2, <1>3

\* The loop of pop_unassembledString() exists.
LEMMA PopLoop ==
    ASSUME NEW list, Chain(list), Sealed(list), NEW fu \in Nat
    PROVE  \E f : /\ f \in [0 .. Len(list) -> PopState]
                  /\ f[0] = [list |-> list, temp |-> <<>>]
                  /\ \A k \in 1 .. Len(list) : f[k] = PopStep(f[k - 1], fu)
                  /\ PopUnassembledString(list, fu) = f[Len(list)]
<1> DEFINE n == Len(list)
           s == [list |-> list, temp |-> <<>>]
           Body(f) == [k \in 0 .. n |-> IF k = 0 THEN s ELSE PopStep(f[k - 1], fu)]
           F == CHOOSE f : f = Body(f)
           g == [acc \in PopState |-> PopStep(acc, fu)]
<1>1. n \in Nat
  BY ChainFacts
<1>2. s \in PopState
  <2>1. list \in Seq(Pair) /\ <<>> \in Seq(Nat)
    BY EmptySeq DEF Chain
  <2> QED BY <2>1 DEF PopState
<1>3. g \in [PopState -> PopState]
  <2>1. ASSUME NEW acc \in PopState PROVE PopStep(acc, fu) \in PopState
    BY ZenonT(30), PopStepCases
  <2> QED BY <2>1
<1>4. PICK f : IsLoop(f, PopState, g, s, n)
  <2> HIDE DEF g, F, Body, s, n
  <2> QED BY <1>1, <1>2, <1>3, LoopExists
<1> HIDE DEF n, s
<1>5. f = Body(f)
  <2>1. ASSUME NEW k \in 1 .. n PROVE f[k] = PopStep(f[k - 1], fu)
    <3>1. f[k - 1] \in PopState
      BY <1>1, <1>4 DEF IsLoop
    <3> QED BY Zenon, <1>4, <3>1 DEF IsLoop
  <2> QED BY <1>1, <1>4, <2>1 DEF IsLoop
<1>6. F = Body(F)
  <2>1. \E h : h = Body(h)
    BY Zenon, <1>5
  <2> HIDE DEF Body
  <2> QED BY <2>1
<1>7. PopUnassembledString(list, fu) = F[n]
  BY DEF PopUnassembledString, n, s
<1> HIDE DEF F
<1>8. F[0] = s /\ \A k \in 1 .. n : F[k] = PopStep(F[k - 1], fu)
  BY <1>1, <1>6
<1>9. F \in [0 .. n -> PopState]
  <2>1. F[0] \in PopState
    BY <1>2, <1>8
  <2>2. ASSUME NEW m \in 0 .. n PROVE F[m] \in PopState
    <3>1. ASSUME NEW k \in 1 .. m, F[k - 1] \in PopState PROVE F[k] \in PopState
      <4>1. k \in 1 .. n
        BY <1>1
      <4> QED BY Zenon, <1>8, <3>1, <4>1, PopStepCases
    <3>2. m \in Nat
      OBVIOUS
    <3> QED BY <2>1, <3>1, <3>2, LoopStays
  <2>3. F = [k \in 0 .. n |-> F[k]]
    BY <1>6
  <2> QED BY <2>2, <2>3
<1> QED BY <1>7, <1>8, <1>9 DEF n, s

\* After k pairs of L: what was taken out is the stream from fu on, what is left lies
\* behind it, and the two together are L.
PopInv(L, fu, k, acc) ==
    /\ FromStream(acc.temp, fu)
    /\ \A i \in 1 .. Len(acc.list) : acc.list[i].first >= fu + Len(acc.temp)
    /\ Covered(L) = Covered(acc.list) \cup (fu .. fu + Len(acc.temp) - 1)
    /\ Cardinality(Covered(L)) = Cardinality(Covered(acc.list)) + Len(acc.temp)
    /\ Popable(acc, fu) => Len(acc.list) = Len(L) - k

\* One iteration preserves it.
LEMMA PopStepInv ==
    ASSUME NEW L, Chain(L), NEW fu \in Nat, NEW k \in 1 .. Len(L),
           NEW acc \in PopState, PopInv(L, fu, k - 1, acc)
    PROVE  PopInv(L, fu, k, PopStep(acc, fu))
<1> DEFINE u == PopStep(acc, fu)
           p == acc.list[1]
           x == fu + Len(acc.temp)
           y == fu + Len(u.temp)
<1>1. /\ acc.list \in Seq(Pair) /\ acc.temp \in Seq(Nat) /\ Len(acc.temp) \in Nat
      /\ Chain(acc.list) /\ Sealed(acc.list) /\ Len(acc.list) \in Nat /\ Len(acc.list) > 0
      /\ p \in Pair /\ Len(L) \in Nat /\ k \in Nat
  BY PopStateFacts, ChainFacts
<1>2. /\ u \in PopState
      /\ Popable(acc, fu) =>
            u.list = Tail(acc.list) /\ u.temp = acc.temp \o p.second /\ p.first = x
      /\ ~Popable(acc, fu) => u = acc
  BY Zenon, PopStepCases
<1>3. CASE ~Popable(acc, fu)
  <2>1. u = acc
    BY <1>2, <1>3
  <2> HIDE DEF u
  <2>2. PopInv(L, fu, k, u)
    BY <1>3, <2>1 DEF PopInv
  <2> QED BY <2>2 DEF u
<1>4. CASE Popable(acc, fu)
  <2>1. u.list = Tail(acc.list) /\ u.temp = acc.temp \o p.second /\ p.first = x
    BY Zenon, <1>2, <1>4
  <2>2. /\ p.second \in Seq(Nat) /\ Len(p.second) \in Nat /\ p.first \in Nat
        /\ PairEnd(p) = p.first + Len(p.second)
    BY <1>1, PairFacts DEF PairEnd
  <2>3. FromStream(p.second, p.first)
    BY <1>1 DEF Chain
  <2> HIDE DEF u, p
  <2> DEFINE old == acc.temp
             new == p.second
             a == Len(old)
             d == Len(new)
  <2>3a. old \in Seq(Nat) /\ new \in Seq(Nat) /\ a \in Nat /\ d \in Nat
    BY <1>1, <2>2
  <2>3b. u.temp = old \o new
    BY <2>1
  <2> HIDE DEF old, new
  <2>4. /\ Len(u.temp) = a + d
        /\ \A i \in 1 .. a + d : u.temp[i] = IF i <= a THEN old[i] ELSE new[i - a]
    <3>1. /\ Len(old \o new) = a + d
          /\ \A i \in 1 .. a + d : (old \o new)[i] = IF i <= a THEN old[i] ELSE new[i - a]
      BY <2>3a, ConcatProperties
    <3> QED BY <2>3b, <3>1
  <2> HIDE DEF a, d
  <2>4a. p.first \in Nat /\ p.first = fu + a /\ PairEnd(p) = p.first + d
    BY <2>1, <2>2 DEF a, d, old, new
  <2>4b. x = fu + a /\ y = fu + (a + d)
    BY <2>4 DEF a, old
  <2> HIDE DEF x, y
  <2>5. y = PairEnd(p) /\ x \in Nat /\ y \in Nat /\ x <= y /\ fu <= x
    BY <2>3a, <2>4a, <2>4b
  <2>6. FromStream(u.temp, fu)
    <3>1. ASSUME NEW j \in 1 .. Len(u.temp) PROVE u.temp[j] = fu + j - 1
      <4>1. CASE j <= a
        <5>1. j \in 1 .. a /\ u.temp[j] = old[j]
          BY <2>3a, <2>4, <4>1
        <5>2. old[j] = fu + j - 1
          BY <5>1 DEF PopInv, FromStream, old, a
        <5> QED BY <5>1, <5>2
      <4>2. CASE ~(j <= a)
        <5>1. j - a \in 1 .. d /\ u.temp[j] = new[j - a]
          BY <2>3a, <2>4, <4>2
        <5>2. new[j - a] = p.first + (j - a) - 1
          BY <2>3, <5>1 DEF FromStream, new, d
        <5> QED BY <2>3a, <2>4, <2>4a, <5>1, <5>2
      <4> QED BY <4>1, <4>2
    <3> QED BY <3>1 DEF FromStream
  <2>7. /\ Chain(u.list) /\ Len(u.list) = Len(acc.list) - 1
        /\ \A i \in 1 .. Len(u.list) : u.list[i] = acc.list[i + 1]
        /\ Covered(acc.list) = Covered(u.list) \cup (p.first .. PairEnd(p) - 1)
        /\ Cardinality(Covered(acc.list)) = Cardinality(Covered(u.list)) + Len(p.second)
    BY <1>1, <2>1, TailPair DEF Sealed, p
  <2>8. ASSUME NEW i \in 1 .. Len(u.list) PROVE u.list[i].first >= fu + Len(u.temp)
    <3>1. /\ i + 1 \in 1 .. Len(acc.list) /\ 1 \in 1 .. Len(acc.list) /\ 1 < i + 1
          /\ u.list[i] = acc.list[i + 1]
      <4>1. Len(acc.list) \in Nat /\ Len(u.list) = Len(acc.list) - 1
        BY <1>1, <2>7
      <4>2. u.list[i] = acc.list[i + 1]
        BY <2>7
      <4> QED BY <4>1, <4>2
    <3>2. PairEnd(p) <= u.list[i].first
      <4>1. PairEnd(acc.list[1]) <= acc.list[i + 1].first
        BY <1>1, <3>1 DEF Chain
      <4> QED BY <3>1, <4>1 DEF p
    <3>3. u.list[i].first \in Nat
      BY <2>7, ChainFacts
    <3> QED BY <2>5, <3>2, <3>3 DEF y
  <2>9. Covered(L) = Covered(u.list) \cup (fu .. fu + Len(u.temp) - 1)
    <3>1. (x .. y - 1) \cup (fu .. x - 1) = fu .. y - 1
      BY <2>5
    <3>2. Covered(L) = Covered(acc.list) \cup (fu .. x - 1)
      BY DEF PopInv, x
    <3>3. Covered(acc.list) = Covered(u.list) \cup (x .. y - 1)
      BY <2>1, <2>5, <2>7
    <3>4. Covered(L) = Covered(u.list) \cup (fu .. y - 1)
      BY <3>1, <3>2, <3>3
    <3> QED BY <3>4 DEF y
  <2>10. Cardinality(Covered(L)) = Cardinality(Covered(u.list)) + Len(u.temp)
    <3>1. Cardinality(Covered(L)) = Cardinality(Covered(acc.list)) + a
      BY DEF PopInv, a, old
    <3>2. Cardinality(Covered(u.list)) \in Nat
      BY <2>7, CoveredFinite
    <3>3. Cardinality(Covered(acc.list)) = Cardinality(Covered(u.list)) + d
      BY <2>7 DEF d, new
    <3>4. Len(u.temp) = a + d
      BY <2>4
    <3> QED BY <2>3a, <3>1, <3>2, <3>3, <3>4
  <2>11. Len(u.list) = Len(L) - k
    <3>1. Len(acc.list) = Len(L) - (k - 1)
      BY <1>4 DEF PopInv
    <3>2. Len(u.list) = Len(acc.list) - 1 /\ Len(acc.list) \in Nat
      BY <1>1, <2>7
    <3> QED BY <1>1, <3>1, <3>2
  <2>12. PopInv(L, fu, k, u)
    BY <2>6, <2>8, <2>9, <2>10, <2>11 DEF PopInv
  <2> QED BY <2>12 DEF u
<1> QED BY <1>3, <1>4

\* The pairs of a list start at indices it stands for, or at SIZE_MAX.
LEMMA FirstsCovered ==
    ASSUME NEW list, Chain(list), Sealed(list), NEW x \in Nat, x <= SIZE_MAX,
           \A m \in Covered(list) : m >= x
    PROVE  \A i \in 1 .. Len(list) : list[i].first >= x
<1>1. TAKE i \in 1 .. Len(list)
<1>2. Len(list) \in Nat /\ list[i] \in Pair /\ list[i].first \in Nat /\ PairEnd(list[i]) \in Nat
  BY ChainFacts
<1>3. CASE i = Len(list)
  BY <1>3, SentinelFacts DEF Sealed
<1>4. CASE i # Len(list)
  <2>1. list[i].second # <<>>
    BY <1>2, <1>4 DEF Sealed
  <2>2. list[i].first < PairEnd(list[i])
    BY <1>2, <2>1, PairFacts
  <2>3. list[i].first \in Covered(list)
    BY <1>2, <2>2 DEF Covered, CoveredTo
  <2> QED BY <2>3
<1> QED BY <1>3, <1>4

\* pop_unassembledString() takes the bytes from fu on as far as the list goes
\* without a gap, and leaves the others.
LEMMA PopAll ==
    ASSUME NEW L, Chain(L), Sealed(L), NEW fu \in Nat, fu <= SIZE_MAX,
           \A m \in Covered(L) : m >= fu
    PROVE  LET q == PopUnassembledString(L, fu)
           IN  /\ q \in PopState
               /\ FromStream(q.temp, fu)
               /\ Covered(L) = Covered(q.list) \cup (fu .. fu + Len(q.temp) - 1)
               /\ Cardinality(Covered(L)) = Cardinality(Covered(q.list)) + Len(q.temp)
               /\ \A m \in Covered(q.list) : m > fu + Len(q.temp)
<1> DEFINE n == Len(L)
           S == {z \in (0 .. n) \X PopState : PopInv(L, fu, z[1], z[2])}
<1>1. n \in Nat
  BY ChainFacts
<1>2. PICK f : /\ f \in [0 .. n -> PopState]
               /\ f[0] = [list |-> L, temp |-> <<>>]
               /\ \A k \in 1 .. n : f[k] = PopStep(f[k - 1], fu)
               /\ PopUnassembledString(L, fu) = f[n]
  BY PopLoop
<1>3. PopInv(L, fu, 0, f[0])
  <2> DEFINE s == f[0]
  <2>1. s.list = L /\ s.temp = <<>> /\ Len(s.temp) = 0
    BY <1>2
  <2> HIDE DEF s
  <2>2. FromStream(s.temp, fu)
    BY <2>1 DEF FromStream
  <2>3. \A i \in 1 .. Len(s.list) : s.list[i].first >= fu + Len(s.temp)
    BY <2>1, FirstsCovered
  <2>4. Covered(L) = Covered(s.list) \cup (fu .. fu + Len(s.temp) - 1)
    BY <2>1
  <2>5. Cardinality(Covered(L)) \in Nat
    BY CoveredFinite
  <2>6. Cardinality(Covered(L)) = Cardinality(Covered(s.list)) + Len(s.temp)
    BY <2>1, <2>5
  <2>7. Len(s.list) = Len(L) - 0
    BY <1>1, <2>1
  <2>8. PopInv(L, fu, 0, s)
    BY <2>2, <2>3, <2>4, <2>6, <2>7 DEF PopInv
  <2> QED BY <2>8 DEF s
<1>4. <<0, f[0]>> \in S
  BY <1>1, <1>2, <1>3
<1>5. ASSUME NEW k \in 1 .. n, <<k - 1, f[k - 1]>> \in S PROVE <<k, f[k]>> \in S
  <2>1. f[k - 1] \in PopState /\ PopInv(L, fu, k - 1, f[k - 1])
    BY <1>5
  <2>2. PopInv(L, fu, k, f[k])
    BY <1>2, <2>1, PopStepInv
  <2>3. k \in 0 .. n
    BY <1>1
  <2>4. f[k] \in PopState
    BY <1>2, <2>3
  <2> QED BY <2>2, <2>3, <2>4
<1>6. <<n, f[n]>> \in S
  <2> HIDE DEF S, n
  <2> QED BY <1>1, <1>4, <1>5, LoopStaysIndexed
<1> DEFINE q == f[n]
<1>7. q \in PopState /\ PopInv(L, fu, n, q)
  BY <1>6
<1> HIDE DEF q
<1>8. /\ Chain(q.list) /\ Sealed(q.list) /\ Len(q.list) \in Nat /\ Len(q.list) > 0
      /\ q.list[1] \in Pair /\ Len(q.temp) \in Nat
  BY <1>7, PopStateFacts
<1>9. ~Popable(q, fu)
  <2>1. SUFFICES ASSUME Popable(q, fu) PROVE FALSE
    OBVIOUS
  <2>2. Len(q.list) = n - n
    BY <1>7, <2>1 DEF PopInv
  <2> QED BY <1>1, <1>8, <2>2
<1>10. ASSUME NEW m \in Covered(q.list) PROVE m > fu + Len(q.temp)
  <2>1. PICK i \in 1 .. Len(q.list) : m \in Nat /\ q.list[i].first <= m /\ m < PairEnd(q.list[i])
    BY DEF Covered, CoveredTo
  <2>2. \A j \in 1 .. Len(q.list) : /\ q.list[j].first >= fu + Len(q.temp)
                                    /\ q.list[j].first \in Nat /\ PairEnd(q.list[j]) \in Nat
                                    /\ q.list[j].first <= PairEnd(q.list[j])
    BY <1>7, <1>8, ChainFacts DEF PopInv
  <2>3. Len(q.list) > 1
    <3>0. Len(q.list) \in Nat /\ Len(q.list) > 0
      BY <1>8
    <3>1. ASSUME Len(q.list) = 1 PROVE FALSE
      <4>1. q.list[i] = Sentinel
        BY <1>8, <3>1 DEF Sealed
      <4> QED BY <2>1, <4>1, SentinelFacts
    <3>2. Len(q.list) # 1
      BY <3>1
    <3> DEFINE c == Len(q.list)
    <3>3. c \in Nat /\ c > 0 /\ c # 1
      BY <3>0, <3>2
    <3> HIDE DEF c
    <3>4. c > 1
      BY <3>3
    <3> QED BY <3>4 DEF c
  <2>4. 1 \in 1 .. Len(q.list) /\ q.list[1].second # <<>> /\ q.list[1].first < PairEnd(q.list[1])
    BY <1>8, <2>3, PairFacts DEF Sealed
  <2>5. PairEnd(q.list[1]) <= SIZE_MAX
    <3>1. Len(q.list) \in 1 .. Len(q.list) /\ 1 < Len(q.list) /\ q.list[Len(q.list)] = Sentinel
      BY <1>8, <2>3 DEF Sealed
    <3> QED BY <1>8, <2>4, <3>1, SentinelFacts DEF Chain
  <2>6. q.list[1].first # fu + Len(q.temp)
    BY <1>9, <2>2, <2>4, <2>5, SentinelFacts DEF Popable
  <2>7. CASE i = 1
    <3>1. /\ q.list[1].first <= m /\ q.list[1].first \in Nat
          /\ q.list[1].first >= fu + Len(q.temp) /\ Len(q.temp) \in Nat /\ m \in Nat
      BY <1>8, <2>1, <2>2, <2>4, <2>7
    <3> QED BY <2>6, <3>1
  <2>8. CASE i > 1
    <3>1. PairEnd(q.list[1]) <= q.list[i].first
      BY <1>8, <2>4, <2>8 DEF Chain
    <3> QED BY <1>8, <2>1, <2>2, <2>4, <2>6, <3>1
  <2> QED BY <2>7, <2>8
<1> QED BY <1>2, <1>7, <1>10 DEF PopInv, q

\* What holds of a reassembler before the end of its output is settled.
Sound(w, cap, total) ==
    /\ w \in ReassemblerState /\ w.output \in Bounded(Nat)
    /\ w.capacity = cap /\ w.output.capacity = cap
    /\ w.output.totin = w.output.totout + Len(w.output.buff)
    /\ w.output.totin <= total
    /\ FromStream(w.output.buff, w.output.totout)
    /\ Chain(w.unassembledBuffer) /\ Sealed(w.unassembledBuffer)
    /\ w.posEOF \in {total, SIZE_MAX}
    /\ w.unassembledBytes = Cardinality(Covered(w.unassembledBuffer))
    /\ \A n \in Covered(w.unassembledBuffer) :
          w.output.totin < n /\ n < w.output.totout + cap /\ n < total

\* The inductive invariant.
Well(w, cap, total) == Sound(w, cap, total) /\ (w.output.isInputEnd <=> w.output.totin = w.posEOF)

\* The indices that a substring adds to those stored in w: the ones in the window.
Got(w, index, len, cap) ==
    Covered(w.unassembledBuffer) \cup
    {i \in index .. index + len - 1 :
        w.output.totin <= i /\ i < Lesser(w.output.totout + cap, w.posEOF)}

\* From w to s the indices of a substring are taken up and what has become
\* contiguous is delivered.
Takes(w, s, index, len, cap) ==
    /\ s.output.totout = w.output.totout /\ s.posEOF = w.posEOF
    /\ w.output.totin <= s.output.totin
    /\ w.output.totin .. s.output.totin - 1 \subseteq Got(w, index, len, cap)
    /\ s.output.totin \notin Got(w, index, len, cap)
    /\ Covered(s.unassembledBuffer) = {i \in Got(w, index, len, cap) : i > s.output.totin}

\* From w to s the output is ended if s reaches the announced end, and stays ended.
Ends(w, s) ==
    s.output.isInputEnd <=> (w.output.isInputEnd \/ s.output.totin = s.posEOF)

\* The numbers of a sound reassembler.
LEMMA SoundFacts ==
    ASSUME NEW cap \in Nat, NEW total \in Nat, total < SIZE_MAX,
           NEW w, Sound(w, cap, total)
    PROVE  /\ w.output.totin \in Nat /\ w.output.totout \in Nat /\ Len(w.output.buff) \in Nat
           /\ w.posEOF \in Nat /\ total <= w.posEOF /\ w.posEOF <= SIZE_MAX
           /\ w.output.totout <= w.output.totin
           /\ w.output.totin <= w.output.totout + cap
           /\ w.output.totin <= total
           /\ FirstUnassembled(w) = w.output.totin
           /\ FirstUnacceptable(w) = Lesser(w.output.totout + cap, w.posEOF)
           /\ Covered(w.unassembledBuffer) \subseteq Nat
           /\ w.output.buff \in Seq(Nat)
<1>1. /\ w.output \in Bounded(Nat) /\ w.capacity = cap /\ w.output.capacity = cap
      /\ w.output.totin = w.output.totout + Len(w.output.buff)
      /\ w.output.totin <= total /\ w.posEOF \in {total, SIZE_MAX}
      /\ Chain(w.unassembledBuffer)
  BY DEF Sound
<1>2. /\ w.output.buff \in Seq(Nat) /\ Len(w.output.buff) \in Nat
      /\ w.output.totin \in Nat /\ w.output.totout \in Nat
      /\ Len(w.output.buff) <= cap
  BY <1>1, LenProperties DEF Bounded, ByteStreamState
<1>3. /\ total \in Nat /\ SIZE_MAX \in Nat /\ cap \in Nat /\ total < SIZE_MAX
  BY SizeAssumption
<1>4. w.posEOF \in Nat /\ total <= w.posEOF /\ w.posEOF <= SIZE_MAX
  BY <1>1, <1>3
<1>5. /\ w.output.totout <= w.output.totin
      /\ w.output.totin <= w.output.totout + cap
  BY <1>1, <1>2, <1>3
<1>6. FirstUnassembled(w) = w.output.totin
  BY <1>1 DEF FirstUnassembled, BufferSize
<1>7. FirstUnacceptable(w) = Lesser(w.output.totout + cap, w.posEOF)
  BY <1>1 DEF FirstUnacceptable
<1>8. Covered(w.unassembledBuffer) \subseteq Nat
  BY <1>1, ChainFacts
<1> QED BY <1>1, <1>2, <1>4, <1>5, <1>6, <1>7, <1>8

\* Nothing is taken up by a substring outside the window.
LEMMA TakesNothing ==
    ASSUME NEW cap \in Nat, NEW total \in Nat, total < SIZE_MAX,
           NEW w, Sound(w, cap, total), NEW index \in Nat, NEW len \in Nat,
           \/ index + len <= w.output.totin
           \/ index >= Lesser(w.output.totout + cap, w.posEOF)
           \/ len = 0
    PROVE  Takes(w, w, index, len, cap)
<1> DEFINE C == Covered(w.unassembledBuffer)
           a == w.output.totin
           limit == Lesser(w.output.totout + cap, w.posEOF)
           N == {i \in index .. index + len - 1 : a <= i /\ i < limit}
<1>1. a \in Nat /\ limit \in Nat /\ C \subseteq Nat
  BY SoundFacts DEF Lesser
<1>2. \A n \in C : a < n
  BY DEF Sound
<1>3. index + len <= a \/ index >= limit \/ len = 0
  OBVIOUS
<1>4. Got(w, index, len, cap) = C \cup N
  BY DEF Got
<1> HIDE DEF C, a, limit
<1>5. N = {}
  BY <1>1, <1>3
<1>6. Got(w, index, len, cap) = C
  BY <1>4, <1>5
<1>7. a .. a - 1 = {} /\ a <= a
  BY <1>1
<1>8. a \notin C
  BY <1>1, <1>2
<1>9. C = {i \in C : i > a}
  <2>1. \A n \in C : n > a
    BY <1>1, <1>2
  <2> QED BY <2>1
<1> QED BY <1>6, <1>7, <1>8, <1>9 DEF Takes, a, C

\* Announcing an end changes nothing else.
LEMMA WithEnd ==
    ASSUME NEW cap \in Nat, NEW total \in Nat, total < SIZE_MAX,
           NEW w, Sound(w, cap, total), NEW end \in {total, SIZE_MAX}
    PROVE  LET q == [w EXCEPT !.posEOF = end]
           IN  /\ Sound(q, cap, total) /\ q.posEOF = end /\ q.output = w.output
               /\ q.unassembledBuffer = w.unassembledBuffer
<1> DEFINE q == [w EXCEPT !.posEOF = end]
<1>1. w \in ReassemblerState /\ end \in Nat
  BY SizeAssumption DEF Sound
<1>2. /\ q \in ReassemblerState /\ q.posEOF = end /\ q.output = w.output
      /\ q.unassembledBuffer = w.unassembledBuffer /\ q.capacity = w.capacity
      /\ q.unassembledBytes = w.unassembledBytes
  BY <1>1 DEF ReassemblerState
<1> HIDE DEF q
<1>3. Sound(q, cap, total)
  BY <1>2 DEF Sound
<1> QED BY <1>2, <1>3 DEF q

\* Lines 42-43 end the output exactly at the announced end.
LEMMA EndFacts ==
    ASSUME NEW cap \in Nat, NEW total \in Nat, total < SIZE_MAX,
           NEW w, Sound(w, cap, total), w.output.isInputEnd => w.output.totin = w.posEOF
    PROVE  LET s == EndAtEOF(w)
           IN  /\ Well(s, cap, total) /\ s.posEOF = w.posEOF /\ s.unassembledBuffer = w.unassembledBuffer
               /\ s.output.totin = w.output.totin /\ s.output.totout = w.output.totout
<1> DEFINE o == EndInput(w.output)
           s == [w EXCEPT !.output = o]
<1>1. w \in ReassemblerState /\ w.output \in Bounded(Nat)
  BY DEF Sound
<1>2. w.output \in ByteStreamState(Nat)
  BY <1>1 DEF Bounded
<1>3. /\ o \in ByteStreamState(Nat) /\ o.isInputEnd = TRUE /\ o.buff = w.output.buff
      /\ o.totin = w.output.totin /\ o.totout = w.output.totout
      /\ o.capacity = w.output.capacity
  BY ZenonT(30), <1>2 DEF EndInput, ByteStreamState
<1> HIDE DEF o
<1>4. o \in Bounded(Nat)
  BY <1>1, <1>3 DEF Bounded
<1>5. /\ s \in ReassemblerState /\ s.output = o /\ s.posEOF = w.posEOF
      /\ s.unassembledBuffer = w.unassembledBuffer /\ s.capacity = w.capacity
      /\ s.unassembledBytes = w.unassembledBytes
  BY <1>1, <1>3 DEF ReassemblerState
<1>6. CASE w.output.totin = w.posEOF
  <2>1. EndAtEOF(w) = s
    BY <1>6 DEF EndAtEOF, o
  <2> HIDE DEF s
  <2>2. Sound(s, cap, total)
    BY <1>3, <1>4, <1>5 DEF Sound
  <2>3. s.output.isInputEnd <=> s.output.totin = s.posEOF
    BY <1>3, <1>5, <1>6
  <2> QED BY <1>3, <1>5, <2>1, <2>2, <2>3 DEF Well
<1>7. CASE w.output.totin # w.posEOF
  <2>1. EndAtEOF(w) = w
    BY <1>7 DEF EndAtEOF
  <2> QED BY <1>7, <2>1 DEF Well
<1> QED BY <1>6, <1>7

\* write() takes all of what fits.
LEMMA WriteAll ==
    ASSUME NEW b \in Bounded(Nat), NEW data \in Seq(Nat),
           Len(data) <= b.capacity - Len(b.buff)
    PROVE  Len(Accepted(b, data)) = Len(data)
<1>1. Len(data) \in Nat /\ Len(b.buff) \in Nat /\ b.capacity \in Nat
  BY LenProperties DEF Bounded, ByteStreamState
<1>2. Lesser(Len(data), RemainingCapacity(b)) = Len(data)
  BY <1>1 DEF Lesser, RemainingCapacity
<1>3. \A i \in 1 .. Len(data) : data[i] \in Nat
  BY ElementOfSeq
<1>4. Len(SubSeq(data, 1, Len(data))) = IF 1 <= Len(data) THEN Len(data) - 1 + 1 ELSE 0
  BY <1>1, <1>3, SubSeqProperties
<1>5. Accepted(b, data) = SubSeq(data, 1, Len(data))
  BY <1>2 DEF Accepted
<1> HIDE DEF Accepted
<1> QED BY <1>1, <1>4, <1>5

\* A size_t result that fits is not reduced.
LEMMA SizeFits ==
    ASSUME NEW n \in Nat, n <= SIZE_MAX
    PROVE  n % (SIZE_MAX + 1) = n
BY SizeAssumption

\* Lines 33-35: what is stored of a substring is its part in the window.
LEMMA NewStringFacts ==
    ASSUME NEW cap \in Nat, NEW total \in Nat, total < SIZE_MAX,
           NEW q, Sound(q, cap, total), NEW index \in Nat, NEW len \in Nat,
           NEW data \in Seq(Nat), Len(data) = len, FromStream(data, index),
           index + len <= total, ~Rejected(q, data, index)
    PROVE  LET start == Greater(index, FirstUnassembled(q))
               new == Substr(data, start - index,
                             Minus(FirstUnacceptable(q), start))
           IN  /\ start \in Nat /\ new \in Seq(Nat) /\ FromStream(new, start)
               /\ Len(new) \in Nat /\ start + Len(new) <= SIZE_MAX
               /\ Got(q, index, len, cap) =
                     Covered(q.unassembledBuffer) \cup (start .. start + Len(new) - 1)
<1> DEFINE a == q.output.totin
           limit == Lesser(q.output.totout + cap, q.posEOF)
           start == Greater(index, a)
           new == Substr(data, start - index, limit - start)
           N == {i \in index .. index + len - 1 : a <= i /\ i < limit}
<1>1. /\ a \in Nat /\ limit \in Nat /\ a <= limit /\ limit <= SIZE_MAX
      /\ SIZE_MAX \in Nat /\ total \in Nat /\ total < SIZE_MAX
  BY SoundFacts, SizeAssumption, SMTT(30) DEF Lesser
<1>2. FirstUnassembled(q) = a /\ FirstUnacceptable(q) = limit
  BY Zenon, SoundFacts
<1>3. /\ data \in Seq(Nat) /\ Len(data) = len /\ FromStream(data, index)
  OBVIOUS
<1> HIDE DEF a, limit
<1>4. (index + len) % (SIZE_MAX + 1) = index + len
  BY <1>1, SizeFits, SMTT(30)
<1>5. index + len >= a /\ index < limit
  <2>1. ~(Plus(index, len) < a) /\ ~(index >= limit)
    BY <1>2, <1>3 DEF Rejected
  <2> QED BY <1>1, <1>4, <2>1 DEF Plus
<1>6. /\ start \in Nat /\ index <= start /\ start <= index + len /\ start <= limit
      /\ a <= start /\ (start = index \/ start = a)
  BY <1>1, <1>5 DEF Greater
<1> HIDE DEF start
<1>7. Minus(limit, start) = limit - start
  <2>1. limit - start \in 0 .. SIZE_MAX
    BY <1>1, <1>6
  <2> QED BY <1>1, <2>1, SizeFits DEF Minus
<1>8. start - index \in Nat /\ limit - start \in Nat /\ start - index <= len
  BY <1>1, <1>6
<1>9. /\ new \in Seq(Nat) /\ FromStream(new, index + (start - index))
      /\ Len(new) = Lesser((start - index) + (limit - start), len) - (start - index)
  BY <1>3, <1>8, SubstrFacts, ZenonT(30)
<1> HIDE DEF new
<1>10. FromStream(new, start)
  <2>1. index + (start - index) = start
    BY <1>6
  <2> QED BY <1>9, <2>1
<1>11. /\ Len(new) \in Nat /\ start + Len(new) <= index + len /\ start + Len(new) <= limit
       /\ start + Len(new) = index + len \/ start + Len(new) = limit
  BY <1>1, <1>6, <1>9 DEF Lesser
<1>12. start + Len(new) <= SIZE_MAX
  BY <1>1, <1>6, <1>11
<1>13. N = start .. start + Len(new) - 1
  <2> DEFINE z == start + Len(new)
  <2>1. z \in Nat /\ z <= index + len /\ z <= limit /\ (z = index + len \/ z = limit)
    BY <1>6, <1>11
  <2> HIDE DEF z
  <2>2. N = start .. z - 1
    BY <1>1, <1>6, <2>1
  <2>3. z - 1 = start + Len(new) - 1
    BY <1>6, <1>11 DEF z
  <2> HIDE DEF N
  <2> QED BY <2>2, <2>3
<1>14. Got(q, index, len, cap) = Covered(q.unassembledBuffer) \cup (start .. start + Len(new) - 1)
  BY <1>13 DEF Got, a, limit
<1>15. /\ start = Greater(index, FirstUnassembled(q))
       /\ new = Substr(data, start - index, Minus(FirstUnacceptable(q), start))
  BY <1>2, <1>7 DEF start, new
<1> QED BY Zenon, <1>6, <1>9, <1>10, <1>11, <1>12, <1>14, <1>15

\* The indices a substring adds lie in the window and in the stream.
LEMMA GotFacts ==
    ASSUME NEW cap \in Nat, NEW total \in Nat, total < SIZE_MAX,
           NEW q, Sound(q, cap, total), NEW index \in Nat, NEW len \in Nat, index + len <= total
    PROVE  \A n \in Got(q, index, len, cap) :
              /\ n \in Nat /\ q.output.totin <= n
              /\ n < q.output.totout + cap /\ n < total
<1> DEFINE C == Covered(q.unassembledBuffer)
           a == q.output.totin
           w == q.output.totout + cap
           limit == Lesser(w, q.posEOF)
           N == {i \in index .. index + len - 1 : a <= i /\ i < limit}
<1>1. /\ a \in Nat /\ w \in Nat /\ limit \in Nat /\ limit <= w /\ C \subseteq Nat
      /\ total \in Nat
  BY SoundFacts DEF Lesser
<1>2. \A n \in C : a < n /\ n < w /\ n < total
  BY DEF Sound
<1>3. Got(q, index, len, cap) = C \cup N
  BY DEF Got
<1> HIDE DEF C, a, w, limit
<1>4. \A n \in N : n \in Nat /\ a <= n /\ n < w /\ n < total
  BY <1>1
<1>5. \A n \in C : n \in Nat /\ a <= n /\ n < w /\ n < total
  BY <1>1, <1>2
<1> QED BY <1>3, <1>4, <1>5 DEF a, w

\* Writing what was popped leaves the output in order.
LEMMA WritePopped ==
    ASSUME NEW cap \in Nat, NEW total \in Nat, total < SIZE_MAX,
           NEW q, Sound(q, cap, total), NEW temp \in Seq(Nat), FromStream(temp, q.output.totin),
           q.output.totin + Len(temp) <= q.output.totout + cap
    PROVE  LET o == StreamWrite(q.output, temp)
           IN  /\ o \in Bounded(Nat) /\ o.capacity = cap
               /\ o.isInputEnd = q.output.isInputEnd
               /\ o.totout = q.output.totout
               /\ o.totin = q.output.totin + Len(temp)
               /\ o.totin = o.totout + Len(o.buff)
               /\ FromStream(o.buff, o.totout)
<1> DEFINE b == q.output
           acc == Accepted(b, temp)
           o == StreamWrite(b, temp)
           x == b.totout
           m == Len(b.buff)
           d == Len(temp)
           old == b.buff
<1>1. /\ b \in Bounded(Nat) /\ b.capacity = cap /\ b.totin = x + m /\ FromStream(old, x)
  BY DEF Sound
<1>2. x \in Nat /\ m \in Nat /\ d \in Nat /\ cap \in Nat /\ old \in Seq(Nat)
  BY SoundFacts, LenProperties
<1>3. (x + m) + d <= x + cap
  BY <1>1
<1>4. d <= cap - m
  <2> HIDE DEF x, m, d
  <2> QED BY <1>2, <1>3
<1>5. Len(acc) = d
  BY <1>1, <1>4, WriteAll
<1>6. /\ acc \in Seq(Nat) /\ o \in Bounded(Nat) /\ SameButBytes(o, b) /\ o.totout = x
      /\ o.totin = b.totin + Len(acc) /\ o.buff = old \o acc /\ Len(o.buff) = m + Len(acc)
      /\ \A i \in 1 .. Len(acc) : acc[i] = temp[i]
  <2> HIDE DEF b
  <2>1. acc \in Seq(Nat) /\ o \in Bounded(Nat) /\ SameButBytes(o, b)
    BY <1>1, WriteFacts
  <2>2. o.totout = x /\ o.totin = b.totin + Len(acc)
    BY <1>1, WriteFacts
  <2>3. o.buff = old \o acc
    BY <1>1, WriteFacts
  <2>4. Len(o.buff) = m + Len(acc)
    BY <1>1, WriteFacts
  <2>5. \A i \in 1 .. Len(acc) : acc[i] = temp[i]
    BY <1>1, WriteFacts
  <2> HIDE DEF acc, o, x, old, m
  <2> QED BY <2>1, <2>2, <2>3, <2>4, <2>5
<1>7. FromStream(temp, x + m)
  BY <1>1
<1>8. Len(o.buff) = m + d /\ o.totin = (x + m) + d
  BY <1>1, <1>5, <1>6
<1> HIDE DEF acc, o, x, m, d, old
<1>9. \A i \in 1 .. m + d : o.buff[i] = IF i <= m THEN old[i] ELSE acc[i - m]
  <2>1. m = Len(old)
    BY DEF m, old
  <2>2. \A i \in 1 .. m + d : (old \o acc)[i] = IF i <= m THEN old[i] ELSE acc[i - m]
    BY <1>2, <1>5, <1>6, <2>1, ConcatProperties
  <2> QED BY Zenon, <1>6, <2>2
<1>10. ASSUME NEW i \in 1 .. m + d PROVE o.buff[i] = x + i - 1
  <2>1. CASE i <= m
    <3>1. i \in 1 .. m /\ o.buff[i] = old[i]
      BY <1>2, <1>9, <2>1
    <3>2. old[i] = x + i - 1
      BY <1>1, <3>1 DEF FromStream, m, old
    <3> QED BY <3>1, <3>2
  <2>2. CASE ~(i <= m)
    <3>1. i - m \in 1 .. d /\ o.buff[i] = acc[i - m]
      BY <1>2, <1>9, <2>2
    <3>2. acc[i - m] = temp[i - m]
      BY <1>5, <1>6, <3>1
    <3>3. temp[i - m] = (x + m) + (i - m) - 1
      BY <1>7, <3>1 DEF FromStream, d
    <3> QED BY <1>2, <3>1, <3>2, <3>3
  <2> QED BY <2>1, <2>2
<1>11. FromStream(o.buff, x)
  BY <1>8, <1>10 DEF FromStream
<1>12. o.totin = o.totout + Len(o.buff)
  <2>1. o.totin = (x + m) + d /\ o.totout = x /\ Len(o.buff) = m + d
    BY <1>6, <1>8
  <2>2. (x + m) + d = x + (m + d)
    BY <1>2
  <2> QED BY <2>1, <2>2
<1>13. o.totin = b.totin + d /\ o.capacity = cap /\ o.isInputEnd = b.isInputEnd
  BY <1>1, <1>5, <1>6 DEF SameButBytes
<1>14. /\ o \in Bounded(Nat) /\ o.totout = x /\ FromStream(o.buff, o.totout)
  BY <1>6, <1>11
<1> QED BY <1>12, <1>13, <1>14 DEF o, x, d

\* Lines 33-40 take up the substring, deliver what has become contiguous and count
\* what is left.
LEMMA AbsorbFacts ==
    ASSUME NEW cap \in Nat, NEW total \in Nat, total < SIZE_MAX,
           NEW q, Sound(q, cap, total), NEW index \in Nat, NEW len \in Nat,
           NEW data \in Seq(Nat), Len(data) = len, FromStream(data, index),
           index + len <= total, ~Rejected(q, data, index)
    PROVE  LET s == Absorb(q, data, index)
           IN  /\ Sound(s, cap, total) /\ Takes(q, s, index, len, cap)
               /\ s.output.isInputEnd = q.output.isInputEnd
<1> DEFINE s == Absorb(q, data, index)
           start == Greater(index, FirstUnassembled(q))
           new == Substr(data, start - index, Minus(FirstUnacceptable(q), start))
           pushed == PushUnassembledString(q.unassembledBuffer, new, start)
           a == q.output.totin
           popped == PopUnassembledString(pushed.list, a)
           G == Got(q, index, len, cap)
           d == Len(popped.temp)
           o == StreamWrite(q.output, popped.temp)
           left == Covered(popped.list)
           w == q.output.totout + cap
<1>1. /\ a \in Nat /\ w \in Nat /\ FirstUnassembled(q) = a /\ a <= total /\ a <= w
      /\ total \in Nat /\ SIZE_MAX \in Nat /\ total < SIZE_MAX
  BY SoundFacts, SizeAssumption, SMTT(30)
<1>2. /\ start \in Nat /\ new \in Seq(Nat) /\ FromStream(new, start)
      /\ start + Len(new) <= SIZE_MAX
      /\ G = Covered(q.unassembledBuffer) \cup (start .. start + Len(new) - 1)
  BY NewStringFacts
<1>3. \A n \in G : n \in Nat /\ a <= n /\ n < w /\ n < total
  BY ZenonT(30), GotFacts
<1>4. /\ q \in ReassemblerState /\ Chain(q.unassembledBuffer) /\ Sealed(q.unassembledBuffer)
      /\ q.unassembledBytes = Cardinality(Covered(q.unassembledBuffer))
      /\ q.capacity = cap /\ q.posEOF \in {total, SIZE_MAX}
  BY DEF Sound
<1>5. s = [q EXCEPT !.unassembledBuffer = popped.list,
                    !.unassembledBytes = q.unassembledBytes + pushed.added - d,
                    !.output = o]
  BY <1>1 DEF Absorb
<1> HIDE DEF start, new, G, a, w
<1>6. /\ Chain(pushed.list) /\ Sealed(pushed.list) /\ pushed.added \in Nat
      /\ Covered(pushed.list) = G
      /\ Cardinality(G) = q.unassembledBytes + pushed.added
  <2> DEFINE L == q.unassembledBuffer
             p == PushUnassembledString(L, new, start)
  <2>1. Chain(L) /\ Sealed(L)
    BY <1>4
  <2> HIDE DEF L
  <2>2. /\ Chain(p.list) /\ Sealed(p.list) /\ p.added \in Nat
        /\ Covered(p.list) = Covered(L) \cup (start .. start + Len(new) - 1)
        /\ Cardinality(Covered(p.list)) = Cardinality(Covered(L)) + p.added
    BY ZenonT(30), <1>2, <2>1, PushFacts
  <2>3. p = pushed
    BY DEF L
  <2> HIDE DEF p, pushed
  <2>4. Covered(p.list) = G
    BY Zenon, <1>2, <2>2 DEF L
  <2>5. Cardinality(G) = q.unassembledBytes + p.added
    BY ZenonT(30), <1>4, <2>2, <2>4 DEF L
  <2> QED BY <2>2, <2>3, <2>4, <2>5
<1> HIDE DEF pushed
<1>7. /\ popped \in PopState /\ FromStream(popped.temp, a)
      /\ G = left \cup (a .. a + d - 1)
      /\ Cardinality(G) = Cardinality(left) + d
      /\ \A n \in left : n > a + d
  <2>1. a <= SIZE_MAX
    BY <1>1
  <2>2. \A n \in Covered(pushed.list) : n >= a
    BY <1>1, <1>3, <1>6
  <2> QED BY Zenon, <1>1, <1>6, <2>1, <2>2, PopAll
<1>8. /\ popped.list \in Seq(Pair) /\ Chain(popped.list) /\ Sealed(popped.list)
      /\ popped.temp \in Seq(Nat) /\ d \in Nat
  BY Zenon, <1>7, PopStateFacts
<1> HIDE DEF popped, d, left
<1>9. a + d <= w /\ a + d <= total
  <2>1. CASE d = 0
    BY <1>1, <2>1
  <2>2. CASE d > 0
    <3>1. a + d - 1 \in a .. a + d - 1
      BY <1>1, <1>8, <2>2
    <3>2. a + d - 1 \in G
      BY <1>7, <3>1
    <3> QED BY <1>1, <1>3, <1>8, <3>2
  <2> QED BY <1>8, <2>1, <2>2
<1>10. /\ o \in Bounded(Nat) /\ o.capacity = cap
       /\ o.isInputEnd = q.output.isInputEnd /\ o.totout = q.output.totout
       /\ o.totin = a + d /\ o.totin = o.totout + Len(o.buff)
       /\ FromStream(o.buff, o.totout)
  <2> DEFINE temp == popped.temp
  <2>1. /\ temp \in Seq(Nat) /\ FromStream(temp, q.output.totin)
        /\ q.output.totin + Len(temp) <= q.output.totout + cap
    BY <1>7, <1>8, <1>9 DEF a, w, d
  <2>2. o = StreamWrite(q.output, temp) /\ d = Len(temp) /\ a = q.output.totin
    BY DEF d, a
  <2> HIDE DEF temp, o
  <2>3. LET b == StreamWrite(q.output, temp)
        IN  /\ b \in Bounded(Nat) /\ b.capacity = cap
            /\ b.isInputEnd = q.output.isInputEnd
            /\ b.totout = q.output.totout
            /\ b.totin = q.output.totin + Len(temp)
            /\ b.totin = b.totout + Len(b.buff)
            /\ FromStream(b.buff, b.totout)
    BY <2>1, WritePopped
  <2> QED BY <2>2, <2>3
<1> HIDE DEF o
<1>11. Cardinality(left) \in Nat
  BY <1>8, CoveredFinite DEF left
<1>12. q.unassembledBytes + pushed.added - d = Cardinality(left)
  <2>1. q.unassembledBytes \in Nat
    BY <1>4 DEF ReassemblerState
  <2>2. pushed.added \in Nat /\ Cardinality(G) = q.unassembledBytes + pushed.added
    BY <1>6
  <2>3. Cardinality(G) = Cardinality(left) + d /\ d \in Nat
    BY <1>7, <1>8
  <2> QED BY <1>11, <2>1, <2>2, <2>3
<1>13. s = [q EXCEPT !.unassembledBuffer = popped.list,
                     !.unassembledBytes = Cardinality(left), !.output = o]
  BY Zenon, <1>5, <1>12
<1> HIDE DEF s
<1>14. o \in ByteStreamState(Nat) /\ popped.list \in PairList
  BY <1>8, <1>10 DEF Bounded, PairList, Pair
<1>15. /\ s \in ReassemblerState /\ s.unassembledBuffer = popped.list
       /\ s.unassembledBytes = Cardinality(left) /\ s.output = o
       /\ s.capacity = q.capacity /\ s.posEOF = q.posEOF
  BY ZenonT(30), <1>4, <1>11, <1>13, <1>14 DEF ReassemblerState
<1>16. \A n \in left : n \in Nat /\ o.totin < n /\ n < w /\ n < total
  BY Zenon, <1>1, <1>3, <1>7, <1>8, <1>10
<1>17. Sound(s, cap, total)
  <2>1. \A n \in Covered(s.unassembledBuffer) :
           s.output.totin < n /\ n < s.output.totout + cap /\ n < total
    BY Zenon, <1>10, <1>15, <1>16 DEF left, w
  <2>2. s.output.totin <= total
    BY <1>9, <1>10, <1>15
  <2>3. s.unassembledBytes = Cardinality(Covered(s.unassembledBuffer))
    BY <1>15 DEF left
  <2> QED BY Zenon, <1>4, <1>8, <1>10, <1>15, <2>1, <2>2, <2>3 DEF Sound
<1>18. Takes(q, s, index, len, cap)
  <2> DEFINE b == a + d
  <2>1. b \in Nat /\ a <= b
    BY <1>1, <1>8
  <2>2. G = left \cup (a .. b - 1)
    <3>1. a + d - 1 = b - 1
      BY <1>1, <1>8
    <3> QED BY <1>7, <3>1
  <2>3. \A n \in left : n > b /\ n \in Nat
    BY <1>7, <1>16
  <2> HIDE DEF b
  <2>4. a .. b - 1 \subseteq G
    BY <2>2
  <2>5. b \notin G
    BY <2>1, <2>2, <2>3
  <2>6. left = {i \in G : i > b}
    <3>1. \A i \in a .. b - 1 : ~(i > b)
      BY <2>1
    <3> QED BY <2>2, <2>3, <3>1
  <2>7. /\ s.output.totin = b /\ s.output.totout = q.output.totout
        /\ s.posEOF = q.posEOF /\ Covered(s.unassembledBuffer) = left
    BY <1>10, <1>15 DEF b, left
  <2> QED BY <2>1, <2>4, <2>5, <2>6, <2>7 DEF Takes, a, G
<1> QED BY <1>10, <1>15, <1>17, <1>18 DEF s

\* push_substring(), with any substring of the stream.
LEMMA PushSubstringFacts ==
    ASSUME NEW cap \in Nat, NEW total \in Nat, total < SIZE_MAX,
           NEW w, Well(w, cap, total), NEW index \in Nat, NEW len \in Nat, NEW eof \in BOOLEAN,
           NEW data \in Seq(Nat), Len(data) = len, FromStream(data, index),
           index + len <= total, eof => index + len = total
    PROVE  LET s == PushSubstring(w, data, index, eof)
               q == [w EXCEPT !.posEOF = IF eof THEN index + len ELSE w.posEOF]
           IN  /\ Well(s, cap, total) /\ Sound(q, cap, total) /\ Takes(q, s, index, len, cap)
               /\ q.output = w.output /\ q.unassembledBuffer = w.unassembledBuffer
               /\ q.posEOF = IF eof THEN index + len ELSE w.posEOF
               /\ Ends(w, s)
<1> DEFINE end == IF eof THEN index + len ELSE w.posEOF
           q == [w EXCEPT !.posEOF = end]
           s == PushSubstring(w, data, index, eof)
           a == w.output.totin
<1>1. /\ total \in Nat /\ SIZE_MAX \in Nat /\ total < SIZE_MAX
  BY SizeAssumption
<1>2. Len(data) = len /\ (data = <<>> <=> len = 0)
  BY EmptySeq
<1>3. Plus(index, Len(data)) = index + len
  BY <1>1, <1>2, SizeFits, SMTT(30) DEF Plus
<1>4. Sound(w, cap, total) /\ (w.output.isInputEnd <=> a = w.posEOF) /\ w.posEOF \in {total, SIZE_MAX}
  BY DEF Well, Sound
<1>5. end \in {total, SIZE_MAX}
  BY <1>4
<1>6. /\ Sound(q, cap, total) /\ q.posEOF = end /\ q.output = w.output
      /\ q.unassembledBuffer = w.unassembledBuffer
  <2> HIDE DEF end
  <2>1. Sound(q, cap, total)
    BY Zenon, <1>4, <1>5, WithEnd
  <2>2. q.posEOF = end
    BY <1>4, <1>5, WithEnd
  <2>3. q.output = w.output
    BY <1>4, <1>5, WithEnd
  <2>4. q.unassembledBuffer = w.unassembledBuffer
    BY <1>4, <1>5, WithEnd
  <2> QED BY <2>1, <2>2, <2>3, <2>4
<1>7. s = IF data = <<>> THEN EndAtEOF(q)
          ELSE IF Rejected(q, data, index) THEN q
          ELSE EndAtEOF(Absorb(q, data, index))
  BY <1>3 DEF PushSubstring
<1>8. a \in Nat /\ a <= total
  BY <1>4, SoundFacts
<1> HIDE DEF q, s, a
<1>9. w.output.isInputEnd => a = end
  BY <1>1, <1>4, <1>8
<1>10. ASSUME NEW v, Sound(v, cap, total), Takes(q, v, index, len, cap),
              v.output.isInputEnd = q.output.isInputEnd
       PROVE  v.output.isInputEnd => v.output.totin = v.posEOF
  <2> DEFINE b == v.output.totin
  <2>1. HAVE v.output.isInputEnd
  <2>2. a = end
    BY <1>6, <1>9, <1>10, <2>1
  <2>3. a <= b /\ v.posEOF = end
    BY <1>6, <1>10 DEF Takes, a
  <2>4. b \in Nat /\ b <= total
    BY <1>10, SoundFacts
  <2> HIDE DEF b, end
  <2>5. b = end
    <3>1. end \in Nat /\ total <= end
      BY <1>1, <1>5
    <3> QED BY <1>1, <1>8, <2>2, <2>3, <2>4, <3>1
  <2> QED BY <2>3, <2>5 DEF b
<1>11. ASSUME NEW v, Sound(v, cap, total), Takes(q, v, index, len, cap),
              v.output.isInputEnd = q.output.isInputEnd, s = EndAtEOF(v)
       PROVE  /\ Well(s, cap, total) /\ Takes(q, s, index, len, cap)
  <2>1. v.output.isInputEnd => v.output.totin = v.posEOF
    BY Zenon, <1>10, <1>11
  <2> DEFINE e == EndAtEOF(v)
  <2>2. Sound(v, cap, total)
    BY <1>11
  <2>3. /\ Well(e, cap, total) /\ e.posEOF = v.posEOF /\ e.unassembledBuffer = v.unassembledBuffer
        /\ e.output.totin = v.output.totin /\ e.output.totout = v.output.totout
    BY <2>1, <2>2, EndFacts, SMTT(30)
  <2>4. s = e /\ Takes(q, v, index, len, cap)
    BY <1>11
  <2> HIDE DEF e
  <2>5. Takes(q, e, index, len, cap)
    BY <2>3, <2>4 DEF Takes
  <2> QED BY Zenon, <2>3, <2>4, <2>5
<1>12. ASSUME len = 0 PROVE Well(s, cap, total) /\ Takes(q, s, index, len, cap)
  <2>1. s = EndAtEOF(q)
    BY <1>2, <1>7, <1>12
  <2>2. Takes(q, q, index, len, cap)
    BY <1>6, <1>12, TakesNothing
  <2> QED BY <1>6, <1>11, <2>1, <2>2
<1>13. ASSUME len # 0, Rejected(q, data, index) PROVE Well(s, cap, total) /\ Takes(q, s, index, len, cap)
  <2> DEFINE limit == Lesser(q.output.totout + cap, q.posEOF)
  <2>1. s = q
    BY <1>2, <1>7, <1>13
  <2>2. /\ limit \in Nat /\ limit <= end /\ end \in Nat
        /\ (limit = end \/ (limit = q.output.totout + cap /\ a <= limit))
        /\ FirstUnassembled(q) = a /\ FirstUnacceptable(q) = limit
    <3>1. /\ q.output.totout \in Nat /\ q.posEOF \in Nat /\ a <= q.output.totout + cap
          /\ FirstUnassembled(q) = a /\ FirstUnacceptable(q) = limit
      <4>1. Sound(q, cap, total) /\ a = q.output.totin
        BY <1>6 DEF a
      <4>2. /\ q.output.totout \in Nat /\ q.posEOF \in Nat
            /\ q.output.totin <= q.output.totout + cap
            /\ FirstUnassembled(q) = q.output.totin
            /\ FirstUnacceptable(q) = Lesser(q.output.totout + cap, q.posEOF)
        BY <4>1, SoundFacts
      <4> QED BY <4>1, <4>2
    <3> QED BY <1>6, <3>1 DEF Lesser
  <2>3. index + len < a \/ index >= limit
    <3>1. index + len < a \/ index >= limit \/ index > end
      BY <1>3, <1>6, <1>13, <2>2 DEF Rejected
    <3> HIDE DEF limit, end
    <3> QED BY <2>2, <3>1
  <2>4. Takes(q, q, index, len, cap)
    <3>1. index + len <= q.output.totin \/ index >= limit
      BY <1>6, <1>8, <2>3 DEF a
    <3> QED BY ZenonT(30), <1>6, <3>1, TakesNothing
  <2>5. w.output.isInputEnd <=> a = end
    <3>1. CASE eof
      <4>1. end = total /\ index < total /\ index + len = total
        BY <1>1, <1>13, <3>1
      <4> HIDE DEF limit, end
      <4>2. a = end => FALSE
        BY <1>1, <1>8, <2>2, <2>3, <4>1
      <4> QED BY <1>9, <4>2
    <3>2. CASE ~eof
      BY <1>4, <3>2
    <3> QED BY <3>1, <3>2
  <2>6. Well(q, cap, total)
    BY <1>6, <2>5 DEF Well, a
  <2> QED BY <2>1, <2>4, <2>6
<1>14. ASSUME len # 0, ~Rejected(q, data, index) PROVE Well(s, cap, total) /\ Takes(q, s, index, len, cap)
  <2> DEFINE v == Absorb(q, data, index)
  <2>1. s = EndAtEOF(v)
    BY <1>2, <1>7, <1>14
  <2>2. Sound(v, cap, total) /\ Takes(q, v, index, len, cap) /\ v.output.isInputEnd = q.output.isInputEnd
    BY <1>6, <1>14, AbsorbFacts, SMTT(30)
  <2> HIDE DEF v
  <2> QED BY <1>11, <2>1, <2>2
<1>15. Well(s, cap, total) /\ Takes(q, s, index, len, cap)
  BY <1>12, <1>13, <1>14
<1>16. Ends(w, s)
  <2> DEFINE b == s.output.totin
  <2>1. /\ s.output.isInputEnd <=> b = s.posEOF
        /\ s.posEOF = end /\ a <= b
    BY <1>6, <1>15 DEF Well, Takes, a
  <2>2. b \in Nat /\ b <= total
    BY <1>15, SoundFacts DEF Well
  <2> HIDE DEF b, end
  <2>3. a = end => b = end
    BY <1>1, <1>5, <1>8, <2>1, <2>2
  <2> QED BY <1>9, <2>1, <2>3 DEF Ends, b
<1> QED BY <1>6, <1>15, <1>16 DEF q, s

\* From w to s n bytes are read.
Consumed(w, s, n) ==
    /\ s.posEOF = w.posEOF /\ s.unassembledBuffer = w.unassembledBuffer
    /\ s.output.totin = w.output.totin /\ s.output.totout = w.output.totout + n
    /\ s.output.isInputEnd = w.output.isInputEnd

\* read() takes bytes out of the output only.
LEMMA ReadOutput ==
    ASSUME NEW cap \in Nat, NEW total \in Nat, total < SIZE_MAX,
           NEW w, Well(w, cap, total), NEW n \in Nat, n <= Len(w.output.buff)
    PROVE  LET s == [w EXCEPT !.output = StreamRead(w.output, n)]
           IN  Well(s, cap, total) /\ Consumed(w, s, n)
<1> DEFINE b == w.output
           o == StreamRead(b, n)
           s == [w EXCEPT !.output = o]
           m == Len(b.buff)
           x == b.totout
<1>1. Sound(w, cap, total) /\ w \in ReassemblerState /\ b \in Bounded(Nat) /\ b.capacity = cap
  BY DEF Well, Sound
<1>2. m \in Nat /\ x \in Nat /\ b.totin = x + m /\ FromStream(b.buff, x) /\ cap \in Nat
  BY <1>1, SoundFacts DEF Sound
<1>3. Lesser(n, m) = n
  BY <1>2 DEF Lesser
<1>4. o = PopOutput(b, n)
  BY <1>1, ReadFacts
<1>5. /\ o \in Bounded(Nat) /\ SameButBytes(o, b) /\ o.totin = b.totin
      /\ o.totout = x + n /\ Len(o.buff) = m - n
      /\ \A i \in 1 .. Len(o.buff) : o.buff[i] = b.buff[i + n]
  <2> DEFINE p == PopOutput(b, n)
  <2> HIDE DEF b, o, m, x
  <2>1. /\ p \in Bounded(Nat) /\ SameButBytes(p, b) /\ p.totin = b.totin
        /\ p.totout = b.totout + Lesser(n, Len(b.buff))
        /\ Len(p.buff) = Len(b.buff) - Lesser(n, Len(b.buff))
        /\ \A i \in 1 .. Len(p.buff) : p.buff[i] = b.buff[i + Lesser(n, Len(b.buff))]
    BY <1>1, PopFacts
  <2> HIDE DEF p
  <2>2. o = p /\ Lesser(n, Len(b.buff)) = n
    BY <1>3, <1>4 DEF p, m
  <2>3. o.totout = x + n /\ Len(o.buff) = m - n
    BY <2>1, <2>2 DEF x, m
  <2>4. \A i \in 1 .. Len(o.buff) : o.buff[i] = b.buff[i + n]
    BY <2>1, <2>2
  <2> QED BY <2>1, <2>2, <2>3, <2>4
<1>6. o.capacity = cap /\ o.isInputEnd = b.isInputEnd /\ o \in ByteStreamState(Nat)
  BY <1>1, <1>5 DEF SameButBytes, Bounded
<1> HIDE DEF o
<1>7. /\ s \in ReassemblerState /\ s.output = o /\ s.posEOF = w.posEOF
      /\ s.unassembledBuffer = w.unassembledBuffer /\ s.capacity = w.capacity
      /\ s.unassembledBytes = w.unassembledBytes
  BY <1>1, <1>6 DEF ReassemblerState
<1> HIDE DEF s
<1>8. FromStream(o.buff, o.totout)
  <2>1. ASSUME NEW i \in 1 .. Len(o.buff) PROVE o.buff[i] = o.totout + i - 1
    <3>1. i + n \in 1 .. m
      BY <1>2, <1>5
    <3>2. b.buff[i + n] = x + (i + n) - 1
      BY <1>2, <3>1 DEF FromStream
    <3>3. o.totout = x + n /\ o.buff[i] = b.buff[i + n] /\ i \in Int
      BY <1>5
    <3>4. x \in Nat /\ n \in Nat
      BY <1>2, <1>5
    <3> HIDE DEF m, x
    <3> QED BY <3>2, <3>3, <3>4
  <2> QED BY <2>1 DEF FromStream
<1>9. o.totin = o.totout + Len(o.buff)
  <2> HIDE DEF m, x
  <2> QED BY <1>2, <1>5
<1>10. ASSUME NEW k \in Covered(w.unassembledBuffer)
       PROVE  o.totin < k /\ k < o.totout + cap /\ k < total
  <2>1. k \in Nat /\ b.totin < k /\ k < x + cap /\ k < total
    BY <1>1, SoundFacts DEF Sound
  <2> HIDE DEF m, x
  <2> QED BY <1>2, <1>5, <2>1
<1>11. Sound(s, cap, total)
  BY Zenon, <1>1, <1>5, <1>6, <1>7, <1>8, <1>9, <1>10 DEF Sound
<1>12. Well(s, cap, total)
  BY <1>5, <1>6, <1>7, <1>11 DEF Well
<1>13. Consumed(w, s, n)
  BY <1>5, <1>6, <1>7 DEF Consumed
<1> QED BY <1>12, <1>13 DEF s, o

\* The stored pairs without the sentinel stand for the same indices.
LEMMA DropSentinel ==
    ASSUME NEW list, Chain(list), Sealed(list)
    PROVE  LET st == SubSeq(list, 1, Len(list) - 1)
           IN  /\ Len(st) = Len(list) - 1 /\ Len(list) \in Nat /\ Len(list) > 0
               /\ \A i \in 1 .. Len(st) : st[i] = list[i]
               /\ UNION {st[i].first .. st[i].first + Len(st[i].second) - 1 :
                             i \in 1 .. Len(st)} = Covered(list)
<1> DEFINE n == Len(list)
           st == SubSeq(list, 1, n - 1)
           U == UNION {st[i].first .. st[i].first + Len(st[i].second) - 1 : i \in 1 .. Len(st)}
<1>1. list \in Seq(Pair) /\ n \in Nat /\ n > 0
  BY ChainFacts, EmptySeq DEF Sealed, Chain
<1>2. \A i \in 1 .. n - 1 : list[i] \in Pair
  BY <1>1, ElementOfSeq
<1> HIDE DEF n
<1>3. /\ Len(st) = IF 1 <= n - 1 THEN (n - 1) - 1 + 1 ELSE 0
      /\ \A i \in 1 .. (n - 1) - 1 + 1 : st[i] = list[1 + i - 1]
  BY <1>1, <1>2, SubSeqProperties
<1> HIDE DEF st
<1>4. Len(st) = n - 1
  BY <1>1, <1>3
<1>5. \A i \in 1 .. Len(st) : st[i] = list[i]
  BY <1>1, <1>3, <1>4
<1>6. \A i \in 1 .. n - 1 : list[i].first \in Nat /\ PairEnd(list[i]) \in Nat /\ Len(list[i].second) \in Nat
  BY <1>2, PairFacts
<1>7. ASSUME NEW m \in U PROVE m \in Covered(list)
  <2>1. PICK i \in 1 .. Len(st) : m \in st[i].first .. st[i].first + Len(st[i].second) - 1
    OBVIOUS
  <2>2. i \in 1 .. n - 1 /\ i \in 1 .. n /\ m \in list[i].first .. list[i].first + Len(list[i].second) - 1
    <3>1. st[i] = list[i]
      BY <1>5
    <3>2. i \in 1 .. n - 1 /\ i \in 1 .. n
      BY <1>1, <1>4
    <3> QED BY <2>1, <3>1, <3>2
  <2>3. m \in Nat /\ list[i].first <= m /\ m < PairEnd(list[i])
    BY <1>6, <2>2 DEF PairEnd
  <2> QED BY <2>2, <2>3 DEF Covered, CoveredTo, n
<1>8. ASSUME NEW m \in Covered(list) PROVE m \in U
  <2>1. PICK i \in 1 .. n : m \in Nat /\ list[i].first <= m /\ m < PairEnd(list[i])
    BY DEF Covered, CoveredTo, n
  <2>2. i # n
    <3>1. ASSUME i = n PROVE FALSE
      <4>1. list[i] = Sentinel
        BY <3>1 DEF Sealed, n
      <4> QED BY <2>1, <4>1, SentinelFacts
    <3> QED BY <3>1
  <2>3. i \in 1 .. n - 1
    BY <1>1, <2>2
  <2>4. m \in list[i].first .. list[i].first + Len(list[i].second) - 1
    BY <1>6, <2>1, <2>3 DEF PairEnd
  <2>5. i \in 1 .. Len(st) /\ m \in st[i].first .. st[i].first + Len(st[i].second) - 1
    BY <1>4, <1>5, <2>3, <2>4
  <2> QED BY <2>5
<1>9. U = Covered(list)
  <2> HIDE DEF U
  <2> QED BY <1>7, <1>8
<1> QED BY <1>1, <1>4, <1>5, <1>9 DEF n, st

\* A new reassembler is well and stores nothing.
LEMMA NewFacts ==
    ASSUME NEW cap \in Nat, NEW total \in Nat, total < SIZE_MAX
    PROVE  /\ Well(NewReassembler(cap), cap, total)
           /\ Covered(NewReassembler(cap).unassembledBuffer) = {}
<1> DEFINE r == NewReassembler(cap)
           o == NewByteStream(cap)
           list == <<Sentinel>>
<1>1. r = [unassembledBuffer |-> list, output |-> o, capacity |-> cap,
           posEOF |-> SIZE_MAX, unassembledBytes |-> 0]
  BY DEF NewReassembler
<1>2. /\ cap \in Nat /\ total \in Nat /\ SIZE_MAX \in Nat /\ total < SIZE_MAX
  BY SizeAssumption
<1>3. /\ o \in ByteStreamState(Nat) /\ o.buff = <<>> /\ o.totin = 0 /\ o.totout = 0
      /\ o.capacity = cap /\ o.isInputEnd = FALSE /\ Len(o.buff) = 0
  BY <1>2 DEF NewByteStream, ByteStreamState
<1>4. o \in Bounded(Nat) /\ FromStream(o.buff, 0)
  BY <1>2, <1>3 DEF Bounded, FromStream
<1>5. /\ list \in Seq(Pair) /\ Len(list) = 1 /\ list[1] = Sentinel /\ list # <<>>
  BY SentinelFacts
<1> HIDE DEF o, list, r
<1>6. Chain(list) /\ Sealed(list)
  <2>1. \A i \in 1 .. Len(list) : i = 1
    BY <1>5
  <2>2. \A i \in 1 .. Len(list) : FromStream(list[i].second, list[i].first)
    BY <1>5, <2>1, SentinelFacts
  <2>3. \A i, j \in 1 .. Len(list) : ~(i < j)
    BY <2>1
  <2>4. \A i \in 1 .. Len(list) - 1 : list[i].second # <<>>
    BY <1>5
  <2> QED BY <1>5, <2>2, <2>3, <2>4 DEF Chain, Sealed
<1>7. Covered(list) = {}
  <2>1. ASSUME NEW m \in Covered(list) PROVE FALSE
    <3>1. PICK i \in 1 .. Len(list) : m \in Nat /\ list[i].first <= m /\ m < PairEnd(list[i])
      BY DEF Covered, CoveredTo
    <3>2. list[i] = Sentinel
      BY <1>5
    <3> QED BY <3>1, <3>2, SentinelFacts
  <2> QED BY <2>1
<1>8. Cardinality(Covered(list)) = 0
  BY <1>7, FS_EmptySet
<1>9. r \in ReassemblerState
  BY <1>1, <1>2, <1>3, <1>5 DEF ReassemblerState, PairList, Pair
<1>10. /\ r.unassembledBuffer = list /\ r.output = o /\ r.capacity = cap
       /\ r.posEOF = SIZE_MAX /\ r.unassembledBytes = 0
  BY <1>1
<1>11. Sound(r, cap, total)
  <2>1. r.output.totin = r.output.totout + Len(r.output.buff) /\ r.output.totin <= total
    BY <1>2, <1>3, <1>10
  <2>2. /\ r.output \in Bounded(Nat) /\ r.capacity = cap /\ r.output.capacity = cap
        /\ FromStream(r.output.buff, r.output.totout)
    BY <1>3, <1>4, <1>10
  <2>3. /\ Chain(r.unassembledBuffer) /\ Sealed(r.unassembledBuffer)
        /\ r.posEOF \in {total, SIZE_MAX}
        /\ r.unassembledBytes = Cardinality(Covered(r.unassembledBuffer))
        /\ Covered(r.unassembledBuffer) = {}
    BY <1>6, <1>7, <1>8, <1>10
  <2> QED BY <1>9, <2>1, <2>2, <2>3 DEF Sound
<1>12. ~(r.output.totin = r.posEOF) /\ ~r.output.isInputEnd
  BY <1>2, <1>3, <1>10
<1> QED BY <1>7, <1>10, <1>11, <1>12 DEF Well, r

\* A substring without bytes, and without the end, leaves a reassembler as it is.
LEMMA PushEmpty ==
    ASSUME NEW cap \in Nat, NEW total \in Nat, total < SIZE_MAX,
           NEW w, Well(w, cap, total), NEW index
    PROVE  PushSubstring(w, <<>>, index, FALSE) = w
<1>1. w \in ReassemblerState /\ w.output \in ByteStreamState(Nat)
  BY DEF Well, Sound, Bounded
<1>2. w.output.isInputEnd <=> w.output.totin = w.posEOF
  BY DEF Well
<1>3. [w EXCEPT !.posEOF = w.posEOF] = w
  BY <1>1 DEF ReassemblerState
<1>4. PushSubstring(w, <<>>, index, FALSE) = EndAtEOF(w)
  BY <1>3 DEF PushSubstring
<1>5. CASE w.output.totin = w.posEOF
  <2>1. w.output.isInputEnd = TRUE
    BY <1>1, <1>2, <1>5 DEF ByteStreamState
  <2>2. EndInput(w.output) = w.output
    BY Zenon, <1>1, <2>1 DEF EndInput, ByteStreamState
  <2>3. [w EXCEPT !.output = w.output] = w
    BY <1>1 DEF ReassemblerState
  <2> QED BY Zenon, <1>4, <1>5, <2>2, <2>3 DEF EndAtEOF
<1>6. CASE w.output.totin # w.posEOF
  BY Zenon, <1>4, <1>6 DEF EndAtEOF
<1> QED BY Zenon, <1>5, <1>6

\* Stored and unread bytes together fit in the capacity.
LEMMA StoredFit ==
    ASSUME NEW cap \in Nat, NEW total \in Nat, total < SIZE_MAX,
           NEW w, Sound(w, cap, total)
    PROVE  /\ w.unassembledBytes \in Nat
           /\ Len(w.output.buff) + w.unassembledBytes <= cap
<1> DEFINE C == Covered(w.unassembledBuffer)
           a == w.output.totin
           x == w.output.totout
           m == Len(w.output.buff)
           I == a + 1 .. (x + cap) - 1
<1>1. a \in Nat /\ x \in Nat /\ m \in Nat /\ a <= x + cap /\ a = x + m
  BY ZenonT(30), SoundFacts DEF Sound
<1>2. \A n \in C : n \in Nat /\ a < n /\ n < x + cap
  BY SoundFacts DEF Sound
<1>3. w.unassembledBytes = Cardinality(C)
  BY DEF Sound
<1> HIDE DEF C, a, x, m
<1>4. C \subseteq I
  BY <1>1, <1>2
<1>5. IsFiniteSet(I) /\ Cardinality(I) = IF a + 1 > (x + cap) - 1 THEN 0
                                         ELSE ((x + cap) - 1) - (a + 1) + 1
  BY <1>1, FS_Interval
<1>6. IsFiniteSet(C) /\ Cardinality(C) <= Cardinality(I)
  <2> HIDE DEF I
  <2> QED BY <1>4, <1>5, FS_Subset
<1>7. Cardinality(C) \in Nat
  BY <1>6, FS_CardinalityType
<1> HIDE DEF I
<1>8. m + Cardinality(C) <= cap
  BY <1>1, <1>5, <1>6, <1>7
<1> QED BY <1>3, <1>7, <1>8 DEF m

\* From w to s the indices in new are pushed: what is delivered or stored was stored
\* before or is new, and nothing new that fits in the window is dropped.
Pushed(w, s, new, cap) ==
    /\ s.output.totout = w.output.totout /\ w.output.totin <= s.output.totin
    /\ w.output.isInputEnd => s.output.isInputEnd
    /\ w.output.totin .. s.output.totin - 1 \subseteq Covered(w.unassembledBuffer) \cup new
    /\ Covered(s.unassembledBuffer) \subseteq Covered(w.unassembledBuffer) \cup new
    /\ \A n \in new :
          w.output.totin <= n /\ n < w.output.totout + cap
              => n < s.output.totin \/ n \in Covered(s.unassembledBuffer)

\* push_substring() in terms of what is stored and delivered.
LEMMA PushOutcome ==
    ASSUME NEW cap \in Nat, NEW total \in Nat, total < SIZE_MAX,
           NEW w, Well(w, cap, total), NEW index \in Nat, NEW len \in Nat, NEW eof \in BOOLEAN,
           NEW data \in Seq(Nat), Len(data) = len, FromStream(data, index),
           index + len <= total, eof => index + len = total
    PROVE  LET s == PushSubstring(w, data, index, eof)
           IN  Well(s, cap, total) /\ Pushed(w, s, index .. index + len - 1, cap)
               /\ s.posEOF = IF eof THEN index + len ELSE w.posEOF
<1> DEFINE s == PushSubstring(w, data, index, eof)
           end == IF eof THEN index + len ELSE w.posEOF
           q == [w EXCEPT !.posEOF = end]
           a == w.output.totin
           b == s.output.totin
           C == Covered(w.unassembledBuffer)
           new == index .. index + len - 1
           limit == Lesser(w.output.totout + cap, end)
           G == C \cup {i \in new : a <= i /\ i < limit}
<1>1. Well(s, cap, total) /\ Ends(w, s)
  BY Zenon, PushSubstringFacts
<1>2. /\ Takes(q, s, index, len, cap) /\ q.output = w.output
      /\ q.unassembledBuffer = w.unassembledBuffer /\ q.posEOF = end
  BY PushSubstringFacts
<1> HIDE DEF q, s
<1>3. Got(q, index, len, cap) = G
  BY <1>2 DEF Got
<1>4. /\ s.output.totout = w.output.totout /\ s.posEOF = end /\ a <= b
      /\ a .. b - 1 \subseteq G /\ b \notin G
      /\ Covered(s.unassembledBuffer) = {i \in G : i > b}
  BY <1>2, <1>3 DEF Takes
<1>5. Sound(w, cap, total) /\ Sound(s, cap, total)
  BY <1>1 DEF Well
<1>6. b \in Nat /\ w.output.totout \in Nat
  BY <1>5, SoundFacts
<1>7. total <= end /\ end \in Nat
  <2>1. w.posEOF \in Nat /\ total <= w.posEOF
    BY <1>5, SoundFacts
  <2> QED BY <2>1
<1> HIDE DEF end, a, b, C
<1>8. ASSUME NEW n \in new, a <= n, n < w.output.totout + cap
      PROVE  n < b \/ n \in Covered(s.unassembledBuffer)
  <2>1. n < limit /\ n \in Int
    BY <1>6, <1>7, <1>8 DEF Lesser
  <2>2. n \in G
    BY <1>8, <2>1
  <2>3. n # b
    BY <1>4, <2>2
  <2>4. n < b \/ n > b
    BY <1>6, <2>1, <2>3
  <2> QED BY <1>4, <2>2, <2>4
<1>9. G \subseteq C \cup new
  OBVIOUS
<1>10. w.output.isInputEnd => s.output.isInputEnd
  BY <1>1 DEF Ends
<1>11. Covered(s.unassembledBuffer) \subseteq C \cup new
  BY <1>4, <1>9
<1>12. a .. b - 1 \subseteq C \cup new
  BY <1>4, <1>9
<1> HIDE DEF G, limit
<1> QED BY Zenon, <1>1, <1>4, <1>8, <1>10, <1>11, <1>12 DEF a, b, C, end, s, Pushed
-----------------------------------------------------------------------------
(***************************************************************************)
(* TCPReceiver.                                                            *)
(***************************************************************************)
\* A receiver of the stream of `total` bytes that has initial sequence number isn.
RcvGood(v, isn, cap, total) ==
    /\ v \in TCPReceiverState /\ v.capacity = cap
    /\ Well(v.reassembler, cap, total)
    /\ v.syn => v.isn = isn

\* From v to u the segment numbered a is taken in: the receiver is open, and the payload
\* is pushed at its stream index, or the segment has neither payload nor FIN.
Taken(v, u, a, seg, isn, cap, total) ==
    LET w == v.reassembler
        s == u.reassembler
        index == a + Bit(seg.syn) - 1
        len == Len(seg.payload)
    IN  /\ seg.syn # v.syn /\ u.syn = TRUE /\ u.isn = isn
        /\ RcvGood(u, isn, cap, total)
        /\ \/ s = w /\ len = 0 /\ ~seg.fin
           \/ /\ index \in Nat /\ (seg.fin => index + len = total)
              /\ Pushed(w, s, index .. index + len - 1, cap)
              /\ s.posEOF = IF seg.fin THEN index + len ELSE w.posEOF

\* segment_received() ignores a segment or takes it in at the index the peer gave it.
\* No two sequence numbers of the stream, its SYN and FIN included, look alike on the
\* wire, and no more bytes can be stored than half of the sequence space: the checkpoint
\* given to unwrap(), a number of stored bytes, is good enough for such a stream.
LEMMA SegmentTaken ==
    ASSUME NEW isn \in WrappingInt32, NEW cap \in Nat, NEW total \in Nat,
           total + 1 < M, total < SIZE_MAX, cap <= M \div 2,
           NEW v, RcvGood(v, isn, cap, total),
           NEW n \in Nat, n <= total, NEW e,
           NEW seg \in Segment, NEW a \in Nat, Numbered(seg, a, isn, n, e),
           seg.fin => n = total
    PROVE  LET u == ReceiverSegmentReceived(v, seg)
           IN  (seg.syn = v.syn /\ u = v) \/ Taken(v, u, a, seg, isn, cap, total)
<1> DEFINE w == v.reassembler
           syn == seg.syn
           fin == seg.fin
           len == Len(seg.payload)
           index == a + Bit(syn) - 1
           u == [v EXCEPT !.syn = TRUE, !.isn = IF syn THEN seg.seqno ELSE @,
                          !.fin = @ \/ fin]
           s == PushSubstring(w, seg.payload, StreamIndex(u, seg), fin)
           z == ReceiverSegmentReceived(v, seg)
<1>1. /\ syn \in BOOLEAN /\ fin \in BOOLEAN /\ seg.payload \in Seq(Nat) /\ len \in Nat
      /\ Bit(syn) \in 0 .. 1
  BY LenProperties DEF Segment, Bit
<1>2. v \in TCPReceiverState /\ v.capacity = cap /\ Well(w, cap, total) /\ (v.syn => v.isn = isn)
  BY DEF RcvGood
<1>3. /\ seg.seqno = Wrap(a, isn) /\ (syn => a = 0)
      /\ FromStream(seg.payload, index)
      /\ len > 0 \/ fin => a + Bit(syn) >= 1 /\ a + Bit(syn) + len <= n + 1
      /\ fin => a + Bit(syn) + len = n + 1
  BY DEF Numbered
<1>4. ASSUME syn = v.syn
      PROVE  z = v
  BY <1>4 DEF Ignores, ReceiverSegmentReceived
<1>5. ASSUME syn # v.syn
      PROVE  Taken(v, z, a, seg, isn, cap, total)
  <2>1. (IF syn THEN seg.seqno ELSE v.isn) = isn
    <3>1. CASE syn
      BY <1>3, <3>1, MAssumption DEF Wrap, WrappingInt32
    <3>2. CASE ~syn
      <4>1. v.syn
        BY <1>1, <1>2, <1>5, <3>2 DEF TCPReceiverState
      <4> QED BY <1>2, <3>2, <4>1
    <3> QED BY <3>1, <3>2
  <2>2. /\ u \in TCPReceiverState /\ u.capacity = cap /\ u.syn = TRUE /\ u.isn = isn
        /\ u.reassembler = w
    BY ZenonT(30), <1>1, <1>2, <2>1 DEF TCPReceiverState
  <2>3. z = [u EXCEPT !.reassembler = s]
    BY <1>5, <2>2 DEF ReceiverSegmentReceived, Ignores
  <2>4. ASSUME Well(s, cap, total)
        PROVE  RcvGood(z, isn, cap, total) /\ z.syn = TRUE /\ z.isn = isn /\ z.reassembler = s
    <3>1. s \in ReassemblerState
      BY <2>4 DEF Well, Sound
    <3> HIDE DEF s, u
    <3> QED BY <2>2, <2>3, <2>4, <3>1 DEF TCPReceiverState, RcvGood
  <2> HIDE DEF z
  <2>5. CASE len = 0 /\ ~fin
    <3>1. seg.payload = <<>> /\ fin = FALSE
      BY <1>1, <2>5, SMTT(30)
    <3>2. PushSubstring(w, <<>>, StreamIndex(u, seg), FALSE) = w
      BY <1>2, PushEmpty, ZenonT(30)
    <3>3. s = w
      BY Zenon, <3>1, <3>2
    <3> HIDE DEF s, u
    <3> QED BY Zenon, <1>2, <1>5, <2>4, <2>5, <3>3 DEF Taken
  <2>6. CASE len > 0 \/ fin
    <3>1. index \in Nat /\ index + len <= total /\ (fin => index + len = total)
      <4> DEFINE y == Bit(syn)
      <4>1. /\ y \in 0 .. 1 /\ len \in Nat
            /\ a + y >= 1 /\ a + y + len <= n + 1
            /\ fin => a + y + len = n + 1
        BY <1>1, <1>3, <2>6
      <4>2. index = (a + y) - 1
        BY <4>1
      <4> HIDE DEF y, len, fin, index
      <4>3. fin => n = total
        BY DEF fin
      <4> QED BY <4>1, <4>2, <4>3
    <3>2. StreamIndex(u, seg) = index
      <4>1. CASE syn
        BY <1>3, <4>1 DEF StreamIndex, Bit
      <4>2. CASE ~syn
        <5>1. a >= 1 /\ a - 1 <= total /\ a < M /\ index = a - 1
          BY <1>1, <3>1, <4>2, MAssumption DEF Bit
        <5>2. w.unassembledBytes \in Nat /\ w.unassembledBytes <= M \div 2
          <6>1. Sound(w, cap, total)
            BY <1>2 DEF Well
          <6>2. Len(w.output.buff) \in Nat
            BY <6>1, SoundFacts
          <6>3. /\ w.unassembledBytes \in Nat
                /\ Len(w.output.buff) + w.unassembledBytes <= cap
            BY <6>1, StoredFit
          <6>4. M \div 2 \in Nat
            BY MAssumption
          <6> QED BY <6>2, <6>3, <6>4, SMTT(30)
        <5>3. Unwrap(Wrap(a, isn), isn, w.unassembledBytes) = a
          BY <5>1, <5>2, UnwrapFirstTurn
        <5>4. Minus(a, 1) = a - 1
          BY <5>1, SizeAssumption DEF Minus
        <5> HIDE DEF u
        <5> QED BY <1>3, <2>2, <4>2, <5>1, <5>3, <5>4 DEF StreamIndex
      <4> QED BY <4>1, <4>2
    <3>3. s = PushSubstring(w, seg.payload, index, fin)
      BY <3>2
    <3>5. FromStream(seg.payload, index) /\ Len(seg.payload) = len
      BY <1>3
    <3> HIDE DEF s, index, fin, w, len
    <3>4. /\ Well(s, cap, total) /\ Pushed(w, s, index .. index + len - 1, cap)
          /\ s.posEOF = IF fin THEN index + len ELSE w.posEOF
      BY <1>1, <1>2, <3>1, <3>3, <3>5, PushOutcome
    <3> QED BY ZenonT(30), <1>5, <2>4, <3>1, <3>4 DEF index, fin, w, len, Taken
  <2> QED BY <1>1, <2>5, <2>6
<1> QED BY <1>4, <1>5

\* Of the peer's stream n bytes are written, and it has ended if e: nothing else is
\* delivered, stored or taken for the end.
Within(v, n, e, total) ==
    /\ v.reassembler.output.totin <= n
    /\ \A i \in Covered(v.reassembler.unassembledBuffer) : i < n
    /\ v.reassembler.posEOF = total => e

\* The sequence numbers received in order, the SYN and the FIN included.
Received(v) == StreamOut(v).totin + Bit(v.syn) + Bit(StreamOut(v).isInputEnd)

\* The numbers of a receiver.
LEMMA ReceivedFacts ==
    ASSUME NEW isn, NEW cap \in Nat, NEW total \in Nat, total < SIZE_MAX,
           NEW v, RcvGood(v, isn, cap, total)
    PROVE  /\ Received(v) \in Nat /\ Received(v) <= total + 2
           /\ StreamOut(v).totin \in Nat /\ StreamOut(v).totin <= total
           /\ StreamOut(v).isInputEnd <=> StreamOut(v).totin = total
                                          /\ v.reassembler.posEOF = total
           /\ FromStream(StreamOut(v).buff, StreamOut(v).totout)
<1> DEFINE w == v.reassembler
           b == StreamOut(v)
           y == Bit(v.syn)
           f == Bit(b.isInputEnd)
<1>1. Sound(w, cap, total) /\ (b.isInputEnd <=> b.totin = w.posEOF) /\ b = w.output
  BY DEF RcvGood, Well, StreamOut
<1>2. b.totin \in Nat /\ b.totin <= total
  BY <1>1, SoundFacts
<1>3. w.posEOF \in {total, SIZE_MAX} /\ FromStream(b.buff, b.totout)
  BY <1>1 DEF Sound
<1>4. y \in 0 .. 1 /\ f \in 0 .. 1
  BY DEF Bit
<1>5. Received(v) = (b.totin + y) + f
  BY DEF Received
<1> HIDE DEF b, w, y, f
<1>6. b.isInputEnd <=> b.totin = total /\ w.posEOF = total
  BY <1>1, <1>2, <1>3, SizeAssumption
<1>7. Received(v) \in Nat /\ Received(v) <= total + 2
  BY <1>2, <1>4, <1>5
<1> QED BY <1>2, <1>3, <1>6, <1>7 DEF b, w

\* A step that takes back neither a byte, nor the SYN, nor the end, keeps what is received.
LEMMA ReceivedGrows ==
    ASSUME NEW isn, NEW cap \in Nat, NEW total \in Nat, total < SIZE_MAX,
           NEW v, RcvGood(v, isn, cap, total), NEW u, RcvGood(u, isn, cap, total),
           StreamOut(v).totin <= StreamOut(u).totin, v.syn => u.syn,
           StreamOut(v).isInputEnd => StreamOut(u).isInputEnd
    PROVE  Received(v) <= Received(u)
<1> DEFINE b == StreamOut(v).totin
           c == StreamOut(u).totin
           y == Bit(v.syn)
           z == Bit(u.syn)
           f == Bit(StreamOut(v).isInputEnd)
           g == Bit(StreamOut(u).isInputEnd)
<1>1. b \in Nat /\ c \in Nat /\ b <= c
  BY ReceivedFacts
<1>2. y \in 0 .. 1 /\ z \in 0 .. 1 /\ y <= z /\ f \in 0 .. 1 /\ g \in 0 .. 1 /\ f <= g
  BY DEF Bit
<1>3. Received(v) = (b + y) + f /\ Received(u) = (c + z) + g
  BY DEF Received
<1> HIDE DEF b, c, y, z, f, g
<1> QED BY <1>1, <1>2, <1>3

\* segment_received() takes from a segment of the peer nothing that is not in its stream.
LEMMA ReceiveGood ==
    ASSUME NEW isn \in WrappingInt32, NEW cap \in Nat, NEW total \in Nat,
           total + 1 < M, total < SIZE_MAX, cap <= M \div 2,
           NEW v, RcvGood(v, isn, cap, total),
           NEW n \in Nat, n <= total, NEW e, e => n = total, Within(v, n, e, total),
           NEW seg \in Segment, NEW a \in Nat, Numbered(seg, a, isn, n, e)
    PROVE  LET u == ReceiverSegmentReceived(v, seg)
           IN  /\ RcvGood(u, isn, cap, total) /\ Within(u, n, e, total)
               /\ Received(v) <= Received(u)
               /\ v.syn => u.syn
               /\ seg.syn => u.syn
<1> DEFINE u == ReceiverSegmentReceived(v, seg)
           w == v.reassembler
           s == u.reassembler
           len == Len(seg.payload)
           y == Bit(seg.syn)
           index == a + y - 1
           Goal == /\ RcvGood(u, isn, cap, total) /\ Within(u, n, e, total)
                   /\ Received(v) <= Received(u)
                   /\ v.syn => u.syn
                   /\ seg.syn => u.syn
<1>1. /\ seg.fin => e /\ a + y + len = n + 1
      /\ len > 0 \/ seg.fin => a + y >= 1 /\ a + y + len <= n + 1
  BY DEF Numbered
<1>2. (seg.syn = v.syn /\ u = v) \/ Taken(v, u, a, seg, isn, cap, total)
  BY <1>1, SegmentTaken
<1>3. y \in 0 .. 1 /\ len \in Nat
  BY LenProperties DEF Segment, Bit
<1> HIDE DEF u
<1>4. ASSUME seg.syn = v.syn, u = v
      PROVE  Goal
  <2>1. Received(v) <= Received(u)
    BY <1>4, ReceivedFacts, SMTT(30)
  <2> QED BY <1>4, <2>1
<1>5. ASSUME Taken(v, u, a, seg, isn, cap, total)
      PROVE  Goal
  <2>1. RcvGood(u, isn, cap, total) /\ u.syn = TRUE
    BY ZenonT(30), <1>5 DEF Taken
  <2>2. CASE s = w
    <3>1. StreamOut(v) = StreamOut(u) /\ StreamOut(v).totin \in Nat
      BY <2>2, ReceivedFacts DEF StreamOut
    <3>2. Received(v) <= Received(u)
      BY <2>1, <3>1, ReceivedGrows
    <3> QED BY <2>1, <2>2, <3>2 DEF Within
  <2>3. CASE /\ index \in Nat /\ (seg.fin => index + len = total)
             /\ Pushed(w, s, index .. index + len - 1, cap)
             /\ s.posEOF = IF seg.fin THEN index + len ELSE w.posEOF
    <3> DEFINE C == Covered(w.unassembledBuffer)
               D == Covered(s.unassembledBuffer)
               b == w.output.totin
               c == s.output.totin
               new == index .. index + len - 1
    <3>1. /\ b <= c /\ (w.output.isInputEnd => s.output.isInputEnd)
          /\ b .. c - 1 \subseteq C \cup new /\ D \subseteq C \cup new
      BY <2>3 DEF Pushed
    <3>2. b \in Nat /\ c \in Nat /\ D \subseteq Nat
      BY <2>1, SoundFacts DEF RcvGood, Well
    <3>3. b <= n /\ \A i \in C : i < n
      BY DEF Within
    <3>4. \A i \in new : i < n
      <4>1. index = (a + y) - 1
        BY <1>3
      <4> HIDE DEF y, len, index
      <4> QED BY <1>1, <1>3, <4>1
    <3>5. s.posEOF = total => e
      BY <1>1, <2>3 DEF Within
    <3>6. Received(v) <= Received(u)
      BY <2>1, <3>1, ReceivedGrows DEF StreamOut
    <3>7. c <= n /\ \A i \in D : i < n
      <4> HIDE DEF C, D, b, c, new
      <4>1. CASE c <= b
        BY <3>1, <3>2, <3>3, <3>4, <4>1
      <4>2. CASE c > b
        <5>1. c - 1 \in b .. c - 1
          BY <3>2, <4>2
        <5>2. c - 1 < n
          BY <3>1, <3>3, <3>4, <5>1
        <5> QED BY <3>1, <3>2, <3>3, <3>4, <5>2
      <4> QED BY <3>2, <4>1, <4>2
    <3> QED BY <2>1, <3>5, <3>6, <3>7 DEF Within
  <2> QED BY ZenonT(30), <1>5, <2>2, <2>3 DEF Taken
<1> HIDE DEF Goal
<1>6. Goal
  BY <1>2, <1>4, <1>5
<1> QED BY <1>6 DEF Goal, u

\* The receiver of a new connection.
LEMMA NewReceiverGood ==
    ASSUME NEW isn, NEW cap \in Nat, NEW total \in Nat, total < SIZE_MAX, NEW n \in Nat, NEW e
    PROVE  LET v == NewTCPReceiver(cap)
           IN  RcvGood(v, isn, cap, total) /\ Within(v, n, e, total) /\ Received(v) = 0
<1> DEFINE v == NewTCPReceiver(cap)
           w == NewReassembler(cap)
<1>1. v = [reassembler |-> w, capacity |-> cap, isn |-> 0, syn |-> FALSE, fin |-> FALSE]
  BY DEF NewTCPReceiver
<1>2. Well(w, cap, total) /\ Covered(w.unassembledBuffer) = {}
  BY NewFacts
<1>3. w \in ReassemblerState
  BY <1>2 DEF Well, Sound
<1>4. w.output.totin = 0 /\ w.output.isInputEnd = FALSE /\ w.posEOF = SIZE_MAX
  BY DEF NewReassembler, NewByteStream
<1> HIDE DEF w
<1>5. 0 \in WrappingInt32
  BY MAssumption DEF WrappingInt32
<1>6. RcvGood(v, isn, cap, total)
  BY <1>1, <1>2, <1>3, <1>5 DEF TCPReceiverState, RcvGood
<1>7. Within(v, n, e, total)
  BY <1>1, <1>2, <1>4 DEF Within
<1> QED BY <1>1, <1>4, <1>6, <1>7, SMTT(30) DEF Received, StreamOut, Bit

\* A receiver with another reassembler.
WithReassembler(v, s) == [v EXCEPT !.reassembler = s]

\* It stays sound when the bytes received and the end are the same.
LEMMA SwapReassembler ==
    ASSUME NEW isn, NEW cap \in Nat, NEW total \in Nat, total < SIZE_MAX,
           NEW v, RcvGood(v, isn, cap, total), NEW n, NEW e, Within(v, n, e, total),
           NEW s, Well(s, cap, total),
           s.posEOF = v.reassembler.posEOF,
           s.unassembledBuffer = v.reassembler.unassembledBuffer,
           s.output.totin = v.reassembler.output.totin,
           s.output.isInputEnd = v.reassembler.output.isInputEnd
    PROVE  LET u == WithReassembler(v, s)
           IN  /\ RcvGood(u, isn, cap, total) /\ Within(u, n, e, total)
               /\ Received(u) = Received(v) /\ u.syn = v.syn /\ u.reassembler = s
<1> DEFINE u == WithReassembler(v, s)
<1>1. s \in ReassemblerState
  BY Zenon DEF Well, Sound
<1>2. /\ u \in TCPReceiverState /\ u.capacity = v.capacity /\ u.syn = v.syn /\ u.isn = v.isn
      /\ u.reassembler = s
  BY <1>1 DEF RcvGood, TCPReceiverState, WithReassembler
<1> HIDE DEF u
<1>3. RcvGood(u, isn, cap, total)
  BY <1>2 DEF RcvGood
<1>4. Within(u, n, e, total)
  BY <1>2 DEF Within
<1>5. Received(u) = Received(v)
  BY <1>2 DEF Received, StreamOut
<1> QED BY <1>2, <1>3, <1>4, <1>5 DEF u

\* The application reads n bytes.
LEMMA ReceiverRead ==
    ASSUME NEW isn, NEW cap \in Nat, NEW total \in Nat, total < SIZE_MAX,
           NEW v, RcvGood(v, isn, cap, total), NEW n, NEW e, Within(v, n, e, total),
           NEW k \in Nat, k <= BufferSize(StreamOut(v))
    PROVE  LET s == [v.reassembler EXCEPT !.output = StreamRead(@, k)]
               u == WithReassembler(v, s)
           IN  /\ RcvGood(u, isn, cap, total) /\ Within(u, n, e, total)
               /\ Received(u) = Received(v) /\ u.syn = v.syn
               /\ StreamOut(u).isInputEnd = StreamOut(v).isInputEnd
               /\ StreamOut(u).error = StreamOut(v).error
<1> DEFINE w == v.reassembler
           s == [w EXCEPT !.output = StreamRead(w.output, k)]
<1>1. Well(w, cap, total) /\ k <= Len(w.output.buff)
  BY DEF RcvGood, StreamOut, BufferSize
<1>2. Well(s, cap, total) /\ Consumed(w, s, k)
  BY Zenon, <1>1, ReadOutput
<1>3. w \in ReassemblerState /\ w.output \in ByteStreamState(Nat)
  BY Zenon, <1>1 DEF Well, Sound, Bounded
<1>4. s.output.error = w.output.error
  BY ZenonT(30), <1>3 DEF StreamRead, PopOutput, ByteStreamState, ReassemblerState
<1>5. s = [v.reassembler EXCEPT !.output = StreamRead(@, k)]
  BY <1>3 DEF ReassemblerState
<1> HIDE DEF s
<1>6. /\ s.posEOF = w.posEOF /\ s.unassembledBuffer = w.unassembledBuffer
      /\ s.output.totin = w.output.totin /\ s.output.isInputEnd = w.output.isInputEnd
  BY Zenon, <1>2 DEF Consumed
<1>7. /\ RcvGood(WithReassembler(v, s), isn, cap, total)
      /\ Within(WithReassembler(v, s), n, e, total)
      /\ Received(WithReassembler(v, s)) = Received(v) /\ WithReassembler(v, s).syn = v.syn
      /\ WithReassembler(v, s).reassembler = s
  BY <1>2, <1>6, SwapReassembler, SMTT(30)
<1> QED BY Zenon, <1>4, <1>5, <1>6, <1>7 DEF StreamOut

\* set_error() on the inbound stream.
LEMMA ReceiverError ==
    ASSUME NEW isn, NEW cap \in Nat, NEW total \in Nat, total < SIZE_MAX,
           NEW v, RcvGood(v, isn, cap, total), NEW n, NEW e, Within(v, n, e, total)
    PROVE  LET s == [v.reassembler EXCEPT !.output = SetError(@)]
               u == WithReassembler(v, s)
           IN  /\ RcvGood(u, isn, cap, total) /\ Within(u, n, e, total)
               /\ Received(u) = Received(v) /\ u.syn = v.syn
               /\ StreamOut(u).error = TRUE
<1> DEFINE w == v.reassembler
           b == SetError(w.output)
           s == [w EXCEPT !.output = b]
<1>1. Well(w, cap, total) /\ w \in ReassemblerState /\ w.output \in Bounded(Nat)
      /\ w.output \in ByteStreamState(Nat)
  BY Zenon DEF RcvGood, Well, Sound, Bounded
<1>2. /\ b \in ByteStreamState(Nat) /\ b.buff = w.output.buff /\ b.totin = w.output.totin
      /\ b.totout = w.output.totout /\ b.capacity = w.output.capacity
      /\ b.isInputEnd = w.output.isInputEnd /\ b.error = TRUE
  BY Zenon, <1>1 DEF SetError, ByteStreamState
<1>3. b \in Bounded(Nat)
  BY Zenon, <1>1, <1>2 DEF Bounded
<1> HIDE DEF b
<1>4. /\ s \in ReassemblerState /\ s.output = b /\ s.capacity = w.capacity
      /\ s.posEOF = w.posEOF /\ s.unassembledBuffer = w.unassembledBuffer
      /\ s.unassembledBytes = w.unassembledBytes
  BY <1>1, <1>2 DEF ReassemblerState
<1>5. s = [v.reassembler EXCEPT !.output = SetError(@)]
  BY <1>1 DEF ReassemblerState, b
<1> HIDE DEF s
<1>6. Well(s, cap, total)
  BY Zenon, <1>1, <1>2, <1>3, <1>4 DEF Well, Sound
<1>7. /\ RcvGood(WithReassembler(v, s), isn, cap, total)
      /\ Within(WithReassembler(v, s), n, e, total)
      /\ Received(WithReassembler(v, s)) = Received(v) /\ WithReassembler(v, s).syn = v.syn
      /\ WithReassembler(v, s).reassembler = s
  <2>1. /\ s.posEOF = v.reassembler.posEOF
        /\ s.unassembledBuffer = v.reassembler.unassembledBuffer
        /\ s.output.totin = v.reassembler.output.totin
        /\ s.output.isInputEnd = v.reassembler.output.isInputEnd
    BY Zenon, <1>2, <1>4
  <2> HIDE DEF w
  <2> QED BY <1>6, <2>1, SwapReassembler
<1> QED BY ZenonT(30), <1>2, <1>4, <1>5, <1>7 DEF StreamOut
=============================================================================
