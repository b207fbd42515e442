------------------------ MODULE StreamReassemblerOps ------------------------
(***************************************************************************)
(* The operations of StreamReassembler (libsponge/stream_reassembler.cc)   *)
(* as functions of its state.  unassembledBuffer is the std::list of       *)
(* (index, string) pairs; like the code's, it ends with a sentinel pair at *)
(* the largest index.                                                      *)
(***************************************************************************)
EXTENDS Integers, ByteStreamOps

CONSTANT SIZE_MAX    \* ULONG_LONG_MAX, the largest size_t

ASSUME SizeAssumption == SIZE_MAX \in Nat

\* Addition and subtraction of size_t values.
Plus(a, b) == (a + b) % (SIZE_MAX + 1)
Minus(a, b) == (a - b) % (SIZE_MAX + 1)

Sentinel == [first |-> SIZE_MAX, second |-> <<>>]

PairList == Seq([first : Nat, second : Seq(Nat)])

ReassemblerState ==
    [unassembledBuffer : PairList, output : ByteStreamState(Nat),
     capacity : Nat, posEOF : Nat, unassembledBytes : Nat]

NewReassembler(capacity) ==
    [unassembledBuffer |-> <<Sentinel>>, output |-> NewByteStream(capacity),
     capacity |-> capacity, posEOF |-> SIZE_MAX, unassembledBytes |-> 0]

\* std::string::substr(from, count): at most count bytes from offset from.
Substr(data, from, count) ==
    SubSeq(data, from + 1, Lesser(from + count, Len(data)))

\* One iteration of the loop of push_unassembledString() over the stored pairs:
\* acc is the list rebuilt so far, the position reached and the bytes added;
\* `it` is the pair the iterator stands on.
PushStep(acc, it, data, index) ==
    LET pos  == Greater(acc.pos, index)
        temp == Substr(data, pos - index, it.first - pos)
        gap  == IF temp = <<>> THEN <<>> ELSE <<[first |-> pos, second |-> temp]>>
        past == it.first + Len(it.second)
        kept == Append(acc.list, it)
    IN  IF acc.pos >= index + Len(data)
        THEN [acc EXCEPT !.list = kept]
        ELSE IF it.first < index
        THEN [acc EXCEPT !.list = kept, !.pos = past]
        ELSE IF it.first < pos
        THEN [acc EXCEPT !.list = kept, !.pos = pos]
        ELSE [list |-> acc.list \o Append(gap, it), pos |-> past,
              added |-> acc.added + Len(temp)]

\* push_unassembledString(): store the parts of data that are not stored yet.
\* loop[k] is the outcome of the first k pairs.
PushUnassembledString(list, data, index) ==
    LET loop[k \in 0 .. Len(list)] ==
            IF k = 0 THEN [list |-> <<>>, pos |-> index, added |-> 0]
            ELSE PushStep(loop[k - 1], list[k], data, index)
    IN  loop[Len(list)]

\* Mutant: gaps are ignored.
Popable_IgnoresGap(acc, firstUnassembled) == acc.list[1].first < SIZE_MAX

\* The loop of pop_unassembledString() goes on: the first pair starts where the
\* assembled bytes end.
Popable(acc, firstUnassembled) ==
    /\ acc.list[1].first < SIZE_MAX
    /\ acc.list[1].first = firstUnassembled + Len(acc.temp)

PopStep(acc, firstUnassembled) ==
    IF Popable(acc, firstUnassembled)
    THEN [list |-> Tail(acc.list), temp |-> acc.temp \o acc.list[1].second]
    ELSE acc

\* pop_unassembledString(): the bytes that follow the assembled ones without a
\* gap, and the list without them.  Each iteration that goes on removes a pair, so
\* Len(list) iterations are enough.
PopUnassembledString(list, firstUnassembled) ==
    LET loop[k \in 0 .. Len(list)] ==
            IF k = 0 THEN [list |-> list, temp |-> <<>>]
            ELSE PopStep(loop[k - 1], firstUnassembled)
    IN  loop[Len(list)]

FirstUnassembled(r) == r.output.totout + BufferSize(r.output)

\* Mutant: the window starts at the first unassembled byte.
FirstUnacceptable_FromWritten(r) == Lesser(r.output.totin + r.capacity, r.posEOF)

FirstUnacceptable(r) == Lesser(r.output.totout + r.capacity, r.posEOF)

\* Mutants: the last acceptable byte is refused; bytes out of order are refused.
Rejected_LastByte(r, data, index) ==
    \/ Plus(index, Len(data)) < FirstUnassembled(r)
    \/ index + 1 >= FirstUnacceptable(r)

Rejected_OutOfOrder(r, data, index) ==
    \/ Plus(index, Len(data)) < FirstUnassembled(r)
    \/ index >= FirstUnacceptable(r)
    \/ index > FirstUnassembled(r)

\* Lines 31-32: the substring ends before the first unassembled byte or starts
\* where nothing is accepted.
Rejected(r, data, index) ==
    \/ Plus(index, Len(data)) < FirstUnassembled(r)
    \/ index >= FirstUnacceptable(r)
    \/ index > r.posEOF

\* Mutant: bytes already assembled are stored again.
Absorb_NoClip(r, data, index) ==
    LET newString == Substr(data, 0, Minus(FirstUnacceptable(r), index))
        pushed    == PushUnassembledString(r.unassembledBuffer, newString, index)
        popped    == PopUnassembledString(pushed.list, FirstUnassembled(r))
    IN  [r EXCEPT !.unassembledBuffer = popped.list,
                  !.unassembledBytes  = @ + pushed.added - Len(popped.temp),
                  !.output            = StreamWrite(@, popped.temp)]

\* Lines 33-40: store what is new and acceptable, and move what has become
\* contiguous to the output.
Absorb(r, data, index) ==
    LET startPos  == Greater(index, FirstUnassembled(r))
        newString == Substr(data, startPos - index, Minus(FirstUnacceptable(r), startPos))
        pushed    == PushUnassembledString(r.unassembledBuffer, newString, startPos)
        popped    == PopUnassembledString(pushed.list, FirstUnassembled(r))
    IN  [r EXCEPT !.unassembledBuffer = popped.list,
                  !.unassembledBytes  = @ + pushed.added - Len(popped.temp),
                  !.output            = StreamWrite(@, popped.temp)]

\* Lines 42-43.
EndAtEOF(r) ==
    IF r.output.totin = r.posEOF THEN [r EXCEPT !.output = EndInput(@)] ELSE r

\* Mutant: an empty last substring is dropped.
PushSubstring_DropsEmpty(r, data, index, eof) ==
    LET q == [r EXCEPT !.posEOF = IF eof THEN Plus(index, Len(data)) ELSE @]
    IN  IF data = <<>> \/ Rejected(q, data, index) THEN q
        ELSE EndAtEOF(Absorb(q, data, index))

PushSubstring(r, data, index, eof) ==
    LET q == [r EXCEPT !.posEOF = IF eof THEN Plus(index, Len(data)) ELSE @]
    IN  IF data = <<>> THEN EndAtEOF(q)
        ELSE IF Rejected(q, data, index) THEN q
        ELSE EndAtEOF(Absorb(q, data, index))
=============================================================================
