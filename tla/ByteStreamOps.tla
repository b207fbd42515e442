--------------------------- MODULE ByteStreamOps ----------------------------
(***************************************************************************)
(* The operations of ByteStream (libsponge/byte_stream.{hh,cc}) as         *)
(* functions of its state, a record with one field per data member.        *)
(***************************************************************************)
EXTENDS Naturals, Sequences

Lesser(a, b) == IF a < b THEN a ELSE b
Greater(a, b) == IF a < b THEN b ELSE a

ByteStreamState(Byte) ==
    [buff : Seq(Byte), totin : Nat, totout : Nat, capacity : Nat,
     isInputEnd : BOOLEAN, error : BOOLEAN]

NewByteStream(capacity) ==
    [buff |-> <<>>, totin |-> 0, totout |-> 0, capacity |-> capacity,
     isInputEnd |-> FALSE, error |-> FALSE]

BufferSize(b) == Len(b.buff)
RemainingCapacity(b) == b.capacity - Len(b.buff)
StreamEof(b) == b.isInputEnd /\ b.buff = <<>>

\* Mutant: accepts more than fits.
Accepted_Unbounded(b, data) == data

\* The bytes of data that write() accepts: as many as fit.
Accepted(b, data) == SubSeq(data, 1, Lesser(Len(data), RemainingCapacity(b)))

\* write() does not look at isInputEnd.
StreamWrite(b, data) ==
    [b EXCEPT !.totin = @ + Len(Accepted(b, data)),
              !.buff  = @ \o Accepted(b, data)]

PeekOutput(b, len) == SubSeq(b.buff, 1, Lesser(len, Len(b.buff)))

\* Mutant: counts the bytes asked for instead of those removed.
PopOutput_CountsRequest(b, len) ==
    [b EXCEPT !.totout = @ + len,
              !.buff   = SubSeq(@, Lesser(len, Len(@)) + 1, Len(@))]

PopOutput(b, len) ==
    LET n == Lesser(len, Len(b.buff))
    IN  [b EXCEPT !.totout = @ + n,
                  !.buff   = SubSeq(@, n + 1, Len(@))]

\* read(len) returns PeekOutput(b, len) and leaves this stream behind.
StreamRead(b, len) == PopOutput(b, Len(PeekOutput(b, len)))

EndInput(b) == [b EXCEPT !.isInputEnd = TRUE]

SetError(b) == [b EXCEPT !.error = TRUE]
=============================================================================
