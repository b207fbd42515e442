----------------------------- MODULE ByteStream ------------------------------
(***************************************************************************)
(* A ByteStream (libsponge/byte_stream.{hh,cc}) between a writer and a     *)
(* reader, with the history of what went in and what came out.             *)
(***************************************************************************)
EXTENDS ByteStreamOps

CONSTANTS Byte,         \* the bytes that are written
          StreamCapacity,     \* capacity of the stream
          MaxWritten,   \* bound: bytes accepted in all
          MaxWrite      \* bound: bytes in one call of write()

ASSUME StreamAssumption ==
    StreamCapacity \in Nat /\ MaxWritten \in Nat /\ MaxWrite \in Nat

VARIABLES bs,        \* the ByteStream
          written,   \* the bytes accepted so far
          taken      \* the bytes removed so far

streamVars == <<bs, written, taken>>

StreamInit == /\ bs = NewByteStream(StreamCapacity)
              /\ written = <<>>
              /\ taken = <<>>

WriteBytes(data) == /\ bs' = StreamWrite(bs, data)
                    /\ written' = written \o Accepted(bs, data)
                    /\ UNCHANGED taken

PopBytes(n) == /\ bs' = PopOutput(bs, n)
               /\ taken' = taken \o PeekOutput(bs, n)
               /\ UNCHANGED written

ReadBytes(n) == /\ bs' = StreamRead(bs, n)
                /\ taken' = taken \o PeekOutput(bs, n)
                /\ UNCHANGED written

EndOfInput == bs' = EndInput(bs) /\ UNCHANGED <<written, taken>>

ErrorSet == bs' = SetError(bs) /\ UNCHANGED <<written, taken>>

StreamNext == \/ \E n \in 0 .. MaxWrite : \E data \in [1 .. n -> Byte] :
                    /\ Len(written) + n <= MaxWritten
                    /\ WriteBytes(data)
              \/ \E n \in 0 .. StreamCapacity + 1 : PopBytes(n) \/ ReadBytes(n)
              \/ EndOfInput
              \/ ErrorSet

StreamSpec == StreamInit /\ [][StreamNext]_streamVars
-----------------------------------------------------------------------------
\* Type invariant, with the bound the writer relies on: the buffer never holds
\* more than the capacity, so remaining_capacity() does not wrap below zero.
StreamTypeOK == /\ bs \in ByteStreamState(Byte)
                /\ bs.capacity = StreamCapacity
                /\ Len(bs.buff) <= StreamCapacity
                /\ written \in Seq(Byte)
                /\ taken \in Seq(Byte)

\* What the reader has taken followed by what it can still take is what the
\* writer was told had been accepted, in order; bytes_written() and bytes_read()
\* count both ends, however writes that only fit in part, partial reads and pops
\* past the end interleave.
InOrder == /\ taken \o bs.buff = written
           /\ bs.totin = Len(written)
           /\ bs.totout = Len(taken)
=============================================================================
