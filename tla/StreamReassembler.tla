-------------------------- MODULE StreamReassembler --------------------------
(***************************************************************************)
(* A StreamReassembler fed with substrings of one stream of StringLen      *)
(* bytes, in any order and any number of times, and read by an application.*)
(* The byte at index i of the stream is i, so that a byte delivered in the *)
(* wrong place shows.                                                      *)
(***************************************************************************)
EXTENDS StreamReassemblerOps, FiniteSetsExt, Functions

CONSTANTS Capacity,    \* the reassembler's capacity
          StringLen,   \* bound: length of the stream
          MaxSubstring \* bound: length of one substring

ASSUME ReassemblerAssumption ==
    /\ Capacity \in Nat /\ StringLen \in Nat /\ MaxSubstring \in Nat
    /\ StringLen < SIZE_MAX /\ Capacity < SIZE_MAX

VARIABLES r,      \* the StreamReassembler
          call    \* the last call and its arguments

reassemblerVars == <<r, call>>

ReassemblerInit == r = NewReassembler(Capacity) /\ call = <<>>

\* The len bytes of the stream from index on.
Excerpt(index, len) == [i \in 1 .. len |-> index + i - 1]

Push(index, len, eof) ==
    /\ r' = PushSubstring(r, Excerpt(index, len), index, eof)
    /\ call' = <<index, len, eof>>

\* The application reads n bytes.
ReadAssembled(n) == /\ n <= BufferSize(r.output)
                    /\ r' = [r EXCEPT !.output = StreamRead(@, n)]
                    /\ call' = <<n>>

\* eof may be set only on a substring that reaches the end of the stream.
ReassemblerNext ==
    \/ \E index \in 0 .. StringLen, len \in 0 .. MaxSubstring, eof \in BOOLEAN :
          /\ index + len <= StringLen
          /\ eof => index + len = StringLen
          /\ Push(index, len, eof)
    \/ \E n \in 1 .. Capacity : ReadAssembled(n)

\* The peer keeps sending the first byte not yet delivered, and then the end of
\* the stream, until it is accepted (TCPSender::tick()).
PushMissing == LET next == r.output.totin
                   len  == IF next < StringLen THEN 1 ELSE 0
               IN  Push(next, len, next + len = StringLen)

ReassemblerSpec == ReassemblerInit /\ [][ReassemblerNext]_reassemblerVars

\* The first missing byte, or the end, is awaited and there is room for it.
Awaited == ~r.output.isInputEnd /\ RemainingCapacity(r.output) > 0

\* Weak fairness of the peer and of the reader, with ENABLED written out.
FairReassemblerSpec ==
    /\ ReassemblerSpec
    /\ []<>~Awaited \/ []<><<PushMissing>>_reassemblerVars
    /\ \/ []<>(BufferSize(r.output) = 0)
       \/ []<><<r'.output.totout > r.output.totout>>_reassemblerVars
-----------------------------------------------------------------------------
\* The stored pairs without the sentinel.
Stored == SubSeq(r.unassembledBuffer, 1, Len(r.unassembledBuffer) - 1)

StoredIndices ==
    UNION {Stored[i].first .. Stored[i].first + Len(Stored[i].second) - 1 :
               i \in 1 .. Len(Stored)}

\* The application reads the bytes of the stream in order, without gap or
\* repetition, however the substrings overlap.
OutputInOrder ==
    /\ r.output.totin = FirstUnassembled(r)
    /\ \A i \in 1 .. Len(r.output.buff) : r.output.buff[i] = r.output.totout + i - 1

\* The stored pairs are the right bytes, in increasing order, never empty, never
\* overlapping, and the first of them leaves a gap behind the assembled bytes:
\* nothing deliverable is held back.
StoredApart ==
    LET end(p) == p.first + Len(p.second)
    IN  \A i \in 1 .. Len(Stored) :
          /\ Stored[i].second # <<>>
          /\ \A j \in 1 .. Len(Stored[i].second) :
                 Stored[i].second[j] = Stored[i].first + j - 1
          /\ Stored[i].first > FirstUnassembled(r)
          /\ i > 1 => end(Stored[i - 1]) <= Stored[i].first

\* unassembled_bytes() counts every stored index once, and stored and assembled
\* bytes together stay within the capacity (stream_reassembler.hh:32-34, 54-55).
WithinCapacity ==
    /\ r.unassembledBytes = Cardinality(StoredIndices)
    /\ BufferSize(r.output) + r.unassembledBytes <= Capacity
    /\ \A i \in StoredIndices : i < r.output.totout + Capacity

\* The output ends exactly when all bytes up to the announced end are written:
\* neither a lost nor a late end-of-stream mark is missed.
EndsAtTheEnd == r.output.isInputEnd <=> r.output.totin = r.posEOF

\* Every byte is delivered and the end reported, if the peer repeats what is
\* missing and the application reads.
AllDelivered == <>[](StreamEof(r.output) /\ r.output.totout = StringLen)

Promise == INSTANCE InOrderStream WITH
    Capacity <- Capacity, StreamLen <- StringLen, Unknown <- SIZE_MAX,
    written <- r.output.totin, taken <- r.output.totout, held <- StoredIndices,
    endAt <- r.posEOF, ended <- r.output.isInputEnd, call <- call

\* The list of pairs behaves like the set of indices it stands for: every call
\* with every argument changes both alike, so that nothing acceptable is dropped
\* and nothing is delivered early or late.
ImplementsInOrderStream == Promise!Spec
=============================================================================
