--------------------------- MODULE SequenceNumbers ---------------------------
(***************************************************************************)
(* wrap() and unwrap() as sender and receiver use them over the life of a  *)
(* connection: the checkpoint moves forward with the stream, and sequence  *)
(* numbers before and after it cross the network as 32-bit values          *)
(* (libsponge/wrapping_integers.cc).  The two actions only go through the  *)
(* arguments of the two functions; they stand for no code of their own.    *)
(***************************************************************************)
EXTENDS WrappingIntegers

CONSTANT MaxSeqno     \* bound: absolute sequence numbers

ASSUME SeqnoAssumption == MaxSeqno \in Nat

VARIABLES isn,          \* initial sequence number of the stream
          checkpoint,   \* the recent absolute sequence number
          seqno         \* the one on the network

seqnoVars == <<isn, checkpoint, seqno>>

SeqnoInit == isn \in WrappingInt32 /\ checkpoint = 0 /\ seqno = 0

Advance == /\ checkpoint < MaxSeqno
           /\ checkpoint' = checkpoint + 1
           /\ UNCHANGED <<isn, seqno>>

Send(x) == seqno' = x /\ UNCHANGED <<isn, checkpoint>>

SeqnoNext == Advance \/ \E x \in 0 .. MaxSeqno : Send(x)

SeqnoSpec == SeqnoInit /\ [][SeqnoNext]_seqnoVars
-----------------------------------------------------------------------------
Distance(a, b) == IF a < b THEN b - a ELSE a - b

Unwrapped == Unwrap(Wrap(seqno, isn), isn, checkpoint)

\* A sequence number less than half the range away from the checkpoint survives
\* the network, at the wrap of the 32-bit value and near zero too.
RoundTrip == Distance(seqno, checkpoint) < M \div 2 => Unwrapped = seqno

\* unwrap() returns "the absolute sequence number that wraps to `n` and is closest
\* to `checkpoint`" (wrapping_integers.hh:30), and never a negative one.
Closest ==
    /\ Unwrapped >= 0
    /\ Wrap(Unwrapped, isn) = Wrap(seqno, isn)
    /\ \A x \in 0 .. MaxSeqno + M :
          Wrap(x, isn) = Wrap(seqno, isn)
              => Distance(Unwrapped, checkpoint) <= Distance(x, checkpoint)
=============================================================================
