---------------------------- MODULE InOrderStream ----------------------------
(***************************************************************************)
(* What a reassembler promises: from substrings of one stream, in any      *)
(* order, overlapping and repeated, it delivers the stream in order, keeps *)
(* what lies inside a window of `Capacity` bytes from the first unread     *)
(* byte, and reports the end exactly at the announced end.  Stored bytes   *)
(* are a set of indices: how they are kept is left open.                   *)
(***************************************************************************)
EXTENDS Integers, FiniteSetsExt

CONSTANTS Capacity, StreamLen, Unknown   \* Unknown: no end announced yet

VARIABLES written,   \* bytes delivered to the output
          taken,     \* bytes the reader has consumed
          held,      \* indices stored beyond the delivered ones
          endAt,     \* index of the announced end
          ended,     \* the output has been ended
          call       \* the last call and its arguments

streamVars == <<written, taken, held, endAt, ended, call>>

Init == /\ written = 0 /\ taken = 0 /\ held = {}
        /\ endAt = Unknown /\ ended = FALSE /\ call = <<>>

\* The first index from `from` on that is not in S.
FirstMissing(S, from) == Min((from .. StreamLen) \ S)

Receive(index, len, eof) ==
    /\ call' = <<index, len, eof>>
    /\ endAt' = IF eof THEN index + len ELSE endAt
    /\ LET limit == Min({taken + Capacity, endAt'})
           got   == held \cup {i \in index .. index + len - 1 :
                                   written <= i /\ i < limit}
       IN  /\ written' = FirstMissing(got, written)
           /\ held' = {i \in got : i > written'}
    /\ ended' = (ended \/ written' = endAt')
    /\ UNCHANGED taken

Consume(n) == /\ taken + n <= written
              /\ call' = <<n>>
              /\ taken' = taken + n
              /\ UNCHANGED <<written, held, endAt, ended>>

Next == \/ \E index \in 0 .. StreamLen, len \in 0 .. StreamLen, eof \in BOOLEAN :
              /\ index + len <= StreamLen
              /\ eof => index + len = StreamLen
              /\ Receive(index, len, eof)
        \/ \E n \in 1 .. Capacity : Consume(n)

Spec == Init /\ [][Next]_streamVars
=============================================================================
