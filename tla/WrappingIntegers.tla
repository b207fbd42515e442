-------------------------- MODULE WrappingIntegers --------------------------
(***************************************************************************)
(* 32-bit sequence numbers (libsponge/wrapping_integers.{hh,cc}).  An      *)
(* absolute sequence number is a natural number; on the wire it is the     *)
(* offset from the initial sequence number, modulo M.  M is 2^32 in the    *)
(* code and a small even number in the models.                             *)
(***************************************************************************)
EXTENDS Integers

CONSTANT M

ASSUME MAssumption == M \in Nat /\ M > 2 /\ M % 2 = 0

\* The values of a WrappingInt32.
WrappingInt32 == 0 .. M - 1

\* Mutant: not truncated.
Wrap_NoModulo(n, isn) == n + isn

\* wrap(): uint32_t(n + isn).
Wrap(n, isn) == (n + isn) % M

\* Mutant: an unsigned difference.
Difference_Unsigned(a, b) == (a - b) % M

\* operator-(WrappingInt32, WrappingInt32): the difference of the raw values
\* converted to a signed integer of the same width.
Difference(a, b) ==
    LET d == (a - b) % M
    IN  IF d < M \div 2 THEN d ELSE d - M

\* Mutant: no correction below zero.
Unwrap_NoCorrection(n, isn, checkpoint) ==
    checkpoint + Difference(n, Wrap(checkpoint, isn))

\* unwrap(): step from the checkpoint by the signed difference, and one modulus
\* up when that falls below zero.
Unwrap(n, isn, checkpoint) ==
    LET ans == checkpoint + Difference(n, Wrap(checkpoint, isn))
    IN  IF ans >= 0 THEN ans ELSE ans + M
=============================================================================
