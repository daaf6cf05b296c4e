----------------------------- MODULE KcpSerial ------------------------------
(***************************************************************************)
(* The 32-bit numbers of KCP: sequence numbers and clock readings are      *)
(* unsigned and wrap, and are compared by _itimediff, the sign of their    *)
(* difference taken as a signed number.  H is 2^31 in the code.            *)
(***************************************************************************)
EXTENDS Integers

CONSTANT H      \* half the range of the numbers

ASSUME HalfRangeAssumption == H \in Nat \ {0}

Serial == 0 .. 2 * H - 1

\* What a 32-bit field keeps of a number.
Cut(n) == n % (2 * H)

\* Mutant: the difference of two unsigned numbers is taken as it is.
UnsignedDiff(later, earlier) == later - earlier

\* _itimediff: (IINT32)(later - earlier)
Diff(later, earlier) ==
  LET d == Cut(later - earlier) IN IF d < H THEN d ELSE d - 2 * H
=============================================================================
