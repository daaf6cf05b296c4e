------------------------------- MODULE Chunks -------------------------------
(***************************************************************************)
(* How NetUtil._sendBytes cuts a text or a file into packets small enough  *)
(* for ikcp_send: MULS, MULS, ..., MULE, each given a type byte of its own *)
(* by NetClientUtil.  The number of packets is the ceiling of a quotient   *)
(* of single precision, of which Mantissa bits are kept (24 in a float).   *)
(***************************************************************************)
EXTENDS Integers, FiniteSets, FiniteSetsExt

CONSTANTS
  FRG_MAX,     \* KCPUtil.FRG_MAX
  WND_RCV,     \* IKCP_WND_RCV, the fragment limit of ikcp_send
  Mantissa     \* bits of a float

ASSUME ChunkAssumption ==
  /\ FRG_MAX \in Nat /\ FRG_MAX >= 6
  /\ WND_RCV \in Nat /\ FRG_MAX <= WND_RCV
  /\ Mantissa \in Nat \ {0}

\* Mutant: a packet may fill FRG_MAX + 1 fragments.
SingleTooLarge(mss) == mss * (FRG_MAX + 1) - 1

\* singlePckMaxSize and multPckMaxSize
Single(mss) == mss * (FRG_MAX - 1) - 1
Mult(mss) == Single(mss) - 1

\* The least number of bits that can hold k, a few more than Mantissa at most.
Bits(k) == Min({b \in 0 .. Mantissa + 4 : 2 ^ b > k})

\* n / d to the nearest integer, to the even one in the middle.
Nearest(n, d) ==
  LET q == n \div d
      r == 2 * (n % d)
  IN IF r > d \/ (r = d /\ q % 2 = 1) THEN q + 1 ELSE q

\* (float)n
Float(n) ==
  IF Bits(n) <= Mantissa THEN n
  ELSE LET unit == 2 ^ (Bits(n) - Mantissa) IN Nearest(n, unit) * unit

\* The ceiling of the float nearest to n / d: what the integer part leaves of
\* the Mantissa bits is there for the fraction.
FloatCeiling(n, d) ==
  LET scale == 2 ^ (Mantissa - Bits(n \div d))
      float == Nearest(n * scale, d)
  IN (float + scale - 1) \div scale

\* Mutant: one chunk more than the whole ones, also when nothing is left for it.
CountOneMore(mss, len) == len \div Mult(mss) + 1

\* mulCount, for the len bytes of a packet with its type byte
MulCount(mss, len) == FloatCeiling(Float(len), Mult(mss))

\* The stretches of the packet that the chunks carry, in order.
Stretches(mss, len) ==
  [i \in 1..MulCount(mss, len) |->
     [from |-> (i - 1) * Mult(mss),
      to |-> IF i * Mult(mss) <= len THEN i * Mult(mss) ELSE len]]

\* Whether len bytes are chunked at all.
Chunked(mss, len) == len >= Single(mss)

\* The sizes of what ikcp_send is given for a text or file of len bytes: with
\* a type byte before the whole, or before each of the chunks.
SendSizes(mss, len) ==
  IF Chunked(mss, len)
  THEN {s.to - s.from + 1 :
          s \in {Stretches(mss, len + 1)[i] : i \in 1..MulCount(mss, len + 1)}}
  ELSE {len + 1}

\* How many fragments ikcp_send makes of so many bytes.
FragmentCount(mss, size) == IF size <= mss THEN 1 ELSE (size + mss - 1) \div mss

-----------------------------------------------------------------------------
(* Properties *)

\* ikcp_send accepts what _sendBytes gives it, so that it does no harm that
\* KCPConnect.Send ignores the result: every packet has fewer fragments than
\* the limit, whatever the mss and the length of the file.
FitsSend(mss, len) ==
  \A size \in SendSizes(mss, len) : FragmentCount(mss, size) < WND_RCV

\* The chunks of a file make up the file, and none is empty, also when the file
\* ends where a chunk does.
CoversPacket(mss, len) ==
  Chunked(mss, len) =>
    LET st == Stretches(mss, len + 1)
        n == MulCount(mss, len + 1)
    IN /\ n > 0 /\ st[1].from = 0 /\ st[n].to = len + 1
       /\ \A i \in 1..n : st[i].from < st[i].to
       /\ \A i \in 1 .. n - 1 : st[i].to = st[i + 1].from
=============================================================================
