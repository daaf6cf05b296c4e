---------------------------- MODULE KcpCwndProofs ---------------------------
(***************************************************************************)
(* Proofs about KcpCwnd, for every MTU, window and number of losses: the   *)
(* types, that cwnd and incr agree, and that the window never closes.      *)
(***************************************************************************)
EXTENDS KcpCwnd, TLAPS

-----------------------------------------------------------------------------
(* Arithmetic *)

\* The quotient of natural numbers, rounded down and up.
LEMMA Quotient ==
  ASSUME NEW x \in Nat, NEW m \in Nat \ {0}
  PROVE  /\ x \div m \in Nat
         /\ m * (x \div m) <= x /\ x < m * (x \div m) + m
<1>1. x = m * (x \div m) + (x % m) /\ x % m \in 0 .. m - 1 /\ x \div m \in Int
  OBVIOUS
<1>2. m * (x \div m) \in Int
  BY <1>1
<1>3. x \div m >= 0
  <2>1. SUFFICES ASSUME x \div m <= -1 PROVE FALSE
    BY <1>1
  <2>2. m * (x \div m) <= -m
    <3> DEFINE q == x \div m
    <3>1. PICK d \in Nat : q = -1 - d
      <4>1. -1 - q \in Nat /\ q = -1 - (-1 - q)
        BY <1>1, <2>1
      <4> QED BY <4>1
    <3> HIDE DEF q
    <3>2. m * q = -m - m * d /\ m * d >= 0
      BY <3>1
    <3> QED BY <3>1, <3>2 DEF q
  <2> QED BY <1>1, <1>2, <2>2
<1> QED BY <1>1, <1>2, <1>3

LEMMA Ceiling ==
  ASSUME NEW x \in Nat, NEW m \in Nat \ {0}
  PROVE  LET q == (x + m - 1) \div m
         IN /\ q \in Nat
            /\ (q - 1) * m < x /\ x <= q * m
            /\ \A k \in Nat \ {0} : k * m <= x => q >= 1
<1> DEFINE q == (x + m - 1) \div m
<1> SUFFICES /\ q \in Nat
             /\ (q - 1) * m < x /\ x <= q * m
             /\ \A k \in Nat \ {0} : k * m <= x => q >= 1
  OBVIOUS
<1>1. q \in Nat /\ m * q <= x + m - 1 /\ x + m - 1 < m * q + m
  BY Quotient
<1> HIDE DEF q
<1>2. (q - 1) * m = m * q - m /\ q * m = m * q /\ m * q \in Nat
  BY <1>1
<1>3. ASSUME NEW k \in Nat \ {0}, k * m <= x PROVE q >= 1
  <2>1. k * m >= m
    <3>1. PICK j \in Nat : k = j + 1
      <4>1. k - 1 \in Nat /\ k = (k - 1) + 1
        OBVIOUS
      <4> QED BY <4>1
    <3>2. k * m = j * m + m /\ j * m >= 0
      BY <3>1
    <3> QED BY <3>2
  <2>2. x >= m
    BY <1>3, <2>1
  <2>3. q # 0
    <3>1. SUFFICES ASSUME q = 0 PROVE FALSE
      OBVIOUS
    <3>2. m * q = 0
      BY <3>1
    <3> QED BY <1>1, <2>2, <3>2
  <2> QED BY <1>1, <2>3
<1> QED BY <1>1, <1>2, <1>3

-----------------------------------------------------------------------------
(* Growth *)

\* cwnd and incr as CwndAgreesWithIncr wants them.
Agree(c, i, m) == (c - 1) * m < i /\ i < (c + 1) * m

Typed(g) == g.cwnd \in Nat /\ g.incr \in Nat
Agreeing(g) == Agree(g.cwnd, g.incr, mss)

\* The bytes avoidance counts with: at least incr.
LEMMA AvoidanceBytes ==
  ASSUME TypeOK
  PROVE  LET base == imax(incr, mss)
             bytes == base + (mss * mss) \div base + mss \div 16
         IN bytes \in Nat /\ bytes >= incr
<1> DEFINE base == imax(incr, mss)
<1>1. base \in Nat \ {0} /\ base >= incr /\ mss \in Nat /\ incr \in Nat
  BY DEF TypeOK, imax
<1>2. mss * mss \in Nat
  BY <1>1
<1> HIDE DEF base
<1>3. (mss * mss) \div base \in Nat /\ mss \div 16 \in Nat
  BY <1>1, <1>2, Quotient
<1>4. LET bytes == base + (mss * mss) \div base + mss \div 16
      IN bytes \in Nat /\ bytes >= incr
  BY <1>1, <1>3
<1> QED BY <1>4 DEF base

\* The window after an acknowledgement is open, and its two units agree if
\* they did before.
LEMMA AvoidanceFacts ==
  ASSUME TypeOK
  PROVE  /\ Typed(Avoidance)
         /\ cwnd >= 1 => Avoidance.cwnd >= 1
         /\ Agree(cwnd, incr, mss) => Agreeing(Avoidance)
<1> DEFINE base == imax(incr, mss)
           bytes == base + (mss * mss) \div base + mss \div 16
           up == (bytes + mss - 1) \div mss
<1>1. bytes \in Nat /\ bytes >= incr
  BY AvoidanceBytes
<1>2. Avoidance = [cwnd |-> IF (cwnd + 1) * mss <= bytes THEN up ELSE cwnd,
                   incr |-> bytes]
  BY DEF Avoidance
<1>3. mss \in Nat \ {0} /\ cwnd \in Nat /\ incr \in Nat
  BY DEF TypeOK
<1> HIDE DEF bytes
<1>4. /\ up \in Nat /\ (up - 1) * mss < bytes /\ bytes <= up * mss
      /\ (cwnd + 1) * mss <= bytes => up >= 1
  BY <1>1, <1>3, Ceiling
<1> HIDE DEF up
<1>5. CASE (cwnd + 1) * mss <= bytes
  <2>1. Avoidance.cwnd = up /\ Avoidance.incr = bytes
    BY <1>2, <1>5
  <2>2. (up + 1) * mss = up * mss + mss /\ up * mss \in Nat
    BY <1>3, <1>4
  <2>3. bytes < (up + 1) * mss
    BY <1>1, <1>3, <1>4, <2>2
  <2> QED BY <1>1, <1>4, <1>5, <2>1, <2>3 DEF Typed, Agreeing, Agree
<1>6. CASE ~((cwnd + 1) * mss <= bytes)
  <2>1. Avoidance.cwnd = cwnd /\ Avoidance.incr = bytes
    BY <1>2, <1>6
  <2>2. (cwnd + 1) * mss \in Nat /\ (cwnd - 1) * mss \in Int
    BY <1>3
  <2>3. bytes < (cwnd + 1) * mss
    BY <1>1, <1>6, <2>2
  <2>4. Agree(cwnd, incr, mss) => (cwnd - 1) * mss < bytes
    BY <1>1, <1>3, <2>2 DEF Agree
  <2> QED BY <1>1, <1>3, <2>1, <2>3, <2>4 DEF Typed, Agreeing, Agree
<1> QED BY <1>5, <1>6

LEMMA SlowStartFacts ==
  ASSUME TypeOK
  PROVE  /\ Typed(SlowStart) /\ SlowStart.cwnd >= 1
         /\ Agree(cwnd, incr, mss) => Agreeing(SlowStart)
<1>1. mss \in Nat \ {0} /\ cwnd \in Nat /\ incr \in Nat
  BY DEF TypeOK
<1>2. /\ (cwnd + 1 - 1) * mss = (cwnd - 1) * mss + mss
      /\ (cwnd + 1 + 1) * mss = (cwnd + 1) * mss + mss
      /\ (cwnd - 1) * mss \in Int /\ (cwnd + 1) * mss \in Int
  BY <1>1
<1>3. SlowStart.cwnd = cwnd + 1 /\ SlowStart.incr = incr + mss
  BY DEF SlowStart
<1> QED BY <1>1, <1>2, <1>3 DEF Typed, Agreeing, Agree

\* A window and its bytes, exactly.
LEMMA Exact ==
  ASSUME NEW c \in Nat, NEW m \in Nat \ {0}
  PROVE  c * m \in Nat /\ Agree(c, c * m, m)
<1>1. (c - 1) * m = c * m - m /\ (c + 1) * m = c * m + m /\ c * m \in Nat
  OBVIOUS
<1> QED BY <1>1 DEF Agree

LEMMA GrownFacts ==
  ASSUME TypeOK, NEW wnd \in Nat
  PROVE  /\ Typed(Grown(wnd))
         /\ cwnd >= 1 => Grown(wnd).cwnd >= 1
         /\ Agree(cwnd, incr, mss) => Agreeing(Grown(wnd))
<1> DEFINE g == IF cwnd < ssthresh THEN SlowStart ELSE Avoidance
           limited == [cwnd |-> wnd, incr |-> wnd * mss]
<1>1. mss \in Nat \ {0} /\ cwnd \in Nat /\ incr \in Nat
  BY DEF TypeOK
<1>2. /\ Typed(g)
      /\ cwnd >= 1 => g.cwnd >= 1
      /\ Agree(cwnd, incr, mss) => Agreeing(g)
  BY SlowStartFacts, AvoidanceFacts
<1>3. Typed(limited) /\ Agreeing(limited) /\ limited.cwnd = wnd
  BY <1>1, Exact DEF Typed, Agreeing
<1>4. Grown(wnd) = IF cwnd >= wnd THEN [cwnd |-> cwnd, incr |-> incr]
                   ELSE IF g.cwnd > wnd THEN limited ELSE g
  BY DEF Grown
<1> HIDE DEF g, limited
<1>5. CASE cwnd >= wnd
  BY <1>1, <1>4, <1>5 DEF Typed, Agreeing
<1>6. CASE ~(cwnd >= wnd)
  BY <1>1, <1>2, <1>3, <1>4, <1>6
<1> QED BY <1>5, <1>6

-----------------------------------------------------------------------------
(* The steps *)

IInv == TypeOK /\ CwndAgreesWithIncr

\* What a step makes of the window.
Good == /\ cwnd' \in Nat /\ incr' \in Nat
        /\ cwnd >= 1 => cwnd' >= 1
        /\ CwndAgreesWithIncr => CwndAgreesWithIncr'

LEMMA InputGood ==
  ASSUME TypeOK, NEW n \in Nat, NEW wnd \in Wnds, Input(n, wnd)
  PROVE  TypeOK' /\ Good
<1>1. wnd \in Nat
  BY CwndAssumption
<1>2. n <= inflight /\ inflight' \in Nat
  BY DEF TypeOK, Input
<1>3. CASE n > 0
  <2>1. cwnd' = Grown(wnd).cwnd /\ incr' = Grown(wnd).incr
    BY <1>3 DEF Input
  <2>2. cwnd' \in Nat /\ incr' \in Nat /\ (cwnd >= 1 => cwnd' >= 1)
    BY <1>1, <2>1, GrownFacts DEF Typed
  <2>3. Agree(cwnd, incr, mss) => Agree(cwnd', incr', mss)
    BY <1>1, <2>1, GrownFacts DEF Agreeing
  <2> QED BY <1>2, <2>2, <2>3 DEF TypeOK, Input, Good, CwndAgreesWithIncr, Agree
<1>4. CASE ~(n > 0)
  BY <1>2, <1>4 DEF TypeOK, Input, Good, CwndAgreesWithIncr
<1> QED BY <1>3, <1>4

LEMMA HalfType ==
  ASSUME NEW x \in Nat
  PROVE  imax(x \div 2, THRESH_MIN) \in Nat \ {0}
BY Quotient, CwndAssumption DEF imax

LEMMA FlushGood ==
  ASSUME TypeOK, NEW lost \in BOOLEAN, NEW change \in BOOLEAN, Flush(lost, change)
  PROVE  TypeOK' /\ Good
<1>1. Usable \in Nat
  BY CwndAssumption DEF Usable, imin, TypeOK
<1> DEFINE flight == imax(inflight, Usable)
<1>2. flight \in Nat
  BY <1>1 DEF imax, TypeOK
<1>3. mss' = mss /\ mss \in Nat \ {0} /\ setmtus' = setmtus /\ cwnd \in Nat /\ incr \in Nat
  BY DEF Flush, TypeOK
<1>4. /\ rmt_wnd' \in Wnds /\ inflight' \in Nat /\ losses' \in 0..MaxLosses
      /\ setmtus' \in 0..MaxSetMtu
  BY <1>2, CwndAssumption DEF Flush, TypeOK
<1>5. /\ ssthresh' \in Nat /\ cwnd' \in Nat /\ incr' \in Nat /\ cwnd' >= 1
      /\ Agree(cwnd, incr, mss) => Agree(cwnd', incr', mss)
  <2>1. CASE AfterLoss
    <3>1. cwnd' = 1 /\ incr' = mss /\ ssthresh' = imax(Usable \div 2, THRESH_MIN)
      BY <2>1 DEF AfterLoss
    <3>2. Agree(1, mss, mss)
      BY <1>3 DEF Agree
    <3>3. ssthresh' \in Nat \ {0}
      BY <1>1, <3>1, HalfType
    <3> QED BY <1>3, <3>1, <3>2, <3>3
  <2>2. CASE AfterSkip(flight)
    <3> HIDE DEF flight
    <3>1. ssthresh' \in Nat \ {0}
      BY <1>2, <2>2, HalfType DEF AfterSkip
    <3>2. cwnd' \in Nat \ {0} /\ incr' = cwnd' * mss
      BY <2>2, <3>1, CwndAssumption DEF AfterSkip
    <3>3. cwnd' * mss \in Nat /\ Agree(cwnd', cwnd' * mss, mss)
      BY <1>3, <3>2, Exact
    <3>4. incr' \in Nat /\ Agree(cwnd', incr', mss)
      BY <3>2, <3>3
    <3> QED BY <3>1, <3>2, <3>4
  <2>3. CASE AtLeastOne
    <3>1. ssthresh' \in Nat
      BY <2>3 DEF AtLeastOne, TypeOK
    <3>2. CASE cwnd < 1
      <4>1. cwnd' = 1 /\ incr' = mss
        BY <1>3, <2>3, <3>2 DEF AtLeastOne, imax
      <4>2. Agree(1, mss, mss)
        BY <1>3 DEF Agree
      <4> QED BY <1>3, <3>1, <4>1, <4>2
    <3>3. CASE ~(cwnd < 1)
      <4>1. cwnd' = cwnd /\ incr' = incr
        BY <1>3, <2>3, <3>3 DEF AtLeastOne, imax
      <4> QED BY <1>3, <3>1, <3>3, <4>1
    <3> QED BY <3>2, <3>3
  <2>4. AfterLoss \/ AfterSkip(flight) \/ AtLeastOne
    BY DEF Flush
  <2> QED BY <2>1, <2>2, <2>3, <2>4
<1>6. Good
  BY <1>3, <1>5 DEF Good, CwndAgreesWithIncr, Agree
<1> QED BY <1>3, <1>4, <1>5, <1>6 DEF TypeOK

LEMMA SetMtuGood ==
  ASSUME TypeOK, NEW mtu \in Mtus, SetMtu(mtu)
  PROVE  TypeOK' /\ Good
<1>1. mss' \in Nat \ {0}
  BY CwndAssumption DEF SetMtu
<1>2. setmtus' \in 0..MaxSetMtu /\ setmtus' # 0
  BY CwndAssumption DEF SetMtu, TypeOK
<1> QED BY <1>1, <1>2 DEF TypeOK, Good, SetMtu, CwndAgreesWithIncr

LEMMA NextGood ==
  ASSUME TypeOK, Next
  PROVE  TypeOK' /\ Good
<1>1. CASE Acked
  <2>1. PICK n \in 1..inflight, wnd \in Wnds : Input(n, wnd)
    BY <1>1 DEF Acked
  <2>2. n \in Nat
    BY DEF TypeOK
  <2> QED BY <2>1, <2>2, InputGood
<1>2. CASE Advertised
  BY <1>2, InputGood DEF Advertised
<1>3. CASE \E lost, change \in BOOLEAN : Flush(lost, change)
  BY <1>3, FlushGood
<1>4. CASE \E mtu \in Mtus : SetMtu(mtu)
  BY <1>4, SetMtuGood
<1> QED BY <1>1, <1>2, <1>3, <1>4 DEF Next

-----------------------------------------------------------------------------
(* The theorems *)

LEMMA InitIInv == Init => IInv
<1> SUFFICES ASSUME Init PROVE IInv
  OBVIOUS
<1>1. mss \in Nat \ {0}
  BY CwndAssumption DEF Init
<1>2. (0 - 1) * mss < 0 /\ 0 < (0 + 1) * mss
  BY <1>1
<1> QED BY <1>1, <1>2, CwndAssumption DEF Init, IInv, TypeOK, CwndAgreesWithIncr

LEMMA IInvStep == IInv /\ [Next]_vars => IInv'
<1>1. IInv /\ Next => IInv'
  BY NextGood DEF IInv, Good
<1>2. IInv /\ UNCHANGED vars => IInv'
  BY DEF IInv, TypeOK, CwndAgreesWithIncr, vars
<1> QED BY <1>1, <1>2

\* The fields have their types: no window and no threshold is negative, for
\* any MTU, window and number of losses.
THEOREM TypeCorrect == Spec => []TypeOK
<1>1. IInv => TypeOK
  BY DEF IInv
<1> QED BY <1>1, InitIInv, IInvStep, PTL DEF Spec

\* cwnd and incr stay one window, less than a segment apart, for any MTU,
\* remote window and order of losses.
THEOREM WindowsAgree == Spec => []CwndAgreesWithIncr
<1>1. IInv => CwndAgreesWithIncr
  BY DEF IInv
<1> QED BY <1>1, InitIInv, IInvStep, PTL DEF Spec

\* No acknowledgement, loss or change of the MTU closes an open window.
THEOREM WindowStaysOpen == Spec => NeverCloses
<1>1. TypeOK /\ [Next]_vars => [cwnd >= 1 => cwnd' >= 1]_vars
  BY NextGood DEF Good
<1> QED BY <1>1, TypeCorrect, PTL DEF Spec, NeverCloses
=============================================================================
