------------------------------- MODULE KcpCwnd ------------------------------
(***************************************************************************)
(* The congestion window of one control block in normal mode (nocwnd is    *)
(* 0): its growth at the end of ikcp_input, the concessions at the end of  *)
(* ikcp_flush, and ikcp_setmtu, which changes the unit that incr counts    *)
(* in.  The application always has more to send.  Which segments are       *)
(* acknowledged, lost or fast resent is the network's choice.              *)
(***************************************************************************)
EXTENDS Integers, FiniteSetsExt

CONSTANTS
  OVERHEAD,     \* IKCP_OVERHEAD
  MTU_DEF,      \* IKCP_MTU_DEF
  THRESH_INIT,  \* IKCP_THRESH_INIT
  THRESH_MIN,   \* IKCP_THRESH_MIN
  SndWnd,       \* the send window
  Wnds,         \* windows the remote endpoint advertises
  FastResend,   \* fastresend, 0: off
  Mtus,         \* MTUs the application may set
  MaxLosses,    \* bound: flushes that find a loss or a skipped segment
  MaxSetMtu     \* bound: calls of ikcp_setmtu

ASSUME CwndAssumption ==
  /\ {OVERHEAD, MTU_DEF, SndWnd} \subseteq Nat \ {0}
  /\ {THRESH_INIT, FastResend, MaxLosses, MaxSetMtu} \subseteq Nat
  /\ THRESH_MIN \in Nat \ {0}
  /\ Wnds \subseteq Nat
  /\ Mtus \cup {MTU_DEF} \subseteq {m \in Nat : m >= 50 /\ m - OVERHEAD >= 16}

VARIABLES
  mss,
  cwnd,
  incr,      \* the window in bytes
  ssthresh,
  rmt_wnd,
  inflight,  \* snd_nxt - snd_una
  losses,    \* how many of the MaxLosses there have been
  setmtus    \* how many of the MaxSetMtu there have been

vars == <<mss, cwnd, incr, ssthresh, rmt_wnd, inflight, losses, setmtus>>

imax(a, b) == IF a >= b THEN a ELSE b
imin(a, b) == IF a <= b THEN a ELSE b

\* ikcp_create
Init ==
  /\ mss = MTU_DEF - OVERHEAD
  /\ cwnd = 0 /\ incr = 0 /\ ssthresh = THRESH_INIT
  /\ rmt_wnd \in Wnds /\ inflight = 0
  /\ losses = 0 /\ setmtus = 0

-----------------------------------------------------------------------------
(* ikcp_input *)

\* Mutant: incr is not raised along with cwnd.
SlowStartForgetsIncr == [cwnd |-> cwnd + 1, incr |-> incr]

SlowStart == [cwnd |-> cwnd + 1, incr |-> incr + mss]

\* Mutant: no constant part, so that growth ends.
AvoidanceFades ==
  LET base == imax(incr, mss)
      bytes == base + (mss * mss) \div (base * 8)
  IN [cwnd |-> IF (cwnd + 1) * mss <= bytes THEN (bytes + mss - 1) \div mss
               ELSE cwnd,
      incr |-> bytes]

\* Congestion avoidance.
Avoidance ==
  LET base == imax(incr, mss)
      bytes == base + (mss * mss) \div base + mss \div 16
  IN [cwnd |-> IF (cwnd + 1) * mss <= bytes THEN (bytes + mss - 1) \div mss
               ELSE cwnd,
      incr |-> bytes]

\* The window after snd_una has moved while the remote window was wnd.
Grown(wnd) ==
  LET g == IF cwnd < ssthresh THEN SlowStart ELSE Avoidance
  IN IF cwnd >= wnd THEN [cwnd |-> cwnd, incr |-> incr]
     ELSE IF g.cwnd > wnd THEN [cwnd |-> wnd, incr |-> wnd * mss]
     ELSE g

\* A datagram that acknowledges n more segments.
Input(n, wnd) ==
  /\ n <= inflight
  /\ rmt_wnd' = wnd
  /\ inflight' = inflight - n
  /\ LET g == IF n > 0 THEN Grown(wnd) ELSE [cwnd |-> cwnd, incr |-> incr]
     IN cwnd' = g.cwnd /\ incr' = g.incr
  /\ UNCHANGED <<mss, ssthresh, losses, setmtus>>

-----------------------------------------------------------------------------
(* ikcp_flush *)

Usable == imin(cwnd, imin(SndWnd, rmt_wnd))

\* Mutant: a loss costs one segment, and there is no lower bound.
AfterLossOneLess ==
  /\ ssthresh' = imax(Usable \div 2, THRESH_MIN)
  /\ cwnd' = cwnd - 1
  /\ incr' = incr - mss

\* A segment has timed out: slow start from one segment.
AfterLoss ==
  /\ ssthresh' = imax(Usable \div 2, THRESH_MIN)
  /\ cwnd' = 1
  /\ incr' = mss

\* A segment was fast resent, and none has timed out.
AfterSkip(flight) ==
  /\ ssthresh' = imax(flight \div 2, THRESH_MIN)
  /\ cwnd' = ssthresh' + FastResend
  /\ incr' = cwnd' * mss

\* Nothing to concede; the first flush opens the window.
AtLeastOne ==
  /\ cwnd' = imax(cwnd, 1)
  /\ incr' = IF cwnd < 1 THEN mss ELSE incr
  /\ UNCHANGED ssthresh

Flush(lost, change) ==
  LET flight == imax(inflight, Usable)
  IN /\ lost \/ change => inflight > 0 /\ losses < MaxLosses
     /\ change => FastResend > 0
     /\ losses' = IF lost \/ change THEN losses + 1 ELSE losses
     /\ inflight' = flight
     /\ CASE lost -> AfterLoss
          [] change /\ ~lost -> AfterSkip(flight)
          [] OTHER -> AtLeastOne
     /\ UNCHANGED <<mss, rmt_wnd, setmtus>>

\* ikcp_setmtu
SetMtu(mtu) ==
  /\ setmtus < MaxSetMtu
  /\ setmtus' = setmtus + 1
  /\ mss' = mtu - OVERHEAD
  /\ UNCHANGED <<cwnd, incr, ssthresh, rmt_wnd, inflight, losses>>

Acked == \E n \in 1..inflight, wnd \in Wnds : Input(n, wnd)
Advertised == \E wnd \in Wnds : Input(0, wnd)
Smooth == Flush(FALSE, FALSE)
Next ==
  \/ Acked
  \/ Advertised
  \/ \E lost, change \in BOOLEAN : Flush(lost, change)
  \/ \E mtu \in Mtus : SetMtu(mtu)

Spec == Init /\ [][Next]_vars

\* The service loop flushes for ever, and what is sent is acknowledged.
FairSpec == Spec /\ WF_vars(Smooth) /\ WF_vars(Acked)

-----------------------------------------------------------------------------
(* Properties *)

\* The types of the fields.
TypeOK ==
  /\ mss \in Nat \ {0} /\ cwnd \in Nat /\ incr \in Nat /\ ssthresh \in Nat
  /\ rmt_wnd \in Wnds /\ inflight \in Nat
  /\ losses \in 0..MaxLosses /\ setmtus \in 0..MaxSetMtu

\* cwnd and incr are one window in two units: they stay less than a segment
\* apart through slow start, avoidance, the limit of the remote window and
\* both concessions, as long as the unit stays the same.
CwndAgreesWithIncr ==
  setmtus = 0 => (cwnd - 1) * mss < incr /\ incr < (cwnd + 1) * mss

\* The congestion window never closes again: something can be sent whenever
\* the remote window is open, whatever the losses and however the MTU changes.
\* KcpArq takes this for granted in its fairness.
NeverCloses == [][cwnd >= 1 => cwnd' >= 1]_vars

\* Once the losses are over, a window that is acknowledged grows until the
\* sender's or the least of the remote windows limits it.
GrowsToWindow == <>[](cwnd >= imin(SndWnd, Min(Wnds)))
=============================================================================
