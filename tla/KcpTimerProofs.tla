--------------------------- MODULE KcpTimerProofs ---------------------------
(***************************************************************************)
(* Proofs about KcpTimer for every value of its constants: the inductive   *)
(* invariant TimerInv, and the deadlines it keeps.                             *)
(***************************************************************************)
EXTENDS KcpTimer, KcpSerialProofs, FiniteSetTheorems, SequenceTheorems,
        WellFoundedInduction

-----------------------------------------------------------------------------
(* Operators the model is built from *)

\* A set of integers with a lower bound has a least element, Min's value.
LEMMA IntMin ==
  ASSUME NEW T \in SUBSET Int, T # {}, NEW low \in Int, \A x \in T : low <= x
  PROVE  Min(T) \in T /\ \A x \in T : Min(T) <= x
<1> DEFINE U == {x - low : x \in T}
<1>1. U \in SUBSET Nat /\ U # {}
  <2>1. ASSUME NEW u \in U PROVE u \in Nat
    <3>1. PICK x \in T : u = x - low
      BY Zenon
    <3>2. x \in Int /\ low <= x
      OBVIOUS
    <3> QED
      BY ONLY <3>1, <3>2, low \in Int
  <2>2. PICK x : x \in T
    BY Zenon
  <2>3. x - low \in U
    BY <2>2, Zenon
  <2> QED
    BY <2>1, <2>3, Zenon
<1>2. PICK m \in U : \A x \in U : <<x, m>> \notin OpToRel(<, Nat)
  BY <1>1, NatLessThanWellFounded, WFMin, Zenon
<1>3. \A x \in U : ~(x < m)
  BY <1>1, <1>2, Zenon DEF OpToRel
<1>4. PICK t \in T : m = t - low
  BY <1>2
<1>5. ASSUME NEW x \in T PROVE t <= x
  <2>1. x - low \in U
    OBVIOUS
  <2>2. ~(x - low < t - low)
    BY <1>3, <1>4, <2>1
  <2> QED
    BY <2>2
<1> QED
  BY <1>5 DEF Min

LEMMA MinMaxFacts ==
  ASSUME NEW a \in Int, NEW b \in Int
  PROVE  /\ imin(a, b) \in Int /\ imin(a, b) <= a /\ imin(a, b) <= b
         /\ imax(a, b) \in Int /\ imax(a, b) >= a /\ imax(a, b) >= b
         /\ imin(a, b) = a \/ imin(a, b) = b
         /\ imax(a, b) = a \/ imax(a, b) = b
BY DEF imin, imax

\* The constants that are numbers.
LEMMA Constants ==
  /\ {RTO_NDL, RTO_MIN, RTO_DEF, RTO_MAX} \subseteq Nat \ {0}
  /\ {INTERVAL_MIN, INTERVAL, INTERVAL_MAX} \subseteq Nat \ {0}
  /\ {JUMP, Lateness, Swing, MaxNow, PROBE_INIT, PROBE_LIMIT, H} \subseteq Nat
  /\ INTERVAL_MIN <= INTERVAL /\ INTERVAL <= INTERVAL_MAX
  /\ RTO_NDL <= RTO_MAX /\ RTO_MIN <= RTO_DEF /\ RTO_DEF <= RTO_MAX
  /\ INTERVAL_MAX < JUMP /\ Start \in Int
  /\ JUMP + INTERVAL_MAX + Lateness + Swing < H
  /\ 2 * (MaxNow + Swing + RTO_MAX) + Swing <= H
BY TimerAssumption, BoundAssumption, RangeAssumption, HalfRangeAssumption

\* _itimediff has the sign of the true difference, as long as that is not too
\* far on the other side.
LEMMA DiffBefore ==
  ASSUME NEW a \in Int, NEW b \in Int, a - b < H, Diff(Cut(a), Cut(b)) < 0
  PROVE  a < b
<1>1. H \in Nat
  BY HalfRangeAssumption
<1>2. SUFFICES ASSUME a >= b PROVE FALSE
  OBVIOUS
<1>3. Diff(Cut(a), Cut(b)) = a - b
  BY <1>1, <1>2, DiffExact
<1> QED
  BY <1>2, <1>3

LEMMA DiffNotBefore ==
  ASSUME NEW a \in Int, NEW b \in Int, -H <= a - b, Diff(Cut(a), Cut(b)) >= 0
  PROVE  a >= b
<1>1. H \in Nat
  BY HalfRangeAssumption
<1>2. SUFFICES ASSUME a < b PROVE FALSE
  OBVIOUS
<1>3. Diff(Cut(a), Cut(b)) = a - b
  BY <1>1, <1>2, DiffExact
<1> QED
  BY <1>2, <1>3

\* ikcp_check never lets the application wait longer than the interval or
\* than the planned flush.
LEMMA CheckFacts ==
  ASSUME NEW cur \in Int, NEW upd, NEW flush \in Int, NEW iv \in Nat,
         NEW buf, \A s \in DOMAIN buf : buf[s].resendts \in Int
  PROVE  /\ Check(cur, upd, flush, buf, iv) \in Nat
         /\ Check(cur, upd, flush, buf, iv) <= iv
         /\ Diff(flush, cur) >= 0 => Check(cur, upd, flush, buf, iv) <= Diff(flush, cur)
         /\ ~upd => Check(cur, upd, flush, buf, iv) = 0
<1> DEFINE packet == {Diff(buf[s].resendts, cur) : s \in DOMAIN buf}
           T == {Diff(flush, cur), iv} \cup packet
           m == Min(T)
           check == Check(cur, upd, flush, buf, iv)
<1>1. PICK d \in Int : d = Diff(flush, cur)
  BY DiffType
<1>2. ASSUME NEW x \in packet PROVE x \in Int /\ -H <= x
  <2>1. PICK s \in DOMAIN buf : x = Diff(buf[s].resendts, cur)
    BY Zenon
  <2>2. buf[s].resendts \in Int
    OBVIOUS
  <2> QED
    BY ONLY <2>1, <2>2, DiffType, cur \in Int
<1>3. PICK low \in Int : low <= d /\ low <= iv /\ low <= -H
  <2>1. PICK low \in Int : low = imin(imin(d, iv), -H)
    BY HalfRangeAssumption, MinMaxFacts
  <2>2. H \in Nat
    BY HalfRangeAssumption
  <2> QED
    BY <2>1, <2>2 DEF imin
<1>4. /\ T \in SUBSET Int /\ T # {} /\ iv \in T /\ d \in T
      /\ \A x \in T : low <= x
  <2>1. H \in Nat
    BY HalfRangeAssumption
  <2> QED
    BY <1>1, <1>2, <1>3, <2>1
<1>5. m \in Int /\ m <= iv /\ m <= d
  <2> HIDE DEF T
  <2> QED
    BY <1>4, IntMin
<1>6. check = 0 \/ check = imax(0, m)
  BY DEF Check
<1>7. ~upd => check = 0
  BY DEF Check
<1> HIDE DEF m, check
<1>8. check \in Nat /\ check <= iv /\ (d >= 0 => check <= d)
  BY <1>1, <1>5, <1>6 DEF imax
<1> QED
  BY <1>1, <1>7, <1>8 DEF check

\* The retransmission delays.
LEMMA DelayTypes ==
  ASSUME NEW rto \in Nat, rx_rto \in 1..RTO_MAX, nodelay \in 0..2,
         rto <= MaxNow + Swing, NEW seg, seg.rto = rto
  PROVE  /\ BackedOff(seg) \in Serial /\ rto <= BackedOff(seg) /\ BackedOff(seg) <= Longest
         /\ FirstDelay \in Nat /\ rx_rto <= FirstDelay /\ FirstDelay <= Longest
<1>1. PICK rx \in Nat : rx = rx_rto /\ rx <= RTO_MAX
  BY Constants
<1>2. PICK sum \in Nat :
        /\ rto <= sum /\ sum <= Longest
        /\ BackedOff(seg) = Cut(sum)
  <2>1. PICK sum : sum = rto + CASE nodelay = 0 -> imax(rto, rx)
                                 [] nodelay = 1 -> rto \div 2
                                 [] OTHER -> rx \div 2
    OBVIOUS
  <2>2. BackedOff(seg) = Cut(sum)
    BY <1>1, <2>1 DEF BackedOff
  <2>3. sum \in Nat /\ rto <= sum /\ sum <= 2 * (MaxNow + Swing + RTO_MAX)
    <3>1. CASE nodelay = 0
      <4>1. sum = rto + imax(rto, rx)
        BY <2>1, <3>1
      <4> QED
        BY <1>1, <4>1, Constants DEF imax
    <3>2. CASE nodelay = 1
      <4>1. sum = rto + (rto \div 2)
        BY <2>1, <3>2
      <4>2. rto \div 2 \in Nat /\ rto \div 2 <= rto
        OBVIOUS
      <4> QED
        BY <4>1, <4>2, Constants
    <3>3. CASE nodelay = 2
      <4>1. sum = rto + (rx \div 2)
        BY <2>1, <3>3
      <4>2. rx \div 2 \in Nat /\ rx \div 2 <= rx
        OBVIOUS
      <4> QED
        BY <1>1, <4>1, <4>2, Constants
    <3> QED
      BY <3>1, <3>2, <3>3
  <2> QED
    BY <2>2, <2>3 DEF Longest
<1>3. sum \in Serial
  BY <1>2, Constants DEF Longest, Serial
<1>4. BackedOff(seg) = sum
  BY <1>2, <1>3, CutType
<1>5. FirstDelay \in Nat /\ rx_rto <= FirstDelay /\ FirstDelay <= Longest
  <2>1. rx \div 8 \in Nat /\ rx \div 8 <= rx
    OBVIOUS
  <2>2. FirstDelay = rx \/ FirstDelay = rx + (rx \div 8)
    BY <1>1 DEF FirstDelay
  <2> QED
    BY <1>1, <2>1, <2>2, Constants DEF Longest
<1> QED
  BY <1>2, <1>3, <1>4, <1>5

\* The branches of the loop of ikcp_flush over one segment.
LEMMA FlushedCases ==
  ASSUME NEW seg, seg.xmit \in Nat
  PROVE  \/ /\ seg.xmit > 0 /\ ~TimedOut(seg)
            /\ Flushed(seg) = seg
         \/ /\ seg.xmit = 0
            /\ Flushed(seg) = Sent(seg, rx_rto, FirstDelay, 0)
         \/ /\ seg.xmit > 0 /\ TimedOut(seg)
            /\ Flushed(seg) = Sent(seg, BackedOff(seg), BackedOff(seg), seg.fastack)
         \/ /\ seg.xmit > 0 /\ ~TimedOut(seg) /\ SkippedOften(seg)
            /\ Flushed(seg) = Sent(seg, seg.rto, seg.rto, 0)
BY DEF Flushed

-----------------------------------------------------------------------------
(* ikcp_input *)

\* The estimator's fields, and an RTO between the least of either mode and
\* IKCP_RTO_MAX.
EstimateOK(est) ==
  /\ est.srtt \in Nat /\ est.rttval \in Nat
  /\ est.rto \in imin(RTO_NDL, RTO_MIN) .. RTO_MAX

LEMMA UpdateAckType ==
  ASSUME TypeOK, NEW est, EstimateOK(est), NEW rtt \in Nat
  PROVE  EstimateOK(UpdateAck(est, rtt))
<1>1. PICK srtt \in Nat, rttval \in Nat : srtt = est.srtt /\ rttval = est.rttval
  BY DEF EstimateOK
<1>2. PICK delta \in Nat : delta = IF rtt >= srtt THEN rtt - srtt ELSE srtt - rtt
  <2>1. CASE rtt >= srtt
    <3>1. rtt - srtt \in Nat
      BY <2>1
    <3> QED
      BY <2>1, <3>1
  <2>2. CASE ~(rtt >= srtt)
    <3>1. srtt - rtt \in Nat
      BY <2>2
    <3> QED
      BY <2>2, <3>1
  <2> QED
    BY <2>1, <2>2
<1>3. PICK var \in Nat : var = IF srtt = 0 THEN rtt \div 2 ELSE (3 * rttval + delta) \div 4
  <2>1. rtt \div 2 \in Nat /\ (3 * rttval + delta) \div 4 \in Nat
    OBVIOUS
  <2> QED
    BY <2>1
<1>4. PICK mean \in Nat : mean = IF srtt = 0 THEN rtt ELSE imax(1, (7 * srtt + rtt) \div 8)
  <2>1. (7 * srtt + rtt) \div 8 \in Nat
    OBVIOUS
  <2> QED
    BY <2>1 DEF imax
<1>5. PICK rto \in Nat : rto = mean + imax(interval, 4 * var)
  BY Constants DEF TypeOK, imax
<1>6. UpdateAck(est, rtt) = [srtt |-> mean, rttval |-> var,
                             rto |-> imin(imax(rx_minrto, rto), RTO_MAX)]
  BY ONLY <1>1, <1>2, <1>3, <1>4, <1>5 DEF UpdateAck
<1>7. imin(imax(rx_minrto, rto), RTO_MAX) \in imin(RTO_NDL, RTO_MIN) .. RTO_MAX
  <2>1. rx_minrto = RTO_NDL \/ rx_minrto = RTO_MIN
    BY DEF TypeOK
  <2> QED
    BY <2>1, Constants DEF imin, imax
<1> QED
  BY <1>6, <1>7 DEF EstimateOK

LEMMA EstimateType ==
  ASSUME TypeOK, NEW acks \in Seq(wire), Len(acks) \in 0..2
  PROVE  EstimateOK(EstimateAfter(acks))
<1>1. EstimateOK(Estimate)
  BY DEF TypeOK, EstimateOK, Estimate
<1>2. ASSUME NEW est, EstimateOK(est), NEW ts \in Serial
      PROVE  EstimateOK(Sample(est, ts))
  <2>1. Diff(current, ts) \in Int
    <3>1. current \in Int /\ ts \in Int
      BY HalfRangeAssumption DEF TypeOK, Serial
    <3> QED
      BY <3>1, DiffType
  <2> QED
    BY <1>2, <2>1, UpdateAckType DEF Sample
<1>3. \A i \in 1..Len(acks) : acks[i].ts \in Serial
  <2>1. ASSUME NEW i \in 1..Len(acks) PROVE acks[i].ts \in Serial
    <3>1. acks[i] \in wire
      BY ElementOfSeq
    <3> QED
      BY <3>1 DEF TypeOK
  <2> QED
    BY <2>1
<1>4. CASE Len(acks) = 0
  BY <1>1, <1>4 DEF EstimateAfter
<1>5. CASE Len(acks) = 1
  <2>1. EstimateAfter(acks) = Sample(Estimate, acks[1].ts)
    BY <1>5 DEF EstimateAfter
  <2> QED
    BY <1>1, <1>2, <1>3, <1>5, <2>1
<1>6. CASE Len(acks) = 2
  <2>1. EstimateAfter(acks) = Sample(Sample(Estimate, acks[1].ts), acks[2].ts)
    BY <1>6 DEF EstimateAfter
  <2>2. acks[1].ts \in Serial /\ acks[2].ts \in Serial
    BY <1>3, <1>6
  <2>3. EstimateOK(Sample(Estimate, acks[1].ts))
    BY <1>1, <1>2, <2>2
  <2> QED
    BY <1>2, <2>1, <2>2, <2>3
<1> QED
  BY <1>4, <1>5, <1>6

\* The acknowledgements of a datagram that are beyond s: their number, and that
\* there is one when ikcp_parse_fastack counts s as skipped.
LEMMA BeyondFacts ==
  ASSUME NEW acks, Len(acks) \in 0..2, DOMAIN acks = 1..Len(acks), NEW s
  PROVE  LET beyond == Cardinality({i \in DOMAIN acks : acks[i].sn > s})
         IN /\ beyond \in Nat
            /\ Len(acks) > 0 /\ MaxAck(acks).sn > s => beyond >= 1
<1> DEFINE I == {i \in DOMAIN acks : acks[i].sn > s}
<1>1. PICK len \in 0..2 : len = Len(acks)
  OBVIOUS
<1>2. IsFiniteSet(1..len) /\ I \subseteq 1..len
  BY <1>1, FS_Interval
<1>3. IsFiniteSet(I) /\ Cardinality(I) \in Nat
  BY <1>2, FS_Subset, FS_CardinalityType
<1>4. ASSUME len > 0, MaxAck(acks).sn > s PROVE Cardinality(I) >= 1
  <2>1. MaxAck(acks) = acks[1] \/ (len = 2 /\ MaxAck(acks) = acks[2])
    BY <1>1 DEF MaxAck
  <2>2. I # {}
    BY <1>1, <1>4, <2>1
  <2>3. Cardinality(I) # 0
    BY <1>3, <2>2, FS_EmptySet
  <2> QED
    BY <1>3, <2>3
<1> QED
  BY <1>1, <1>3, <1>4

\* ikcp_input only takes segments away, and counts how often the others were
\* skipped: by one at most when an acknowledgement is beyond them.
LEMMA InputKeepsSegments ==
  ASSUME TypeOK, NEW acks \in Seq(wire), Len(acks) \in 0..2,
         NEW una \in Nat, NEW wnd \in Nat, Input(acks, una, wnd)
  PROVE  /\ snd_una' \in 0..snd_nxt /\ DOMAIN snd_buf' \subseteq snd_una' .. snd_nxt - 1
         /\ DOMAIN snd_buf' \subseteq DOMAIN snd_buf
         /\ \A s \in DOMAIN snd_buf' :
              /\ snd_buf'[s] \in Segment
              /\ snd_buf'[s].resendts = snd_buf[s].resendts
              /\ snd_buf'[s].due = snd_buf[s].due
              /\ snd_buf'[s].rto = snd_buf[s].rto
              /\ snd_buf'[s].xmit = snd_buf[s].xmit
              /\ snd_buf[s].fastack <= snd_buf[s].skips
                   => snd_buf'[s].fastack <= snd_buf'[s].skips
<1>1. PICK left : left = {s \in DOMAIN snd_buf :
                            s >= una /\ s \notin {acks[i].sn : i \in DOMAIN acks}}
  OBVIOUS
<1>2. PICK low : low = IF left = {} THEN snd_nxt ELSE Min(left)
  OBVIOUS
<1>3. snd_una' = low
  BY <1>1, <1>2 DEF Input
<1>4. snd_buf' = [s \in left |->
        [snd_buf[s] EXCEPT
           !.fastack = IF Skipped(acks, low, snd_nxt, s) THEN @ + 1 ELSE @,
           !.skips = @ + Cardinality({i \in DOMAIN acks : acks[i].sn > s})]]
  BY <1>1, <1>2 DEF Input
<1>5. /\ left \subseteq DOMAIN snd_buf /\ DOMAIN snd_buf' = left
      /\ snd_nxt \in Nat /\ snd_una \in Nat /\ DOMAIN snd_buf \subseteq snd_una .. snd_nxt - 1
  <2>1. snd_nxt \in Nat /\ snd_una \in 0..snd_nxt
        /\ DOMAIN snd_buf \subseteq snd_una .. snd_nxt - 1
    BY DEF TypeOK
  <2>2. left \subseteq DOMAIN snd_buf /\ DOMAIN snd_buf' = left
    BY ONLY <1>1, <1>4
  <2> QED
    BY <2>1, <2>2
<1>6. low \in 0..snd_nxt /\ left \subseteq low .. snd_nxt - 1
  <2>1. CASE left = {}
    BY <1>2, <1>5, <2>1
  <2>2. CASE left # {}
    <3>1. left \in SUBSET Int /\ 0 \in Int /\ \A x \in left : 0 <= x
      BY <1>5
    <3>2. Min(left) \in left /\ \A x \in left : Min(left) <= x
      BY <2>2, <3>1, IntMin, Zenon
    <3> QED
      BY <1>2, <1>5, <2>2, <3>2
  <2> QED
    BY <2>1, <2>2
<1>7. ASSUME NEW s \in left
      PROVE  /\ snd_buf'[s] \in Segment
             /\ snd_buf'[s].resendts = snd_buf[s].resendts
             /\ snd_buf'[s].due = snd_buf[s].due
             /\ snd_buf'[s].rto = snd_buf[s].rto
             /\ snd_buf'[s].xmit = snd_buf[s].xmit
             /\ snd_buf[s].fastack <= snd_buf[s].skips
                  => snd_buf'[s].fastack <= snd_buf'[s].skips
  <2>1. PICK seg \in Segment : seg = snd_buf[s]
    BY <1>5 DEF TypeOK
  <2>2. PICK n : n = Cardinality({i \in DOMAIN acks : acks[i].sn > s})
    OBVIOUS
  <2>3. PICK k : k = IF Skipped(acks, low, snd_nxt, s) THEN 1 ELSE 0
    OBVIOUS
  <2>4. n \in Nat /\ k \in Nat /\ k <= n
    <3>1. DOMAIN acks = 1..Len(acks)
      OBVIOUS
    <3>2. n \in Nat /\ (Len(acks) > 0 /\ MaxAck(acks).sn > s => n >= 1)
      BY <2>2, <3>1, BeyondFacts
    <3>3. Skipped(acks, low, snd_nxt, s) => Len(acks) > 0 /\ s < MaxAck(acks).sn
      <4>1. acks # <<>> => Len(acks) # 0
        BY EmptySeq
      <4> QED
        BY <4>1 DEF Skipped
    <3>4. Skipped(acks, low, snd_nxt, s) => MaxAck(acks).sn > s
      <4>1. ASSUME Skipped(acks, low, snd_nxt, s) PROVE MaxAck(acks).sn > s
        <5>1. \A i \in 1..Len(acks) : acks[i].sn \in Nat
          BY ElementOfSeq, SMTT(30) DEF TypeOK
        <5>2. MaxAck(acks) = acks[1] \/ (Len(acks) = 2 /\ MaxAck(acks) = acks[2])
          BY DEF MaxAck
        <5>3. MaxAck(acks).sn \in Nat
          BY <3>3, <4>1, <5>1, <5>2
        <5>4. s \in Nat
          BY <1>5
        <5> QED
          BY <3>3, <4>1, <5>3, <5>4
      <4> QED
        BY <4>1
    <3> QED
      BY <2>3, <3>2, <3>3, <3>4
  <2>5. snd_buf'[s] = [seg EXCEPT !.fastack = @ + k, !.skips = @ + n]
    <3>1. seg.fastack \in Nat
      BY DEF Segment
    <3>2. (IF Skipped(acks, low, snd_nxt, s) THEN seg.fastack + 1 ELSE seg.fastack)
            = seg.fastack + k
      BY <2>3, <3>1
    <3> QED
      BY <1>4, <2>1, <2>2, <3>2
  <2>6. seg.fastack + k \in Nat /\ seg.skips + n \in Nat
        /\ (seg.fastack <= seg.skips => seg.fastack + k <= seg.skips + n)
    BY <2>4 DEF Segment
  <2> HIDE DEF Segment
  <2>7. /\ snd_buf'[s].fastack = seg.fastack + k /\ snd_buf'[s].skips = seg.skips + n
        /\ snd_buf'[s] \in Segment
        /\ snd_buf'[s].resendts = seg.resendts /\ snd_buf'[s].due = seg.due
        /\ snd_buf'[s].rto = seg.rto /\ snd_buf'[s].xmit = seg.xmit
    BY ONLY <2>5, <2>6, seg \in Segment DEF Segment
  <2> QED
    BY ONLY <2>1, <2>6, <2>7
<1> QED
  BY <1>3, <1>5, <1>6, <1>7


-----------------------------------------------------------------------------
(* Timers *)

\* A clock that has been set further since changes nothing of what a timer shows.
LEMMA ShowsMore ==
  ASSUME NEW ts, NEW due, NEW f \in Nat, NEW b \in Nat, NEW f0 \in 0..f, NEW b0 \in 0..b,
         Shows(ts, due, f0, b0)
  PROVE  Shows(ts, due, f, b)
<1>1. PICK g \in 0..f0, c \in 0..b0 : ts = Cut(due + (Start + g - c))
  BY DEF Shows
<1>2. g \in 0..f /\ c \in 0..b
  OBVIOUS
<1> QED
  BY <1>1, <1>2 DEF Shows

\* A timer that has run out by the clock was due by then, but for what the clock
\* was set forward.
LEMMA DuePassed ==
  ASSUME NEW ts, NEW due \in Nat, NEW f \in Nat, NEW b \in Nat, Shows(ts, due, f, b),
         f + b <= Swing, NEW at \in Nat, due <= at + Longest,
         Diff(Cut(at + (Start + f - b)), ts) >= 0
  PROVE  due <= at + f
<1>1. PICK g \in 0..f, c \in 0..b : ts = Cut(due + (Start + g - c))
  BY DEF Shows
<1>2. PICK x \in Int, y \in Int : x = at + (Start + f - b) /\ y = due + (Start + g - c)
  BY Constants
<1>3. -H <= x - y
  BY <1>2, Constants DEF Longest
<1>4. Diff(Cut(x), Cut(y)) >= 0
  BY <1>1, <1>2
<1>5. x >= y
  BY <1>3, <1>4, DiffNotBefore
<1> QED
  BY <1>2, <1>5, Constants

\* One that has not run out by the clock is not overdue, but for what the clock
\* was set back.
LEMMA DueAhead ==
  ASSUME NEW ts, NEW due \in Nat, NEW f \in Nat, NEW b \in Nat, Shows(ts, due, f, b),
         f + b <= Swing, NEW at \in Nat, at <= due + b + INTERVAL_MAX + Lateness,
         Diff(Cut(at + (Start + f - b)), ts) < 0
  PROVE  at < due + b
<1>1. PICK g \in 0..f, c \in 0..b : ts = Cut(due + (Start + g - c))
  BY DEF Shows
<1>2. PICK x \in Int, y \in Int : x = at + (Start + f - b) /\ y = due + (Start + g - c)
  BY Constants
<1>3. x - y < H
  BY <1>2, Constants
<1>4. Diff(Cut(x), Cut(y)) < 0
  BY <1>1, <1>2
<1>5. x < y
  BY <1>3, <1>4, DiffBefore
<1> QED
  BY <1>2, <1>5, Constants

\* A timer that is set now shows when it is due.
LEMMA SetNow ==
  ASSUME NEW at \in Nat, NEW f \in Nat, NEW b \in Nat, NEW delay \in Nat,
         NEW cur, cur = Cut(at + (Start + f - b))
  PROVE  Shows(Cut(cur + delay), at + delay, f, b)
<1>1. PICK z \in Int : z = at + (Start + f - b)
  BY Constants
<1>2. Cut(cur + delay) = Cut(z + delay)
  BY <1>1, CutAdd
<1>3. z + delay = (at + delay) + (Start + f - b) /\ f \in 0..f /\ b \in 0..b
  BY <1>1, Constants
<1> QED
  BY <1>2, <1>3 DEF Shows

-----------------------------------------------------------------------------
(* ikcp_flush *)

\* What the proof needs to know of a segment in snd_buf: its RTO is not too
\* long, fast resend has counted right, its timer shows when it is due, and the
\* flush planned for time flush is in time for it.
SegmentOK(seg, at, f, b, flush) ==
  /\ seg \in Segment
  /\ seg.rto <= Longest /\ seg.rto <= seg.due /\ seg.due <= at + Longest
  /\ seg.fastack <= seg.skips
  /\ Shows(seg.resendts, seg.due, f, b)
  /\ flush <= seg.due + b + INTERVAL_MAX

\* A segment that is sent.
LEMMA SentOK ==
  ASSUME NEW at \in Nat, at = updatedAt', NEW f \in Nat, NEW b \in Nat,
         NEW cur \in Serial, cur = current', cur = Cut(at + (Start + f - b)),
         NEW flush \in Nat, flush <= at + b + INTERVAL_MAX,
         NEW seg, seg.xmit \in Nat, seg.skips \in Nat, NEW fastack \in Nat,
         fastack <= seg.skips,
         NEW rto \in Serial, NEW delay \in Nat, rto <= delay, delay <= Longest
  PROVE  /\ SegmentOK(Sent(seg, rto, delay, fastack), at, f, b, flush)
         /\ Sent(seg, rto, delay, fastack).xmit = seg.xmit + 1
<1>1. PICK x : x = Sent(seg, rto, delay, fastack)
  OBVIOUS
<1>2. PICK ts \in Serial : ts = Cut(cur + delay)
  <2>1. cur + delay \in Int
    BY HalfRangeAssumption DEF Serial
  <2> QED
    BY <2>1, CutType
<1>3. PICK skips \in Nat : skips = IF fastack = 0 THEN 0 ELSE seg.skips
  OBVIOUS
<1>4. x = [xmit |-> seg.xmit + 1, ts |-> cur, rto |-> rto, fastack |-> fastack,
           resendts |-> ts, due |-> at + delay, skips |-> skips]
  BY <1>1, <1>2, <1>3 DEF Sent
<1>5. seg.xmit + 1 \in Nat \ {0} /\ at + delay \in Nat /\ fastack <= skips
  <2>1. PICK n \in Nat : n = seg.xmit
    OBVIOUS
  <2>2. n + 1 \in Nat \ {0}
    BY ONLY n \in Nat
  <2>3. at + delay \in Nat
    BY ONLY at \in Nat, delay \in Nat
  <2>4. fastack <= skips
    BY ONLY <1>3, fastack <= seg.skips, fastack \in Nat
  <2> QED
    BY ONLY <2>1, <2>2, <2>3, <2>4
<1>6. x \in Segment
  BY ONLY <1>4, <1>5, cur \in Serial, rto \in Serial, fastack \in Nat, ts \in Serial,
          skips \in Nat DEF Segment
<1>7. Shows(ts, at + delay, f, b)
  BY <1>2, SetNow
<1>8. flush <= (at + delay) + b + INTERVAL_MAX /\ rto <= at + delay
      /\ rto <= Longest /\ at + delay <= at + Longest
  <2>1. PICK long \in Nat, im \in Nat : long = Longest /\ im = INTERVAL_MAX
    BY Constants DEF Longest
  <2>2. rto \in Nat
    BY HalfRangeAssumption DEF Serial
  <2> QED
    BY ONLY <2>1, <2>2, at \in Nat, b \in Nat, flush \in Nat, delay \in Nat,
            flush <= at + b + INTERVAL_MAX, rto <= delay, delay <= Longest
<1>9. SegmentOK(x, at, f, b, flush) /\ x.xmit = seg.xmit + 1
  BY ONLY <1>4, <1>5, <1>6, <1>7, <1>8 DEF SegmentOK
<1> QED
  BY <1>1, <1>9

\* What ikcp_flush makes of a segment: one that stays as it is has not run out.
LEMMA FlushedOK ==
  ASSUME TypeOK, NEW at \in 0..now, at = updatedAt', NEW f \in Nat, NEW b \in Nat,
         f + b <= Swing,
         NEW cur \in Serial, cur = current', cur = Cut(at + (Start + f - b)),
         NEW flush \in Nat, flush <= at + b + INTERVAL_MAX,
         NEW seg,
         \/ seg = Unsent
         \/ \E old \in Nat : SegmentOK(seg, at, f, b, old),
         seg # Unsent /\ ~TimedOut(seg) => flush <= seg.due + b + INTERVAL_MAX
  PROVE  /\ SegmentOK(Flushed(seg), at, f, b, flush)
         /\ Flushed(seg).xmit > seg.xmit =>
              \/ seg.xmit = 0
              \/ fastresend > 0 /\ seg.skips >= fastresend
              \/ seg.due <= at + f
<1>1. /\ now \in Nat /\ now <= MaxNow /\ at \in Nat /\ nodelay \in 0..2 /\ fastresend \in Nat
      /\ rx_rto \in 1..RTO_MAX /\ rx_rto \in Serial
  <2>1. now \in 0..MaxNow /\ nodelay \in 0..2 /\ fastresend \in Nat
        /\ rx_rto \in imin(RTO_NDL, RTO_MIN) .. RTO_MAX
    BY DEF TypeOK
  <2>2. PICK lo \in Nat \ {0} : lo = imin(RTO_NDL, RTO_MIN)
    BY Constants DEF imin
  <2>3. rx_rto \in 1..RTO_MAX
    <3>1. rx_rto \in lo .. RTO_MAX
      BY <2>1, <2>2
    <3> QED
      BY ONLY <3>1, lo \in Nat \ {0}, Constants
  <2> QED
    BY <2>1, <2>3, Constants DEF Serial
<1>2. CASE seg = Unsent
  <2>1. seg.xmit = 0 /\ seg.skips = 0 /\ seg.rto = 0
    BY <1>2 DEF Unsent
  <2>2. FirstDelay \in Nat /\ rx_rto <= FirstDelay /\ FirstDelay <= Longest
    BY <1>1, <2>1, DelayTypes, Constants
  <2>3. Flushed(seg) = Sent(seg, rx_rto, FirstDelay, 0)
    BY <2>1 DEF Flushed
  <2>4. SegmentOK(Sent(seg, rx_rto, FirstDelay, 0), at, f, b, flush)
    <3>1. PICK delay \in Nat : delay = FirstDelay
      BY <2>2
    <3>2. 0 \in Nat /\ 0 <= seg.skips /\ seg.xmit \in Nat /\ seg.skips \in Nat
      BY <2>1
    <3> QED
      BY <1>1, <2>2, <3>1, <3>2, SentOK
  <2> QED
    BY <2>1, <2>3, <2>4
<1>3. CASE \E old \in Nat : SegmentOK(seg, at, f, b, old)
  <2>1. PICK s \in Segment : s = seg
    BY <1>3 DEF SegmentOK
  <2>2. /\ seg.xmit \in Nat \ {0} /\ seg.skips \in Nat /\ seg.fastack \in Nat
        /\ seg.rto \in Serial /\ seg.due \in Nat
    BY <2>1 DEF Segment
  <2>3. /\ seg.rto <= Longest /\ seg.rto <= seg.due /\ seg.due <= at + Longest
        /\ seg.fastack <= seg.skips /\ Shows(seg.resendts, seg.due, f, b)
    BY <1>3 DEF SegmentOK
  <2>4. seg # Unsent
    BY <2>2 DEF Unsent
  <2>5. seg.rto \in Nat
    BY <2>2, HalfRangeAssumption DEF Serial
  <2>6. CASE seg.xmit > 0 /\ ~TimedOut(seg) /\ Flushed(seg) = seg
    <3>1. SegmentOK(seg, at, f, b, flush)
      BY <2>1, <2>3, <2>4, <2>6 DEF SegmentOK
    <3>2. ~(seg.xmit > seg.xmit)
      BY <2>2
    <3> QED
      BY <2>6, <3>1, <3>2
  <2>7. CASE /\ seg.xmit > 0 /\ TimedOut(seg)
             /\ Flushed(seg) = Sent(seg, BackedOff(seg), BackedOff(seg), seg.fastack)
    <3>1. seg.due <= at + f
      <4>1. Diff(Cut(at + (Start + f - b)), seg.resendts) >= 0
        BY <2>7 DEF TimedOut
      <4> QED
        BY <1>1, <2>2, <2>3, <4>1, DuePassed
    <3>2. seg.rto <= MaxNow + Swing
      BY <1>1, <2>2, <2>3, <2>5, <3>1, Constants
    <3>3. BackedOff(seg) \in Serial /\ BackedOff(seg) <= Longest
      BY <1>1, <2>5, <3>2, DelayTypes
    <3>4. BackedOff(seg) \in Nat /\ BackedOff(seg) <= BackedOff(seg)
      BY <3>3, HalfRangeAssumption DEF Serial
    <3>5. SegmentOK(Sent(seg, BackedOff(seg), BackedOff(seg), seg.fastack), at, f, b, flush)
      <4>1. PICK delay \in Nat : delay = BackedOff(seg)
        BY <3>4
      <4> QED
        BY <1>1, <2>2, <2>3, <3>3, <4>1, SentOK
    <3> QED
      BY <2>7, <3>1, <3>5
  <2>8. CASE /\ seg.xmit > 0 /\ ~TimedOut(seg) /\ SkippedOften(seg)
             /\ Flushed(seg) = Sent(seg, seg.rto, seg.rto, 0)
    <3>1. SegmentOK(Sent(seg, seg.rto, seg.rto, 0), at, f, b, flush)
      <4>1. PICK delay \in Nat : delay = seg.rto
        BY <2>5
      <4> QED
        BY <1>1, <2>2, <2>3, <4>1, SentOK
    <3>2. fastresend > 0 /\ seg.skips >= fastresend
      BY <1>1, <2>2, <2>3, <2>8 DEF SkippedOften
    <3> QED
      BY <2>8, <3>1, <3>2
  <2> QED
    BY <2>2, <2>6, <2>7, <2>8, FlushedCases
<1> QED
  BY <1>2, <1>3

\* Before a flush: every segment has been kept right so far, and one whose timer
\* has not run out can wait for the flush planned for time flush; so can the
\* probe.
FlushReady(f, b, flush) ==
  /\ \A s \in DOMAIN snd_buf :
       /\ \E old \in Nat : SegmentOK(snd_buf[s], updatedAt', f, b, old)
       /\ ~TimedOut(snd_buf[s]) => flush <= snd_buf[s].due + b + INTERVAL_MAX
  /\ probe_wait # 0 =>
       \E due \in 0 .. quietAt + PROBE_LIMIT :
         /\ Shows(ts_probe, due, f, b)
         /\ Diff(current', ts_probe) < 0 => flush <= due + b + INTERVAL_MAX

\* After it: the planned flush is in time for all, and who was sent again had a
\* reason.
FlushDone(f, b, flush) ==
  /\ \A s \in DOMAIN snd_buf' : SegmentOK(snd_buf'[s], updatedAt', f, b, flush)
  /\ probe_wait' # 0 =>
       \E due \in 0 .. quietAt' + PROBE_LIMIT :
         Shows(ts_probe', due, f, b) /\ flush <= due + b + INTERVAL_MAX
  /\ \A s \in DOMAIN snd_buf :
       Resent(s) => SkipsEnough(s) \/ snd_buf[s].due <= updatedAt' + f

\* The types of what a flush changes.
FlushTypes ==
  /\ snd_queue' \in Nat /\ snd_nxt' \in Nat /\ snd_una \in 0..snd_nxt'
  /\ DOMAIN snd_buf' \subseteq snd_una .. snd_nxt' - 1
  /\ wire' \subseteq [sn : Nat, ts : Serial, at : 0..now]
  /\ ts_probe' \in Serial /\ probe_wait' \in {0} \cup PROBE_INIT .. PROBE_LIMIT
  /\ quietAt' \in 0..now /\ state' \in BOOLEAN
  /\ flushedAt' = now /\ snd_una' = snd_una /\ rmt_wnd' = rmt_wnd

\* The probe timer.
LEMMA ProbeKeeps ==
  ASSUME TypeOK, NEW at \in 0..now, at = updatedAt', NEW f \in Nat, NEW b \in Nat,
         NEW cur \in Serial, cur = current', cur = Cut(at + (Start + f - b)),
         NEW flush \in Nat, flush <= at + b + INTERVAL_MAX,
         FlushReady(f, b, flush), Probe
  PROVE  /\ probe_wait' # 0 =>
              \E due \in 0 .. quietAt' + PROBE_LIMIT :
                Shows(ts_probe', due, f, b) /\ flush <= due + b + INTERVAL_MAX
         /\ ts_probe' \in Serial /\ probe_wait' \in {0} \cup PROBE_INIT .. PROBE_LIMIT
         /\ quietAt' \in 0..now
<1>1. /\ now \in Nat /\ at \in Nat /\ at <= now /\ quietAt \in 0..now /\ ts_probe \in Serial
      /\ probe_wait \in {0} \cup PROBE_INIT .. PROBE_LIMIT
  BY DEF TypeOK
<1>2. PICK pi \in Nat, pl \in Nat, im \in Nat :
        pi = PROBE_INIT /\ pl = PROBE_LIMIT /\ im = INTERVAL_MAX /\ pi > 0 /\ pi <= pl
  BY TimerAssumption
<1>3. ASSUME NEW wait \in pi..pl, probe_wait' = wait, ts_probe' = Cut(cur + wait),
             quietAt' = now
      PROVE  /\ \E due \in 0 .. quietAt' + PROBE_LIMIT :
                  Shows(ts_probe', due, f, b) /\ flush <= due + b + INTERVAL_MAX
             /\ ts_probe' \in Serial /\ probe_wait' \in {0} \cup PROBE_INIT .. PROBE_LIMIT
  <2>1. Shows(ts_probe', at + wait, f, b)
    BY <1>1, <1>2, <1>3, SetNow
  <2>2. at + wait \in 0 .. quietAt' + PROBE_LIMIT
    BY ONLY <1>1, <1>2, <1>3
  <2>3. flush <= (at + wait) + b + INTERVAL_MAX
    BY ONLY <1>1, <1>2, wait \in pi..pl, flush <= at + b + INTERVAL_MAX, flush \in Nat,
            b \in Nat
  <2>4. ts_probe' \in Serial
    <3>1. cur + wait \in Int
      BY HalfRangeAssumption DEF Serial
    <3> QED
      BY <1>3, <3>1, CutType
  <2> QED
    BY <1>2, <1>3, <2>1, <2>2, <2>3, <2>4
<1>4. CASE rmt_wnd # 0 /\ ts_probe' = 0 /\ probe_wait' = 0 /\ quietAt' = now
  <2>1. 0 \in Serial
    BY HalfRangeAssumption DEF Serial
  <2> QED
    BY <1>1, <1>4, <2>1
<1>5. CASE /\ probe_wait = 0 /\ probe_wait' = PROBE_INIT
           /\ ts_probe' = Cut(current' + PROBE_INIT) /\ quietAt' = now
  <2>1. PICK wait \in pi..pl : wait = PROBE_INIT
    BY <1>2
  <2>2. probe_wait' = wait /\ ts_probe' = Cut(cur + wait) /\ quietAt' = now
    BY <1>5, <2>1
  <2>3. quietAt' \in 0..now
    BY <1>1, <1>5
  <2> QED
    BY ONLY <1>3, <2>2, <2>3
<1>6. CASE /\ probe_wait # 0
           /\ probe_wait' = imin(probe_wait + probe_wait \div 2, PROBE_LIMIT)
           /\ ts_probe' = Cut(current' + probe_wait') /\ quietAt' = now
  <2>1. PICK w \in pi..pl : w = probe_wait
    BY <1>1, <1>2, <1>6
  <2>2. w \div 2 \in Nat
    BY ONLY <1>2, w \in pi..pl
  <2>3. PICK wait \in pi..pl : wait = imin(w + w \div 2, pl)
    BY ONLY <1>2, <2>2, w \in pi..pl DEF imin
  <2>4. probe_wait' = wait /\ ts_probe' = Cut(cur + wait) /\ quietAt' = now
    BY <1>2, <1>6, <2>1, <2>3
  <2>5. quietAt' \in 0..now
    BY <1>1, <1>6
  <2> QED
    BY ONLY <1>3, <2>4, <2>5
<1>7. CASE /\ probe_wait # 0 /\ Diff(current', ts_probe) < 0
           /\ UNCHANGED <<ts_probe, probe_wait, quietAt>>
  <2>1. PICK due \in 0 .. quietAt + PROBE_LIMIT :
          Shows(ts_probe, due, f, b) /\ flush <= due + b + INTERVAL_MAX
    BY ONLY <1>7, FlushReady(f, b, flush) DEF FlushReady
  <2>2. ts_probe' = ts_probe /\ probe_wait' = probe_wait /\ quietAt' = quietAt
    BY <1>7
  <2> QED
    BY ONLY <1>1, <2>1, <2>2
<1> QED
  BY ONLY <1>4, <1>5, <1>6, <1>7, Probe DEF Probe

LEMMA FlushKeeps ==
  ASSUME TypeOK, NEW at \in 0..now, at = updatedAt', NEW f \in Nat, NEW b \in Nat,
         f + b <= Swing,
         NEW cur \in Serial, cur = current', cur = Cut(at + (Start + f - b)),
         NEW flush \in Nat, flush <= at + b + INTERVAL_MAX,
         FlushReady(f, b, flush), NEW c \in Nat, Flush(c)
  PROVE  FlushDone(f, b, flush) /\ FlushTypes
<1>1. /\ probe_wait' # 0 =>
           \E due \in 0 .. quietAt' + PROBE_LIMIT :
             Shows(ts_probe', due, f, b) /\ flush <= due + b + INTERVAL_MAX
      /\ ts_probe' \in Serial /\ probe_wait' \in {0} \cup PROBE_INIT .. PROBE_LIMIT
      /\ quietAt' \in 0..now
  <2>1. Probe
    BY DEF Flush
  <2> QED
    BY <2>1, ProbeKeeps
<1>2. /\ snd_queue \in Nat /\ snd_nxt \in Nat /\ snd_una \in 0..snd_nxt /\ now \in Nat
      /\ DOMAIN snd_buf \subseteq snd_una .. snd_nxt - 1 /\ rmt_wnd \in Nat
      /\ wire \subseteq [sn : Nat, ts : Serial, at : 0..now] /\ state \in BOOLEAN
  BY DEF TypeOK
<1>3. PICK n \in Nat : /\ n = imax(0, imin(snd_queue, snd_una + imin(c, rmt_wnd) - snd_nxt))
                       /\ n <= snd_queue
  <2>1. PICK cwnd \in Nat : cwnd = imin(c, rmt_wnd)
    BY <1>2 DEF imin
  <2>2. PICK free \in Int : free = snd_una + cwnd - snd_nxt
    BY <1>2
  <2>3. PICK q \in Nat : q = snd_queue
    BY <1>2
  <2>4. PICK n \in Nat : n = imax(0, imin(q, free)) /\ n <= q
    BY ONLY q \in Nat, free \in Int DEF imin, imax
  <2> QED
    BY ONLY <2>1, <2>2, <2>3, <2>4
<1>4. PICK buf : buf = [s \in DOMAIN snd_buf \cup snd_nxt .. snd_nxt + n - 1 |->
                          IF s \in DOMAIN snd_buf THEN snd_buf[s] ELSE Unsent]
  OBVIOUS
<1>5. PICK out : out = {s \in DOMAIN buf : Flushed(buf[s]).xmit > buf[s].xmit}
  OBVIOUS
<1>6. /\ snd_queue' = snd_queue - n /\ snd_nxt' = snd_nxt + n
      /\ snd_buf' = [s \in DOMAIN buf |-> Flushed(buf[s])]
      /\ wire' = wire \cup {[sn |-> s, ts |-> current', at |-> now] : s \in out}
      /\ state' = (state \/ \E s \in out : buf[s].xmit + 1 >= DEADLINK)
      /\ flushedAt' = now /\ snd_una' = snd_una /\ rmt_wnd' = rmt_wnd
  BY <1>3, <1>4, <1>5 DEF Flush
<1>7. /\ DOMAIN snd_buf' = DOMAIN buf /\ DOMAIN snd_buf \subseteq DOMAIN buf
      /\ DOMAIN buf \subseteq snd_una .. snd_nxt + n - 1
      /\ DOMAIN buf \subseteq Nat
  <2>1. DOMAIN snd_buf' = DOMAIN buf
    BY <1>6
  <2>2. DOMAIN buf = DOMAIN snd_buf \cup snd_nxt .. snd_nxt + n - 1
    BY <1>4
  <2> QED
    BY ONLY <1>2, <2>1, <2>2, n \in Nat
<1>8. ASSUME NEW s \in DOMAIN buf
      PROVE  /\ SegmentOK(snd_buf'[s], at, f, b, flush)
             /\ snd_buf'[s].xmit > buf[s].xmit =>
                  \/ buf[s].xmit = 0
                  \/ fastresend > 0 /\ buf[s].skips >= fastresend
                  \/ buf[s].due <= at + f
  <2>1. snd_buf'[s] = Flushed(buf[s])
    BY <1>6
  <2>2. /\ \/ buf[s] = Unsent
           \/ \E old \in Nat : SegmentOK(buf[s], at, f, b, old)
        /\ buf[s] # Unsent /\ ~TimedOut(buf[s]) => flush <= buf[s].due + b + INTERVAL_MAX
    <3>1. CASE s \in DOMAIN snd_buf
      <4>1. buf[s] = snd_buf[s]
        BY <1>4, <3>1
      <4> QED
        BY <3>1, <4>1 DEF FlushReady
    <3>2. CASE s \notin DOMAIN snd_buf
      BY <1>4, <3>2
    <3> QED
      BY <3>1, <3>2
  <2>3. PICK seg : seg = buf[s]
    OBVIOUS
  <2>4. /\ SegmentOK(Flushed(seg), at, f, b, flush)
        /\ Flushed(seg).xmit > seg.xmit =>
             \/ seg.xmit = 0
             \/ fastresend > 0 /\ seg.skips >= fastresend
             \/ seg.due <= at + f
    BY <2>2, <2>3, FlushedOK
  <2> QED
    BY <2>1, <2>3, <2>4
<1>9. ASSUME NEW s \in DOMAIN snd_buf, Resent(s)
      PROVE  SkipsEnough(s) \/ snd_buf[s].due <= updatedAt' + f
  <2>1. buf[s] = snd_buf[s] /\ s \in DOMAIN buf
    BY <1>4
  <2>2. snd_buf[s].xmit # 0
    <3>1. snd_buf[s] \in Segment
      BY DEF TypeOK
    <3> QED
      BY <3>1 DEF Segment
  <2> QED
    BY <1>8, <1>9, <2>1, <2>2 DEF Resent, SkipsEnough
<1>10. wire' \subseteq [sn : Nat, ts : Serial, at : 0..now]
  <2>1. ASSUME NEW w \in {[sn |-> s, ts |-> current', at |-> now] : s \in out}
        PROVE  w \in [sn : Nat, ts : Serial, at : 0..now]
    <3>1. PICK s \in out : w = [sn |-> s, ts |-> current', at |-> now]
      BY Zenon
    <3>2. s \in Nat /\ current' \in Serial /\ now \in 0..now
      BY <1>2, <1>5, <1>7
    <3> QED
      BY ONLY <3>1, <3>2
  <2> QED
    BY <1>2, <1>6, <2>1, Zenon
<1>11. /\ snd_queue' \in Nat /\ snd_nxt' \in Nat /\ snd_una \in 0..snd_nxt'
       /\ DOMAIN snd_buf' \subseteq snd_una .. snd_nxt' - 1
  BY ONLY <1>2, <1>3, <1>6, <1>7
<1>12. state' \in BOOLEAN
  BY ONLY <1>2, <1>6
<1> HIDE DEF Segment
<1>13. FlushDone(f, b, flush)
  BY <1>1, <1>7, <1>8, <1>9 DEF FlushDone
<1> QED
  BY <1>1, <1>6, <1>10, <1>11, <1>12, <1>13 DEF FlushTypes


-----------------------------------------------------------------------------
(* ikcp_update and its schedule *)

\* The clock is Start, how far it was set forward and back, and the time.
LEMMA ClockFacts ==
  ASSUME TypeOK
  PROVE  /\ now + skew \in Int /\ clock \in Serial /\ clock \in Int
         /\ clock = Cut(now + (Start + Ahead - setBack))
         /\ interval \in 1..INTERVAL_MAX /\ ts_flush \in Int /\ current \in Int
<1>1. now \in Nat /\ skew \in Int /\ setBack \in Nat /\ Start \in Int
  BY Constants DEF TypeOK
<1>2. clock \in Serial
  BY <1>1, CutType DEF clock
<1>3. Start + Ahead - setBack = skew
  BY <1>1 DEF Ahead
<1>4. interval \in INTERVAL_MIN..INTERVAL_MAX /\ ts_flush \in Serial /\ current \in Serial
  BY DEF TypeOK
<1> QED
  BY <1>1, <1>2, <1>3, <1>4, Constants, HalfRangeAssumption DEF clock, Serial

\* What ikcp_update plans: it flushes and plans the next flush within one
\* interval, or it keeps the plan, which is at most JUMP away.
Replanned == (\E c \in Nat : Flush(c)) /\ Wait' \in 1..interval

PlanKept ==
  /\ updated /\ ts_flush' = ts_flush
  /\ Diff(clock, ts_flush) \in -JUMP .. -1 /\ Wait' = -Diff(clock, ts_flush)
  /\ UNCHANGED <<sndVars, probeVars, state, flushedAt>>

\* A flush in dist from a planned one plans the next.
LEMMA NextFlush ==
  ASSUME NEW base \in Int, NEW iv \in 1..INTERVAL_MAX, NEW dist \in 0..JUMP,
         NEW cur, cur = Cut(base + dist)
  PROVE  LET next == Cut(Cut(base) + iv)
             flush == IF Diff(cur, next) >= 0 THEN Cut(cur + iv) ELSE next
         IN Diff(flush, cur) \in 1..iv /\ flush \in Serial
<1>1. PICK x \in Int, y \in Int, z \in Int : x = base + dist /\ y = base + iv /\ z = x + iv
  BY Constants
<1>2. Cut(Cut(base) + iv) = Cut(y) /\ cur = Cut(x) /\ Cut(cur + iv) = Cut(z)
  BY <1>1, CutAdd
<1>3. Diff(Cut(x), Cut(y)) = x - y /\ Diff(Cut(y), Cut(x)) = y - x /\ Diff(Cut(z), Cut(x)) = z - x
  <2>1. /\ -H <= x - y /\ x - y < H /\ -H <= y - x /\ y - x < H /\ -H <= z - x /\ z - x < H
    BY <1>1, Constants
  <2> QED
    BY <1>1, <2>1, DiffExact
<1>4. x - y = dist - iv /\ y - x = iv - dist /\ z - x = iv
  BY <1>1
<1>5. Cut(y) \in Serial /\ Cut(z) \in Serial
  BY CutType
<1>6. CASE dist >= iv
  BY <1>2, <1>3, <1>4, <1>5, <1>6
<1>7. CASE dist < iv
  BY <1>2, <1>3, <1>4, <1>5, <1>7
<1> QED
  BY <1>6, <1>7

LEMMA UpdatePlans ==
  ASSUME TypeOK, Update
  PROVE  /\ Replanned \/ PlanKept
         /\ ts_flush' \in Serial
<1>1. /\ clock \in Serial /\ clock \in Int /\ ts_flush \in Serial /\ ts_flush \in Int
      /\ interval \in 1..INTERVAL_MAX /\ current' = clock
  BY ClockFacts DEF TypeOK, Update
<1>2. PICK at : at = ScheduledFor(clock)
  OBVIOUS
<1>3. PICK next : next = Cut(at + interval)
  OBVIOUS
<1>4. PICK flush : flush = IF Diff(clock, next) >= 0 THEN Cut(clock + interval) ELSE next
  OBVIOUS
<1>5. PICK d \in Int : d = Diff(clock, ts_flush)
  BY <1>1, DiffType
<1>6. \/ /\ Diff(clock, at) >= 0 /\ ts_flush' = flush
         /\ \E c \in 0..SndWnd : Flush(c)
      \/ /\ ~(Diff(clock, at) >= 0) /\ ts_flush' = at
         /\ UNCHANGED <<sndVars, probeVars, state, flushedAt>>
  <2>1. IF Diff(clock, at) >= 0
        THEN ts_flush' = flush /\ \E c \in 0..SndWnd : Flush(c)
        ELSE ts_flush' = at /\ UNCHANGED <<sndVars, probeVars, state, flushedAt>>
    BY <1>2, <1>3, <1>4 DEF Update
  <2> QED
    BY <2>1
<1>7. Cut(clock) = clock /\ Cut(ts_flush) = ts_flush
  BY <1>1, CutType
<1>8. Diff(clock, clock) = 0
  <2>1. clock - clock = 0 /\ H \in Nat /\ -H <= 0 /\ 0 < H
    BY <1>1, HalfRangeAssumption
  <2>2. -H <= clock - clock /\ clock - clock < H
    BY <2>1
  <2> QED
    BY <1>1, <1>7, <2>1, <2>2, DiffExact
<1>9. CASE at = clock
  <2>1. Diff(flush, clock) \in 1..interval /\ flush \in Serial
    <3>1. PICK zero \in 0..JUMP : zero = 0 /\ clock + zero = clock
      BY <1>1, Constants
    <3>2. clock = Cut(clock + zero)
      BY <1>7, <3>1
    <3> QED
      BY <1>1, <1>3, <1>4, <1>7, <1>9, <3>2, NextFlush
  <2>2. \E c \in Nat : Flush(c)
    <3>1. 0..SndWnd \subseteq Nat
      BY TimerAssumption
    <3> QED
      BY <1>6, <1>8, <1>9, <3>1
  <2>3. ts_flush' = flush
    BY <1>6, <1>8, <1>9
  <2> QED
    BY <1>1, <2>1, <2>2, <2>3 DEF Replanned, Wait
<1>10. CASE at = ts_flush /\ updated /\ d < JUMP /\ d >= -JUMP
  <2>1. CASE d >= 0
    <3>1. Diff(flush, clock) \in 1..interval /\ flush \in Serial
      <4>1. d \in 0..JUMP
        BY <1>10, <2>1, Constants
      <4>2. clock = Cut(ts_flush + d)
        BY <1>1, <1>5, DiffInverse
      <4> QED
        BY <1>1, <1>3, <1>4, <1>7, <1>10, <4>1, <4>2, NextFlush
    <3>2. \E c \in Nat : Flush(c)
      <4>1. 0..SndWnd \subseteq Nat
        BY TimerAssumption
      <4> QED
        BY <1>5, <1>6, <1>10, <2>1, <4>1
    <3>3. ts_flush' = flush
      BY <1>5, <1>6, <1>10, <2>1
    <3> QED
      BY <1>1, <3>1, <3>2, <3>3 DEF Replanned, Wait
  <2>2. CASE d < 0
    <3>1. ts_flush' = ts_flush /\ UNCHANGED <<sndVars, probeVars, state, flushedAt>>
      BY <1>5, <1>6, <1>10, <2>2
    <3>2. d \in -JUMP .. -1
      BY <1>10, <2>2, Constants
    <3>3. Diff(ts_flush, clock) = -d
      BY <1>1, <1>5, <3>2, Constants, DiffOpposite
    <3> QED
      BY <1>1, <1>5, <1>10, <3>1, <3>2, <3>3 DEF PlanKept, Wait
  <2> QED
    BY <2>1, <2>2
<1> QED
  BY <1>2, <1>5, <1>9, <1>10, Constants DEF ScheduledFor


\* While the application sleeps.
LEMMA Asleep ==
  ASSUME TimerInv, updated
  PROVE  /\ now \in Nat /\ updatedAt \in 0..now /\ Wait \in 1..JUMP
         /\ now <= updatedAt + Wait + Lateness
         /\ now <= updatedAt + INTERVAL_MAX + Lateness
<1>1. /\ now \in Nat /\ updatedAt \in -1..now /\ updatedAt >= 0 /\ Wait \in 1..JUMP
      /\ named \in Nat /\ now <= imax(named + Lateness, updatedAt + 1)
      /\ named <= updatedAt + imin(Wait, INTERVAL_MAX)
  BY DEF TimerInv, TypeOK, Scheduled
<1>2. PICK w \in 1..JUMP, im \in Nat \ {0}, late \in Nat :
        w = Wait /\ im = INTERVAL_MAX /\ late = Lateness
  BY <1>1, Constants
<1>3. updatedAt \in 0..now
  BY ONLY <1>1
<1>4. now <= updatedAt + w + late /\ now <= updatedAt + im + late
  BY ONLY <1>1, <1>2, <1>3, Constants DEF imin, imax
<1> QED
  BY <1>1, <1>2, <1>3, <1>4

\* A kept plan still names the same time, but for what the clock was set since.
LEMMA PlanMoves ==
  ASSUME TimerInv, Update, PlanKept
  PROVE  /\ \/ now + Wait' = updatedAt + Wait
            \/ jumps > 0 /\ now <= setAt + INTERVAL_MAX + Lateness
         /\ Wait' \in 1..JUMP
         /\ \A f \in 0..Ahead, b \in 0..setBack :
              current = Cut(updatedAt + (Start + f - b)) =>
                now + Wait' = updatedAt + Wait + (f - Ahead) + (setBack - b)
<1>1. /\ now \in Nat /\ updatedAt \in 0..now /\ Wait \in 1..JUMP
      /\ now <= updatedAt + INTERVAL_MAX + Lateness
  BY Asleep DEF PlanKept
<1>2. /\ TypeOK /\ Ahead \in Nat /\ setBack \in Nat /\ Ahead + setBack <= Swing
      /\ clock \in Int /\ ts_flush \in Serial /\ current \in Int /\ setAt \in Nat
      /\ clock = Cut(now + (Start + Ahead - setBack))
  BY ClockFacts DEF TimerInv, TypeOK
<1>3. PICK w \in 1..JUMP : w = Wait /\ ts_flush = Cut(current + w)
  <2>1. ts_flush = Cut(current + Diff(ts_flush, current))
    BY <1>2, DiffInverse
  <2> QED
    BY <1>1, <2>1 DEF Wait
<1>4. PICK e \in 1..JUMP : e = Wait' /\ Diff(clock, ts_flush) = -e
  <2>1. PICK d \in -JUMP .. -1 : d = Diff(clock, ts_flush) /\ Wait' = -d
    BY DEF PlanKept
  <2>2. -d \in 1..JUMP /\ -(-d) = d
    BY Constants
  <2> QED
    BY <2>1, <2>2
<1>5. PICK jump \in Nat, im \in Nat, late \in Nat, swing \in Nat :
        /\ jump = JUMP /\ im = INTERVAL_MAX /\ late = Lateness /\ swing = Swing
        /\ jump + im + late + swing < H /\ H \in Nat
  BY Constants
<1>6. ASSUME clock = Cut(current + (now - updatedAt))
      PROVE  now + e = updatedAt + w
  <2>1. PICK x \in Int, y \in Int : x = current + (now - updatedAt) /\ y = current + w
    BY <1>1, <1>2
  <2>2. -H <= x - y /\ x - y < H /\ x - y = now - updatedAt - w
    BY ONLY <1>1, <1>2, <1>5, <2>1, w \in 1..JUMP
  <2>3. Diff(Cut(x), Cut(y)) = x - y
    BY <2>2, DiffExact
  <2>4. -e = x - y
    BY <1>3, <1>4, <1>6, <2>1, <2>3
  <2> QED
    BY ONLY <1>1, <2>2, <2>4, e \in 1..JUMP, w \in 1..JUMP, <1>5
<1>7. \/ clock = Cut(current + (now - updatedAt))
      \/ jumps > 0 /\ updatedAt <= setAt
  BY DEF TimerInv, Scheduled, PlanKept
<1>8. ASSUME updatedAt <= setAt PROVE now <= setAt + INTERVAL_MAX + Lateness
  BY ONLY <1>1, <1>2, <1>5, <1>8
<1>9. ASSUME NEW f \in 0..Ahead, NEW b \in 0..setBack,
             current = Cut(updatedAt + (Start + f - b))
      PROVE  now + e = updatedAt + w + (f - Ahead) + (setBack - b)
  <2>1. PICK ahead \in Nat, back \in Nat : ahead = Ahead /\ back = setBack
    BY <1>2
  <2>2. PICK z \in Int : z = updatedAt + (Start + f - b)
    BY <1>1, Constants
  <2>3. PICK x \in Int, y \in Int : x = now + (Start + ahead - back) /\ y = z + w
    BY <1>1, Constants
  <2>4. ts_flush = Cut(y)
    BY <1>3, <1>9, <2>2, <2>3, CutAdd
  <2>5. x - y = now - updatedAt - w + (ahead - f) + (b - back)
    BY ONLY <1>1, <2>1, <2>2, <2>3, f \in 0..Ahead, b \in 0..setBack, w \in 1..JUMP, Constants
  <2>6. -H <= x - y /\ x - y < H
    BY ONLY <1>1, <1>2, <1>5, <2>1, <2>5, f \in 0..Ahead, b \in 0..setBack, w \in 1..JUMP
  <2>7. Diff(Cut(x), Cut(y)) = x - y
    BY <2>6, DiffExact
  <2>8. -e = x - y
    BY <1>2, <1>4, <2>1, <2>3, <2>4, <2>7
  <2> QED
    BY ONLY <1>1, <2>1, <2>5, <2>8, f \in 0..Ahead, b \in 0..setBack, w \in 1..JUMP,
            e \in 1..JUMP, <1>5
<1> QED
  BY <1>3, <1>4, <1>6, <1>7, <1>8, <1>9

\* What is kept right needs no more than this of the next flush.
LEMMA UpdateReady ==
  ASSUME TimerInv, Update, NEW flush \in Nat, flush <= now + INTERVAL_MAX
  PROVE  FlushReady(Ahead, setBack, flush)
<1>1. /\ TypeOK /\ updatedAt' = now /\ current' = clock /\ now \in Nat
      /\ Ahead \in Nat /\ setBack \in Nat /\ Ahead + setBack <= Swing
      /\ quietAt \in Nat /\ updated \in BOOLEAN
      /\ current' = Cut(now + (Start + Ahead - setBack))
  BY ClockFacts DEF TimerInv, TypeOK, Update
<1>2. CASE ~updated
  <2>1. DOMAIN snd_buf = {} /\ probe_wait = 0
    BY <1>2 DEF TimerInv, TimersKept
  <2> QED
    BY <2>1 DEF FlushReady
<1>3. CASE updated
  <2>1. PICK f \in 0..Ahead, b \in 0..setBack :
          /\ \A s \in DOMAIN snd_buf : Timed(snd_buf[s].resendts, snd_buf[s].due, f, b)
          /\ probe_wait # 0 =>
               \E due \in 0 .. quietAt + PROBE_LIMIT : Timed(ts_probe, due, f, b)
    BY <1>3 DEF TimerInv, TimersKept
  <2>2. PICK old \in Nat :
          /\ old = updatedAt + Wait /\ updatedAt \in 0..now /\ now <= old + Lateness
    <3>1. /\ updatedAt \in 0..now /\ Wait \in 1..JUMP /\ now <= updatedAt + Wait + Lateness
      BY <1>3, Asleep
    <3>2. updatedAt + Wait \in Nat
      BY ONLY <1>1, <3>1, Constants
    <3> QED
      BY <3>1, <3>2
  <2>3. ASSUME NEW ts, NEW due \in Nat, Timed(ts, due, f, b)
        PROVE  /\ Shows(ts, due, Ahead, setBack)
               /\ old <= due + setBack + INTERVAL_MAX
               /\ Diff(current', ts) < 0 => flush <= due + setBack + INTERVAL_MAX
    <3>1. Shows(ts, due, f, b) /\ old <= due + b + INTERVAL_MAX
      BY <2>2, <2>3 DEF Timed
    <3>2. Shows(ts, due, Ahead, setBack)
      BY <1>1, <3>1, ShowsMore
    <3>3. PICK im \in Nat, late \in Nat : im = INTERVAL_MAX /\ late = Lateness
      BY Constants
    <3>4. old <= due + setBack + im /\ now <= due + setBack + im + late
      BY ONLY <1>1, <2>2, <3>1, <3>3, b \in 0..setBack, due \in Nat
    <3>5. ASSUME Diff(current', ts) < 0 PROVE flush <= due + setBack + im
      <4>1. now < due + setBack
        BY <1>1, <3>2, <3>3, <3>4, <3>5, DueAhead
      <4> QED
        BY ONLY <1>1, <3>3, <4>1, flush \in Nat, due \in Nat, flush <= now + INTERVAL_MAX
    <3> QED
      BY <3>2, <3>3, <3>4, <3>5
  <2>4. ASSUME NEW s \in DOMAIN snd_buf
        PROVE  /\ SegmentOK(snd_buf[s], updatedAt', Ahead, setBack, old)
               /\ ~TimedOut(snd_buf[s]) => flush <= snd_buf[s].due + setBack + INTERVAL_MAX
    <3>1. PICK seg \in Segment : seg = snd_buf[s]
      BY <1>1 DEF TypeOK
    <3>2. seg.due \in Nat /\ seg.resendts \in Serial
      BY DEF Segment
    <3>3. /\ Shows(seg.resendts, seg.due, Ahead, setBack)
          /\ old <= seg.due + setBack + INTERVAL_MAX
          /\ Diff(current', seg.resendts) < 0 => flush <= seg.due + setBack + INTERVAL_MAX
      BY <2>1, <2>3, <3>1, <3>2
    <3>4. /\ seg.rto <= Longest /\ seg.rto <= seg.due /\ seg.due <= updatedAt + Longest
          /\ seg.fastack <= seg.skips
      BY <3>1 DEF TimerInv, SegmentsKept
    <3>5. seg.due <= now + Longest
      <4>1. PICK long \in Nat : long = Longest
        BY Constants DEF Longest
      <4> QED
        BY ONLY <1>1, <2>2, <3>2, <3>4, <4>1
    <3>6. SegmentOK(seg, updatedAt', Ahead, setBack, old)
      BY ONLY <1>1, <3>3, <3>4, <3>5, seg \in Segment DEF SegmentOK
    <3>7. TimedOut(seg) \/ Diff(current', seg.resendts) < 0
      <4>1. current' \in Int /\ seg.resendts \in Int
        BY <1>1, <3>2, ClockFacts, HalfRangeAssumption DEF Serial
      <4>2. Diff(current', seg.resendts) \in Int
        BY <4>1, DiffType
      <4> QED
        BY <4>2 DEF TimedOut
    <3> QED
      BY <3>1, <3>3, <3>6, <3>7
  <2>5. ASSUME probe_wait # 0
        PROVE  \E due \in 0 .. quietAt + PROBE_LIMIT :
                 /\ Shows(ts_probe, due, Ahead, setBack)
                 /\ Diff(current', ts_probe) < 0 => flush <= due + setBack + INTERVAL_MAX
    <3>1. PICK due \in 0 .. quietAt + PROBE_LIMIT : Timed(ts_probe, due, f, b)
      BY <2>1, <2>5
    <3>2. due \in Nat
      BY <1>1, Constants
    <3> QED
      BY <2>3, <3>1, <3>2
  <2> QED
    BY <2>2, <2>4, <2>5 DEF FlushReady
<1> QED
  BY <1>1, <1>2, <1>3


\* ikcp_check and the sleep after a call.
LEMMA CheckType ==
  ASSUME now \in Nat, clock \in Int, ts_flush' \in Serial, interval' \in Nat,
         \A s \in DOMAIN snd_buf' : snd_buf'[s] \in Segment
  PROVE  /\ CheckNow \in Nat /\ now <= CheckNow /\ CheckNow <= now + interval'
         /\ Diff(ts_flush', clock) >= 0 => CheckNow <= now + Diff(ts_flush', clock)
<1>1. PICK c : c = Check(clock, updated', ts_flush', snd_buf', interval')
  OBVIOUS
<1>2. PICK d \in Int : d = Diff(ts_flush', clock)
  <2>1. ts_flush' \in Int
    BY HalfRangeAssumption DEF Serial
  <2> QED
    BY <2>1, DiffType
<1>3. c \in Nat /\ c <= interval' /\ (d >= 0 => c <= d)
  <2>1. ts_flush' \in Int /\ \A s \in DOMAIN snd_buf' : snd_buf'[s].resendts \in Int
    BY HalfRangeAssumption DEF Serial, Segment
  <2> QED
    BY <1>1, <1>2, <2>1, CheckFacts
<1>4. CheckNow = now + c
  BY <1>1 DEF CheckNow
<1>5. PICK iv \in Nat : iv = interval'
  OBVIOUS
<1>6. /\ now + c \in Nat /\ now <= now + c /\ now + c <= now + iv
      /\ d >= 0 => now + c <= now + d
  <2>1. PICK n \in Nat, k \in Nat : n = now /\ k = c
    BY <1>3
  <2>2. k <= iv /\ (d >= 0 => k <= d)
    BY <1>3, <1>5, <2>1
  <2>3. n + k \in Nat /\ n <= n + k /\ n + k <= n + iv /\ (d >= 0 => n + k <= n + d)
    BY ONLY <2>2, n \in Nat, k \in Nat, iv \in Nat, d \in Int
  <2> QED
    BY <2>1, <2>3
<1> QED
  BY <1>2, <1>4, <1>5, <1>6

\* A call between two of ikcp_update makes the application wake up no later, and
\* not before now.
LEMMA SleepKeeps ==
  ASSUME TimerInv, clock \in Int, ts_flush' \in Serial, interval' \in Nat,
         \A s \in DOMAIN snd_buf' : snd_buf'[s] \in Segment,
         SleepNoLonger
  PROVE  /\ named' \in Nat /\ named' <= named
         /\ now <= imax(named' + Lateness, updatedAt + 1)
<1>1. /\ now \in Nat /\ named \in Nat /\ updatedAt \in Int
      /\ now <= imax(named + Lateness, updatedAt + 1)
  BY DEF TimerInv, TypeOK, Scheduled
<1>2. PICK check \in Nat : check = CheckNow /\ now <= check
  BY <1>1, CheckType
<1>3. named' = imin(named, check)
  BY <1>2 DEF SleepNoLonger
<1> QED
  BY ONLY <1>1, <1>2, <1>3, Constants DEF imin, imax

\* What the calls between two of ikcp_update leave of the schedule, when they do
\* not disturb the types.
LEMMA ScheduleKept ==
  ASSUME TimerInv, TypeOK', SleepNoLonger,
         UNCHANGED <<timeVars, current, updated, ts_flush, updatedAt>>,
         flushedAt' = flushedAt \/ flushedAt' = now
  PROVE  Scheduled' /\ Ahead' = Ahead /\ setBack' = setBack /\ Wait' = Wait
         /\ updatedAt' = updatedAt /\ now' = now /\ updated' = updated
<1>1. /\ now' = now /\ skew' = skew /\ jumps' = jumps /\ setAt' = setAt /\ setBack' = setBack
      /\ current' = current /\ updated' = updated /\ ts_flush' = ts_flush
      /\ updatedAt' = updatedAt
  BY DEF timeVars
<1>2. Ahead' = Ahead /\ Wait' = Wait /\ clock' = clock /\ SetDelay' = SetDelay
  BY <1>1 DEF Ahead, Wait, clock, SetDelay
<1>3. /\ named' \in Nat /\ named' <= named
      /\ now <= imax(named' + Lateness, updatedAt + 1)
  <2>1. clock \in Int /\ ts_flush' \in Serial /\ interval' \in Nat
        /\ \A s \in DOMAIN snd_buf' : snd_buf'[s] \in Segment
    <3>1. interval' \in INTERVAL_MIN .. INTERVAL_MAX /\ ts_flush' \in Serial
          /\ \A s \in DOMAIN snd_buf' : snd_buf'[s] \in Segment
      BY DEF TypeOK
    <3> QED
      BY <3>1, ClockFacts, Constants DEF TimerInv
  <2> QED
    BY <2>1, SleepKeeps
<1>4. /\ now <= imax(named + Lateness, updatedAt + 1) /\ named \in Nat
      /\ flushedAt \in 0..now /\ setAt \in 0..now /\ now \in Nat /\ updatedAt \in Int
  BY DEF TimerInv, TypeOK, Scheduled
<1>5. ~updated => named' = 0 /\ updatedAt = -1
  BY <1>3, <1>4 DEF TimerInv, Scheduled
<1>6. ASSUME updated
      PROVE  /\ updatedAt >= 0 /\ Wait \in 1..JUMP
             /\ named' <= updatedAt + imin(Wait, INTERVAL_MAX)
             /\ updatedAt + Wait <= imax(flushedAt', setAt) + INTERVAL_MAX + SetDelay
             /\ \/ clock = Cut(current + (now - updatedAt))
                \/ jumps > 0 /\ updatedAt <= setAt
  <2>1. /\ updatedAt >= 0 /\ Wait \in 1..JUMP
        /\ named <= updatedAt + imin(Wait, INTERVAL_MAX)
        /\ updatedAt + Wait <= imax(flushedAt, setAt) + INTERVAL_MAX + SetDelay
        /\ \/ clock = Cut(current + (now - updatedAt))
           \/ jumps > 0 /\ updatedAt <= setAt
    BY <1>6 DEF TimerInv, Scheduled
  <2>2. PICK m \in Int : m = imin(Wait, INTERVAL_MAX)
    BY <2>1, Constants DEF imin
  <2>3. named' <= updatedAt + m
    BY ONLY <1>3, <1>4, <2>1, <2>2
  <2>4. SetDelay \in Nat
    BY Constants DEF SetDelay
  <2>5. updatedAt + Wait <= imax(flushedAt', setAt) + INTERVAL_MAX + SetDelay
    <3>1. PICK w \in Int, x \in Int, y \in Int :
            /\ w = Wait /\ x = imax(flushedAt, setAt) /\ y = imax(flushedAt', setAt) /\ x <= y
      BY ONLY <1>4, <2>1, flushedAt' = flushedAt \/ flushedAt' = now, Constants DEF imax
    <3> QED
      BY ONLY <1>4, <2>1, <2>4, <3>1, Constants
  <2> QED
    BY <2>1, <2>2, <2>3, <2>5
<1> QED
  BY <1>1, <1>2, <1>3, <1>5, <1>6 DEF Scheduled


-----------------------------------------------------------------------------
(* The inductive invariant *)

\* A call that sends nothing leaves the timers alone.
LEMMA TimersStay ==
  ASSUME TimerInv, UNCHANGED <<now, current, updated, updatedAt, ts_flush>>,
         Ahead' = Ahead, setBack' = setBack,
         UNCHANGED <<ts_probe, probe_wait, quietAt>>,
         DOMAIN snd_buf' \subseteq DOMAIN snd_buf,
         \A s \in DOMAIN snd_buf' :
           /\ snd_buf'[s].resendts = snd_buf[s].resendts
           /\ snd_buf'[s].due = snd_buf[s].due
           /\ snd_buf'[s].rto = snd_buf[s].rto
           /\ snd_buf[s].fastack <= snd_buf[s].skips
                => snd_buf'[s].fastack <= snd_buf'[s].skips
  PROVE  TimersKept' /\ SegmentsKept'
<1>1. Wait' = Wait /\ updatedAt' = updatedAt /\ Longest' = Longest
  BY DEF Wait, Longest
<1>2. SegmentsKept'
  BY <1>1 DEF TimerInv, SegmentsKept
<1>3. CASE ~updated
  <2>1. DOMAIN snd_buf = {} /\ probe_wait = 0
    BY <1>3 DEF TimerInv, TimersKept
  <2>2. ~updated' /\ DOMAIN snd_buf' = {} /\ probe_wait' = 0
    BY <1>3, <2>1
  <2> QED
    BY ONLY <1>2, <2>2 DEF TimersKept
<1>4. CASE updated
  <2>1. PICK f \in 0..Ahead, b \in 0..setBack :
          /\ current = Cut(updatedAt + (Start + f - b))
          /\ Wait <= INTERVAL_MAX + b
          /\ \A s \in DOMAIN snd_buf : Timed(snd_buf[s].resendts, snd_buf[s].due, f, b)
          /\ probe_wait # 0 =>
               \E due \in 0 .. quietAt + PROBE_LIMIT : Timed(ts_probe, due, f, b)
    BY <1>4 DEF TimerInv, TimersKept
  <2>2. /\ current' = Cut(updatedAt' + (Start + f - b))
        /\ Wait' <= INTERVAL_MAX + b
        /\ \A s \in DOMAIN snd_buf' : Timed(snd_buf[s].resendts, snd_buf[s].due, f, b)'
        /\ probe_wait' # 0 =>
             \E due \in 0 .. quietAt' + PROBE_LIMIT : Timed(ts_probe, due, f, b)'
    BY <1>1, <2>1 DEF Timed
  <2>3. f \in 0..Ahead' /\ b \in 0..setBack' /\ updated'
    BY <1>4
  <2>4. TimersKept'
    BY ONLY <2>2, <2>3 DEF TimersKept
  <2> QED
    BY <1>2, <2>4
<1> QED
  BY <1>2, <1>3, <1>4

\* A call that flushes, with the plan that was there or a new one.
LEMMA TimersAfterFlush ==
  ASSUME NEW f \in 0..Ahead', NEW b \in 0..setBack', updated',
         current' = Cut(updatedAt' + (Start + f - b)),
         Wait' <= INTERVAL_MAX + b, NEW flush, flush = updatedAt' + Wait',
         FlushDone(f, b, flush)
  PROVE  TimersKept' /\ SegmentsKept'
<1>1. ASSUME NEW s \in DOMAIN snd_buf'
      PROVE  /\ Timed(snd_buf[s].resendts, snd_buf[s].due, f, b)'
             /\ snd_buf'[s].rto <= Longest /\ snd_buf'[s].rto <= snd_buf'[s].due
             /\ snd_buf'[s].due <= updatedAt' + Longest
             /\ snd_buf'[s].fastack <= snd_buf'[s].skips
  <2>1. SegmentOK(snd_buf'[s], updatedAt', f, b, flush)
    BY DEF FlushDone
  <2>2. PICK seg : seg = snd_buf'[s]
    OBVIOUS
  <2>3. /\ seg.rto <= Longest /\ seg.rto <= seg.due /\ seg.due <= updatedAt' + Longest
        /\ seg.fastack <= seg.skips
        /\ Shows(seg.resendts, seg.due, f, b)
        /\ flush <= seg.due + b + INTERVAL_MAX
    BY ONLY <2>1, <2>2 DEF SegmentOK
  <2> QED
    BY <2>2, <2>3 DEF Timed, Shows
<1>2. probe_wait' # 0 =>
        \E due \in 0 .. quietAt' + PROBE_LIMIT : Timed(ts_probe, due, f, b)'
  BY DEF FlushDone, Timed, Shows
<1> QED
  BY <1>1, <1>2 DEF TimersKept, SegmentsKept, Longest

LEMMA TimerInvInit == Init => TimerInv
<1> SUFFICES ASSUME Init PROVE TimerInv
  OBVIOUS
<1>1. 0 \in Serial
  BY HalfRangeAssumption DEF Serial
<1>2. INTERVAL \in Serial
  BY Constants DEF Serial
<1>3. MaxJumps \in Nat /\ MaxAppFlushes \in Nat /\ WND_RCV \in Nat
  BY TimerAssumption, BoundAssumption
<1>4. Ahead = 0
  BY Constants DEF Init, Ahead
<1>5. TypeOK
  <2>1. PICK lo \in Nat : lo = imin(RTO_NDL, RTO_MIN) /\ lo <= RTO_DEF
    <3>1. imin(RTO_NDL, RTO_MIN) \in Nat /\ imin(RTO_NDL, RTO_MIN) <= RTO_DEF
      BY Constants, TimerAssumption DEF imin
    <3> QED
      BY <3>1
  <2> QED
    <3>1. /\ interval \in INTERVAL_MIN..INTERVAL_MAX
          /\ rx_rto \in imin(RTO_NDL, RTO_MIN) .. RTO_MAX
      BY <2>1, Constants DEF Init
    <3>2. /\ {setAt, flushedAt, quietAt} \subseteq 0..now /\ updatedAt \in -1..now
          /\ now \in 0..MaxNow /\ jumps \in 0..MaxJumps /\ appFlushes \in 0..MaxAppFlushes
      BY <1>3, Constants DEF Init
    <3>3. /\ DOMAIN snd_buf = {} /\ wire = {} /\ snd_una \in 0..snd_nxt
          /\ snd_queue \in Nat /\ snd_nxt \in Nat
      BY DEF Init
    <3>4. /\ skew \in Int /\ setBack \in Nat /\ Ahead \in Nat /\ named \in Nat
          /\ current \in Serial /\ updated \in BOOLEAN /\ ts_flush \in Serial
      BY <1>1, <1>2, <1>4, Constants DEF Init
    <3>5. /\ nodelay \in 0..2 /\ fastresend \in Nat /\ rx_minrto \in {RTO_NDL, RTO_MIN}
          /\ rx_srtt \in Nat /\ rx_rttval \in Nat
      BY DEF Init
    <3>6. /\ rmt_wnd \in Nat /\ ts_probe \in Serial
          /\ probe_wait \in {0} \cup PROBE_INIT .. PROBE_LIMIT
          /\ state \in BOOLEAN
      BY <1>1, <1>3 DEF Init
    <3>7. /\ DOMAIN snd_buf \subseteq snd_una .. snd_nxt - 1
          /\ \A s \in DOMAIN snd_buf : snd_buf[s] \in Segment
          /\ wire \subseteq [sn : Nat, ts : Serial, at : 0..now]
      BY ONLY <3>3
    <3> QED
      BY ONLY <3>1, <3>2, <3>3, <3>4, <3>5, <3>6, <3>7 DEF TypeOK
<1>6. Scheduled
  BY Constants DEF Init, Scheduled, imax
<1>7. TimersKept /\ SegmentsKept
  BY DEF Init, TimersKept, SegmentsKept
<1> QED
  BY <1>4, <1>5, <1>6, <1>7, Constants DEF TimerInv, Init


LEMMA TickStep ==
  ASSUME TimerInv, Tick
  PROVE  TimerInv'
<1>1. /\ now' = now + 1 /\ now < MaxNow
      /\ now < named + Lateness \/ updatedAt = now
      /\ UNCHANGED <<skew, jumps, setAt, setBack, modeVars, rttVars, sndVars, probeVars,
                     scheduleVars, state, named>>
  BY DEF Tick
<1>2. /\ TypeOK /\ now \in 0..MaxNow /\ named \in Nat /\ updatedAt \in -1..now
      /\ now + skew \in Int /\ Longest' = Longest
  BY ClockFacts DEF TimerInv, TypeOK, Longest
<1>3. /\ Ahead' = Ahead /\ setBack' = setBack /\ Wait' = Wait /\ SetDelay' = SetDelay
      /\ updated' = updated /\ updatedAt' = updatedAt /\ current' = current
      /\ snd_buf' = snd_buf /\ named' = named
  BY <1>1 DEF Ahead, Wait, SetDelay, scheduleVars, sndVars
<1>4. TypeOK'
  <2>1. {setAt, flushedAt, quietAt} \subseteq 0..now /\ updatedAt \in -1..now
    BY <1>2 DEF TypeOK
  <2>2. now' \in 0..MaxNow /\ 0..now \subseteq 0..now' /\ -1..now \subseteq -1..now'
    BY ONLY <1>1, <1>2, Constants
  <2>3. {setAt', flushedAt', quietAt'} \subseteq 0..now' /\ updatedAt' \in -1..now'
    BY <1>1, <2>1, <2>2 DEF scheduleVars, probeVars
  <2>4. wire' \subseteq [sn : Nat, ts : Serial, at : 0..now']
    <3>1. wire \subseteq [sn : Nat, ts : Serial, at : 0..now] /\ wire' = wire
      BY <1>1, <1>2 DEF TypeOK, sndVars
    <3> QED
      BY ONLY <2>2, <3>1
  <2>5. /\ skew' \in Int /\ jumps' \in 0..MaxJumps /\ setBack' \in Nat /\ Ahead' \in Nat
        /\ named' \in Nat
        /\ current' \in Serial /\ updated' \in BOOLEAN /\ ts_flush' \in Serial
        /\ appFlushes' \in 0..MaxAppFlushes
    BY <1>1, <1>2, <1>3 DEF TypeOK, scheduleVars
  <2>6. /\ interval' \in INTERVAL_MIN..INTERVAL_MAX /\ nodelay' \in 0..2
        /\ fastresend' \in Nat /\ rx_minrto' \in {RTO_NDL, RTO_MIN}
        /\ rx_srtt' \in Nat /\ rx_rttval' \in Nat
        /\ rx_rto' \in imin(RTO_NDL, RTO_MIN)..RTO_MAX
    BY <1>1, <1>2 DEF TypeOK, modeVars, rttVars
  <2>7. /\ snd_queue' \in Nat /\ snd_nxt' \in Nat /\ snd_una' \in 0..snd_nxt'
        /\ DOMAIN snd_buf' \subseteq snd_una' .. snd_nxt' - 1
        /\ \A s \in DOMAIN snd_buf' : snd_buf'[s] \in Segment
        /\ rmt_wnd' \in Nat /\ ts_probe' \in Serial
        /\ probe_wait' \in {0} \cup PROBE_INIT .. PROBE_LIMIT /\ state' \in BOOLEAN
    <3> HIDE DEF Segment
    <3> QED
      BY <1>1, <1>2 DEF TypeOK, sndVars, probeVars
  <2> QED
    BY ONLY <2>2, <2>3, <2>4, <2>5, <2>6, <2>7 DEF TypeOK
<1>5. Scheduled'
  <2>1. now' <= imax(named' + Lateness, updatedAt' + 1)
    BY ONLY <1>1, <1>2, <1>3, Constants DEF imax
  <2>2. clock = Cut(current + (now - updatedAt)) => clock' = Cut(current' + (now' - updatedAt'))
    <3>1. ASSUME clock = Cut(current + (now - updatedAt))
          PROVE  clock' = Cut(current' + (now' - updatedAt'))
      <4>1. PICK x \in Int, y \in Int : x = now + skew /\ y = current + (now - updatedAt)
        BY <1>2, ClockFacts
      <4>2. now' + skew' = x + 1 /\ current' + (now' - updatedAt') = y + 1
        <5>1. skew \in Int /\ skew' = skew
          BY <1>1, <1>2 DEF TypeOK
        <5>2. current \in Int
          BY <1>2, ClockFacts
        <5> QED
          BY ONLY <1>1, <1>2, <1>3, <4>1, <5>1, <5>2
      <4>3. Cut(x + 1) = Cut(Cut(x) + 1) /\ Cut(y + 1) = Cut(Cut(y) + 1)
        BY CutAdd
      <4>4. Cut(x) = Cut(y)
        BY <3>1, <4>1 DEF clock
      <4> QED
        BY <4>2, <4>3, <4>4 DEF clock
    <3> QED
      BY <3>1
  <2>3. setAt' = setAt /\ flushedAt' = flushedAt /\ jumps' = jumps
    BY <1>1 DEF scheduleVars
  <2> QED
    BY <1>3, <2>1, <2>2, <2>3 DEF TimerInv, Scheduled
<1>6. TimersKept' /\ SegmentsKept'
  <2>1. UNCHANGED <<ts_probe, probe_wait, quietAt>>
    BY <1>1 DEF probeVars
  <2> QED
    BY <1>3, <2>1 DEF TimerInv, TimersKept, SegmentsKept, Timed, Shows, Longest
<1> QED
  BY <1>3, <1>4, <1>5, <1>6 DEF TimerInv

LEMMA SetClockStep ==
  ASSUME TimerInv, NEW by \in Jumps, SetClock(by)
  PROVE  TimerInv'
<1>1. /\ jumps < MaxJumps /\ Ahead + setBack + imax(by, -by) <= Swing
      /\ jumps' = jumps + 1 /\ skew' = skew + by /\ setAt' = now
      /\ setBack' = IF by < 0 THEN setBack - by ELSE setBack
      /\ UNCHANGED <<now, modeVars, rttVars, sndVars, probeVars, scheduleVars,
                     state, named>>
  BY DEF SetClock
<1>2. /\ TypeOK /\ by \in Int /\ now \in Nat /\ skew \in Int /\ jumps \in 0..MaxJumps
      /\ setBack \in Nat /\ Ahead \in Nat /\ setAt \in 0..now /\ flushedAt \in 0..now
      /\ updatedAt \in -1..now
  BY TimerAssumption DEF TimerInv, TypeOK
<1>3. /\ Ahead' \in Nat /\ setBack' \in Nat /\ Ahead' + setBack' <= Swing
      /\ Ahead <= Ahead' /\ setBack <= setBack'
  BY <1>1, <1>2, Constants DEF Ahead, imax
<1>4. /\ now' = now /\ named' = named /\ snd_buf' = snd_buf /\ updated' = updated
      /\ updatedAt' = updatedAt /\ current' = current /\ ts_flush' = ts_flush
      /\ flushedAt' = flushedAt /\ Wait' = Wait
      /\ UNCHANGED <<ts_probe, probe_wait, quietAt>>
  BY <1>1 DEF scheduleVars, sndVars, probeVars, Wait
<1>5. TypeOK'
  <2>1. jumps' \in 0..MaxJumps /\ skew' \in Int /\ setAt' \in 0..now'
    BY ONLY <1>1, <1>2, BoundAssumption
  <2>2. /\ now' \in 0..MaxNow /\ {flushedAt', quietAt'} \subseteq 0..now'
        /\ updatedAt' \in -1..now' /\ named' \in Nat /\ appFlushes' \in 0..MaxAppFlushes
        /\ current' \in Serial /\ updated' \in BOOLEAN /\ ts_flush' \in Serial
    BY <1>1, <1>2, <1>4 DEF TypeOK, scheduleVars
  <2>3. /\ interval' \in INTERVAL_MIN..INTERVAL_MAX /\ nodelay' \in 0..2
        /\ fastresend' \in Nat /\ rx_minrto' \in {RTO_NDL, RTO_MIN}
        /\ rx_srtt' \in Nat /\ rx_rttval' \in Nat
        /\ rx_rto' \in imin(RTO_NDL, RTO_MIN)..RTO_MAX
    BY <1>1, <1>2 DEF TypeOK, modeVars, rttVars
  <2>4. /\ snd_queue' \in Nat /\ snd_nxt' \in Nat /\ snd_una' \in 0..snd_nxt'
        /\ DOMAIN snd_buf' \subseteq snd_una' .. snd_nxt' - 1
        /\ \A s \in DOMAIN snd_buf' : snd_buf'[s] \in Segment
        /\ wire' \subseteq [sn : Nat, ts : Serial, at : 0..now']
        /\ rmt_wnd' \in Nat /\ ts_probe' \in Serial
        /\ probe_wait' \in {0} \cup PROBE_INIT .. PROBE_LIMIT /\ state' \in BOOLEAN
    BY <1>1, <1>2 DEF TypeOK, sndVars, probeVars
  <2> QED
    BY ONLY <1>3, <2>1, <2>2, <2>3, <2>4 DEF TypeOK
<1>6. Scheduled'
  <2>1. jumps' > 0 /\ SetDelay' = Lateness + JUMP
    BY <1>1, <1>2 DEF SetDelay
  <2>2. SetDelay \in Nat /\ SetDelay <= SetDelay'
    BY <2>1, Constants DEF SetDelay
  <2>3. ASSUME updated
        PROVE  updatedAt' + Wait' <= imax(flushedAt', setAt') + INTERVAL_MAX + SetDelay'
    <3>1. PICK x \in Int, y \in Int :
            x = imax(flushedAt, setAt) /\ y = imax(flushedAt', setAt') /\ x <= y
      BY ONLY <1>1, <1>2, <1>4 DEF imax
    <3>2. updatedAt + Wait <= x + INTERVAL_MAX + SetDelay /\ Wait \in 1..JUMP
      BY <2>3, <3>1 DEF TimerInv, Scheduled
    <3>3. SetDelay' \in Nat
      BY <2>1, Constants
    <3> QED
      BY ONLY <1>2, <1>4, <2>2, <3>1, <3>2, <3>3, Constants
  <2>4. updatedAt' <= setAt'
    BY <1>1, <1>2, <1>4
  <2> QED
    BY <1>4, <2>1, <2>3, <2>4 DEF TimerInv, Scheduled
<1>7. TimersKept'
  <2>1. CASE ~updated
    BY <1>4, <2>1 DEF TimerInv, TimersKept
  <2>2. CASE updated
    <3>1. PICK f \in 0..Ahead, b \in 0..setBack :
            /\ current = Cut(updatedAt + (Start + f - b))
            /\ Wait <= INTERVAL_MAX + b
            /\ \A s \in DOMAIN snd_buf : Timed(snd_buf[s].resendts, snd_buf[s].due, f, b)
            /\ probe_wait # 0 =>
                 \E due \in 0 .. quietAt + PROBE_LIMIT : Timed(ts_probe, due, f, b)
      BY <2>2 DEF TimerInv, TimersKept
    <3>2. f \in 0..Ahead' /\ b \in 0..setBack'
      BY <1>2, <1>3
    <3> QED
      BY <1>4, <2>2, <3>1, <3>2 DEF TimersKept, Timed, Shows
  <2> QED
    BY <2>1, <2>2
<1>8. SegmentsKept'
  BY <1>4 DEF TimerInv, SegmentsKept, Longest
<1> QED
  BY <1>3, <1>5, <1>6, <1>7, <1>8 DEF TimerInv


LEMMA SendStep ==
  ASSUME TimerInv, Send
  PROVE  TimerInv'
<1>1. /\ snd_queue' = snd_queue + 1
      /\ UNCHANGED <<snd_buf, snd_una, snd_nxt, wire, timeVars, modeVars, rttVars,
                     probeVars, scheduleVars, state>>
      /\ SleepNoLonger
  BY DEF Send
<1>2. /\ TypeOK /\ clock \in Int /\ ts_flush' \in Serial /\ interval' \in Nat
      /\ \A s \in DOMAIN snd_buf' : snd_buf'[s] \in Segment
  <2>1. TypeOK /\ clock \in Int /\ interval \in Nat
    BY ClockFacts DEF TimerInv
  <2> QED
    BY <1>1, <2>1 DEF TypeOK, modeVars, scheduleVars
<1>3. named' \in Nat
  BY <1>1, <1>2, SleepKeeps
<1>4. TypeOK'
  <2>1. snd_queue' \in Nat
    BY <1>1, <1>2 DEF TypeOK
  <2>2. /\ now' \in 0..MaxNow /\ skew' \in Int /\ jumps' \in 0..MaxJumps
        /\ {setAt', flushedAt', quietAt'} \subseteq 0..now' /\ updatedAt' \in -1..now'
        /\ setBack' \in Nat /\ Ahead' \in Nat /\ appFlushes' \in 0..MaxAppFlushes
        /\ current' \in Serial /\ updated' \in BOOLEAN /\ ts_flush' \in Serial
    BY <1>1, <1>2 DEF TypeOK, timeVars, scheduleVars, probeVars, Ahead
  <2>3. /\ interval' \in INTERVAL_MIN..INTERVAL_MAX /\ nodelay' \in 0..2
        /\ fastresend' \in Nat /\ rx_minrto' \in {RTO_NDL, RTO_MIN}
        /\ rx_srtt' \in Nat /\ rx_rttval' \in Nat
        /\ rx_rto' \in imin(RTO_NDL, RTO_MIN)..RTO_MAX
    BY <1>1, <1>2 DEF TypeOK, modeVars, rttVars
  <2>4. /\ snd_nxt' \in Nat /\ snd_una' \in 0..snd_nxt'
        /\ DOMAIN snd_buf' \subseteq snd_una' .. snd_nxt' - 1
        /\ \A s \in DOMAIN snd_buf' : snd_buf'[s] \in Segment
        /\ wire' \subseteq [sn : Nat, ts : Serial, at : 0..now']
        /\ rmt_wnd' \in Nat /\ ts_probe' \in Serial
        /\ probe_wait' \in {0} \cup PROBE_INIT .. PROBE_LIMIT /\ state' \in BOOLEAN
    BY <1>1, <1>2 DEF TypeOK, timeVars, probeVars
  <2> QED
    BY ONLY <1>3, <2>1, <2>2, <2>3, <2>4 DEF TypeOK
<1>5. /\ Scheduled' /\ Ahead' = Ahead /\ setBack' = setBack
  BY <1>1, <1>4, ScheduleKept DEF scheduleVars
<1>6. TimersKept' /\ SegmentsKept'
  BY <1>1, <1>5, TimersStay DEF scheduleVars, probeVars, timeVars
<1> QED
  BY <1>4, <1>5, <1>6 DEF TimerInv

LEMMA NoDelayStep ==
  ASSUME TimerInv, NEW m \in Modes, NoDelay(m)
  PROVE  TimerInv'
<1>1. /\ nodelay' = m.nodelay
      /\ rx_minrto' = IF m.nodelay > 0 THEN RTO_NDL ELSE RTO_MIN
      /\ interval' = IF m.interval < 0 THEN interval ELSE Bounded(m.interval)
      /\ fastresend' = m.resend
      /\ UNCHANGED <<timeVars, rttVars, sndVars, probeVars, scheduleVars, state>>
      /\ SleepNoLonger
  BY DEF NoDelay
<1>2. TypeOK /\ clock \in Int
  BY ClockFacts DEF TimerInv
<1>3. /\ interval' \in INTERVAL_MIN..INTERVAL_MAX /\ nodelay' \in 0..2
      /\ fastresend' \in Nat /\ rx_minrto' \in {RTO_NDL, RTO_MIN}
  <2>1. m.nodelay \in 0..2 /\ m.interval \in Int /\ m.resend \in Nat
    BY TimerAssumption
  <2>2. Bounded(m.interval) \in INTERVAL_MIN..INTERVAL_MAX
    BY ONLY <2>1, Constants DEF Bounded, imin, imax
  <2>3. interval \in INTERVAL_MIN..INTERVAL_MAX
    BY <1>2 DEF TypeOK
  <2> QED
    BY <1>1, <2>1, <2>2, <2>3
<1>4. TypeOK'
  <2>1. /\ now' \in 0..MaxNow /\ skew' \in Int /\ jumps' \in 0..MaxJumps
        /\ {setAt', flushedAt', quietAt'} \subseteq 0..now' /\ updatedAt' \in -1..now'
        /\ setBack' \in Nat /\ Ahead' \in Nat /\ appFlushes' \in 0..MaxAppFlushes
        /\ current' \in Serial /\ updated' \in BOOLEAN /\ ts_flush' \in Serial
    BY <1>1, <1>2 DEF TypeOK, timeVars, scheduleVars, probeVars, Ahead
  <2>2. /\ rx_srtt' \in Nat /\ rx_rttval' \in Nat
        /\ rx_rto' \in imin(RTO_NDL, RTO_MIN)..RTO_MAX
    BY <1>1, <1>2 DEF TypeOK, rttVars
  <2>3. /\ snd_queue' \in Nat /\ snd_nxt' \in Nat /\ snd_una' \in 0..snd_nxt'
        /\ DOMAIN snd_buf' \subseteq snd_una' .. snd_nxt' - 1
        /\ \A s \in DOMAIN snd_buf' : snd_buf'[s] \in Segment
        /\ wire' \subseteq [sn : Nat, ts : Serial, at : 0..now']
        /\ rmt_wnd' \in Nat /\ ts_probe' \in Serial
        /\ probe_wait' \in {0} \cup PROBE_INIT .. PROBE_LIMIT /\ state' \in BOOLEAN
    BY <1>1, <1>2 DEF TypeOK, timeVars, sndVars, probeVars
  <2>4. named' \in Nat
    <3>1. interval' \in Nat
      BY <1>3, Constants
    <3> QED
      BY <1>1, <1>2, <2>1, <2>3, <3>1, SleepKeeps
  <2> QED
    BY ONLY <1>3, <2>1, <2>2, <2>3, <2>4 DEF TypeOK
<1>5. /\ Scheduled' /\ Ahead' = Ahead /\ setBack' = setBack
  BY <1>1, <1>4, ScheduleKept DEF scheduleVars
<1>6. TimersKept' /\ SegmentsKept'
  BY <1>1, <1>5, TimersStay DEF scheduleVars, probeVars, timeVars, sndVars
<1> QED
  BY <1>4, <1>5, <1>6 DEF TimerInv

\* A datagram of acknowledgements is a sequence of at most two.
LEMMA ArriveInput ==
  ASSUME TypeOK, Arrive
  PROVE  \E wnd \in Nat, una \in Nat, acks \in Seq(wire) :
           /\ Len(acks) \in 0..2 /\ Input(acks, una, wnd)
           /\ \A i \in 1..Len(acks) : acks[i] \in Answered
<1>1. TypeOK /\ Wnds \subseteq Nat /\ snd_una \in Nat /\ snd_nxt \in Nat
  BY TimerAssumption DEF TypeOK
<1>2. PICK wnd \in Wnds, una \in snd_una .. snd_nxt :
        \E acks \in {<<>>} \cup {<<c>> : c \in Answered}
                   \cup {<<c, d>> : c \in Answered, d \in Answered} : Input(acks, una, wnd)
  BY DEF Arrive
<1>3. PICK acks \in {<<>>} \cup {<<c>> : c \in Answered}
                   \cup {<<c, d>> : c \in Answered, d \in Answered} : Input(acks, una, wnd)
  BY <1>2
<1>4. /\ acks \in Seq(wire) /\ Len(acks) \in 0..2
      /\ \A i \in 1..Len(acks) : acks[i] \in Answered
  <2>1. Answered \subseteq wire
    BY DEF Answered
  <2>2. CASE acks = <<>>
    BY <2>2
  <2>3. CASE acks \in {<<c>> : c \in Answered}
    <3>1. PICK c \in Answered : acks = <<c>>
      BY <2>3
    <3>2. c \in wire
      BY <2>1
    <3> QED
      BY ONLY <3>1, <3>2, c \in Answered
  <2>4. CASE acks \in {<<c, d>> : c \in Answered, d \in Answered}
    <3>1. PICK c \in Answered, d \in Answered : acks = <<c, d>>
      BY <2>4
    <3>2. c \in wire /\ d \in wire
      BY <2>1
    <3> QED
      BY ONLY <3>1, <3>2, c \in Answered, d \in Answered
  <2> QED
    BY <2>2, <2>3, <2>4
<1> QED
  BY <1>1, <1>3, <1>4

LEMMA ArriveStep ==
  ASSUME TimerInv, Arrive
  PROVE  TimerInv'
<1>1. PICK wnd \in Nat, una \in Nat, acks \in Seq(wire) :
        Len(acks) \in 0..2 /\ Input(acks, una, wnd)
  BY ArriveInput DEF TimerInv
<1>2. /\ snd_una' \in 0..snd_nxt /\ DOMAIN snd_buf' \subseteq snd_una' .. snd_nxt - 1
      /\ DOMAIN snd_buf' \subseteq DOMAIN snd_buf
      /\ \A s \in DOMAIN snd_buf' :
           /\ snd_buf'[s] \in Segment
           /\ snd_buf'[s].resendts = snd_buf[s].resendts
           /\ snd_buf'[s].due = snd_buf[s].due
           /\ snd_buf'[s].rto = snd_buf[s].rto
           /\ snd_buf'[s].xmit = snd_buf[s].xmit
           /\ snd_buf[s].fastack <= snd_buf[s].skips
                => snd_buf'[s].fastack <= snd_buf'[s].skips
  BY <1>1, InputKeepsSegments DEF TimerInv
<1>3. /\ rmt_wnd' = wnd
      /\ \E est : /\ EstimateOK(est)
                  /\ rx_srtt' = est.srtt /\ rx_rttval' = est.rttval /\ rx_rto' = est.rto
      /\ wire' \subseteq wire
      /\ UNCHANGED <<snd_queue, snd_nxt, ts_probe, probe_wait, quietAt, timeVars,
                     modeVars, scheduleVars, state>>
      /\ SleepNoLonger
  <2>1. EstimateOK(EstimateAfter(acks))
    BY <1>1, EstimateType DEF TimerInv
  <2> QED
    BY <1>1, <2>1 DEF Input
<1>4. TypeOK /\ clock \in Int
  BY ClockFacts DEF TimerInv
<1>5. TypeOK'
  <2>1. /\ now' \in 0..MaxNow /\ skew' \in Int /\ jumps' \in 0..MaxJumps
        /\ {setAt', flushedAt', quietAt'} \subseteq 0..now' /\ updatedAt' \in -1..now'
        /\ setBack' \in Nat /\ Ahead' \in Nat /\ appFlushes' \in 0..MaxAppFlushes
        /\ current' \in Serial /\ updated' \in BOOLEAN /\ ts_flush' \in Serial
    BY <1>3, <1>4 DEF TypeOK, timeVars, scheduleVars, Ahead
  <2>2. /\ interval' \in INTERVAL_MIN..INTERVAL_MAX /\ nodelay' \in 0..2
        /\ fastresend' \in Nat /\ rx_minrto' \in {RTO_NDL, RTO_MIN}
        /\ rx_srtt' \in Nat /\ rx_rttval' \in Nat
        /\ rx_rto' \in imin(RTO_NDL, RTO_MIN)..RTO_MAX
    BY <1>3, <1>4 DEF TypeOK, modeVars, EstimateOK
  <2>3. /\ snd_queue' \in Nat /\ snd_nxt' \in Nat /\ snd_una' \in 0..snd_nxt'
        /\ DOMAIN snd_buf' \subseteq snd_una' .. snd_nxt' - 1
        /\ \A s \in DOMAIN snd_buf' : snd_buf'[s] \in Segment
    BY <1>2, <1>3, <1>4 DEF TypeOK
  <2>4. /\ wire' \subseteq [sn : Nat, ts : Serial, at : 0..now']
        /\ rmt_wnd' \in Nat /\ ts_probe' \in Serial
        /\ probe_wait' \in {0} \cup PROBE_INIT .. PROBE_LIMIT /\ state' \in BOOLEAN
    BY <1>1, <1>3, <1>4 DEF TypeOK, timeVars
  <2>5. named' \in Nat
    <3>1. interval' \in Nat
      <4>1. interval' \in INTERVAL_MIN .. INTERVAL_MAX
        BY <2>2
      <4>2. INTERVAL_MIN \in Nat
        BY Constants
      <4> QED
        BY ONLY <4>1, <4>2
    <3> QED
      BY <1>3, <1>4, <2>1, <2>3, <3>1, SleepKeeps
  <2> QED
    BY ONLY <2>1, <2>2, <2>3, <2>4, <2>5 DEF TypeOK
<1>6. /\ Scheduled' /\ Ahead' = Ahead /\ setBack' = setBack
  BY <1>3, <1>5, ScheduleKept DEF scheduleVars
<1>7. TimersKept' /\ SegmentsKept'
  BY <1>2, <1>3, <1>6, TimersStay DEF scheduleVars, timeVars
<1> QED
  BY <1>5, <1>6, <1>7 DEF TimerInv


\* The types after a flush, and the segments' part of the invariant.
LEMMA FlushTypeOK ==
  ASSUME TypeOK, FlushTypes, NEW f, NEW b, NEW flush, FlushDone(f, b, flush),
         UNCHANGED <<timeVars, modeVars, rttVars>>,
         current' \in Serial, updated' \in BOOLEAN, ts_flush' \in Serial,
         updatedAt' \in -1..now, appFlushes' \in 0..MaxAppFlushes,
         named' \in Nat
  PROVE  TypeOK'
<1>1. /\ now' \in 0..MaxNow /\ skew' \in Int /\ jumps' \in 0..MaxJumps
      /\ {setAt', flushedAt', quietAt'} \subseteq 0..now' /\ updatedAt' \in -1..now'
      /\ setBack' \in Nat /\ Ahead' \in Nat
  <2>1. now' = now /\ skew' = skew /\ jumps' = jumps /\ setAt' = setAt /\ setBack' = setBack
    BY DEF timeVars
  <2>2. flushedAt' = now /\ quietAt' \in 0..now /\ now \in 0..MaxNow
    BY DEF FlushTypes, TypeOK
  <2>3. now \in 0..now
    BY ONLY <2>2, Constants
  <2> QED
    BY <2>1, <2>2, <2>3 DEF TypeOK, Ahead
<1>2. /\ interval' \in INTERVAL_MIN..INTERVAL_MAX /\ nodelay' \in 0..2
      /\ fastresend' \in Nat /\ rx_minrto' \in {RTO_NDL, RTO_MIN}
      /\ rx_srtt' \in Nat /\ rx_rttval' \in Nat
      /\ rx_rto' \in imin(RTO_NDL, RTO_MIN)..RTO_MAX
  BY DEF TypeOK, modeVars, rttVars
<1>3. /\ snd_queue' \in Nat /\ snd_nxt' \in Nat /\ snd_una' \in 0..snd_nxt'
      /\ DOMAIN snd_buf' \subseteq snd_una' .. snd_nxt' - 1
      /\ rmt_wnd' \in Nat /\ ts_probe' \in Serial
      /\ probe_wait' \in {0} \cup PROBE_INIT .. PROBE_LIMIT /\ state' \in BOOLEAN
  BY DEF TypeOK, FlushTypes
<1>4. \A s \in DOMAIN snd_buf' : snd_buf'[s] \in Segment
  BY DEF FlushDone, SegmentOK
<1>5. wire' \subseteq [sn : Nat, ts : Serial, at : 0..now']
  BY DEF FlushTypes, timeVars
<1> QED
  BY ONLY <1>1, <1>2, <1>3, <1>4, <1>5, current' \in Serial, updated' \in BOOLEAN,
          ts_flush' \in Serial, appFlushes' \in 0..MaxAppFlushes, named' \in Nat
     DEF TypeOK

\* A flush by the application.
LEMMA FlushNowDone ==
  ASSUME TimerInv, FlushNow
  PROVE  /\ updated
         /\ \E f \in 0..Ahead, b \in 0..setBack :
              /\ current = Cut(updatedAt + (Start + f - b))
              /\ Wait <= INTERVAL_MAX + b
              /\ FlushDone(f, b, updatedAt + Wait)
         /\ FlushTypes
<1>1. /\ updated /\ current' = current /\ updatedAt' = updatedAt
      /\ \E c \in 0..SndWnd : Flush(c)
  BY DEF FlushNow
<1>2. PICK f \in 0..Ahead, b \in 0..setBack :
        /\ current = Cut(updatedAt + (Start + f - b))
        /\ Wait <= INTERVAL_MAX + b
        /\ \A s \in DOMAIN snd_buf : Timed(snd_buf[s].resendts, snd_buf[s].due, f, b)
        /\ probe_wait # 0 =>
             \E due \in 0 .. quietAt + PROBE_LIMIT : Timed(ts_probe, due, f, b)
  BY <1>1 DEF TimerInv, TimersKept
<1>3. PICK c \in Nat : Flush(c)
  <2>1. 0..SndWnd \subseteq Nat
    BY TimerAssumption
  <2> QED
    BY <1>1, <2>1
<1>4. /\ TypeOK /\ updatedAt \in 0..now /\ now \in Nat /\ Wait \in 1..JUMP
      /\ Ahead \in Nat /\ setBack \in Nat /\ Ahead + setBack <= Swing /\ current \in Serial
  BY <1>1, Asleep DEF TimerInv, TypeOK
<1>5. f \in Nat /\ b \in Nat /\ f + b <= Swing
  BY ONLY <1>4, f \in 0..Ahead, b \in 0..setBack, Constants
<1>6. PICK flush \in Nat : flush = updatedAt + Wait /\ flush <= updatedAt + b + INTERVAL_MAX
  <2>1. PICK w \in 1..JUMP, im \in Nat : w = Wait /\ im = INTERVAL_MAX
    BY <1>4, Constants
  <2>2. w <= im + b
    BY <1>2, <2>1
  <2>3. updatedAt + w \in Nat /\ updatedAt + w <= updatedAt + b + im
    BY ONLY <1>4, <1>5, <2>2, w \in 1..JUMP, im \in Nat, Constants
  <2> QED
    BY <2>1, <2>3
<1>7. FlushReady(f, b, flush)
  <2>1. ASSUME NEW s \in DOMAIN snd_buf
        PROVE  /\ \E old \in Nat : SegmentOK(snd_buf[s], updatedAt', f, b, old)
               /\ flush <= snd_buf[s].due + b + INTERVAL_MAX
    <3>1. PICK seg : seg = snd_buf[s]
      OBVIOUS
    <3>2. seg \in Segment
      BY <1>4, <3>1 DEF TypeOK
    <3>3. /\ seg.rto <= Longest /\ seg.rto <= seg.due /\ seg.due <= updatedAt + Longest
          /\ seg.fastack <= seg.skips
      BY <3>1 DEF TimerInv, SegmentsKept
    <3>4. Shows(seg.resendts, seg.due, f, b) /\ flush <= seg.due + b + INTERVAL_MAX
      BY <1>2, <1>6, <3>1 DEF Timed
    <3>5. SegmentOK(seg, updatedAt', f, b, flush)
      BY ONLY <1>1, <3>2, <3>3, <3>4 DEF SegmentOK
    <3> QED
      BY <3>1, <3>4, <3>5
  <2>2. probe_wait # 0 =>
          \E due \in 0 .. quietAt + PROBE_LIMIT :
            Shows(ts_probe, due, f, b) /\ flush <= due + b + INTERVAL_MAX
    BY <1>2, <1>6 DEF Timed
  <2> QED
    BY <2>1, <2>2 DEF FlushReady
<1>8. FlushDone(f, b, flush) /\ FlushTypes
  <2>1. PICK at \in 0..now, cur \in Serial :
          /\ at = updatedAt' /\ cur = current' /\ cur = Cut(at + (Start + f - b))
          /\ flush <= at + b + INTERVAL_MAX
    BY <1>1, <1>2, <1>4, <1>6
  <2> QED
    BY <1>3, <1>4, <1>5, <1>7, <2>1, FlushKeeps
<1> QED
  BY <1>1, <1>2, <1>6, <1>8

LEMMA FlushNowStep ==
  ASSUME TimerInv, FlushNow
  PROVE  TimerInv'
<1>1. /\ appFlushes < MaxAppFlushes /\ appFlushes' = appFlushes + 1
      /\ UNCHANGED <<current, updated, ts_flush, updatedAt>>
      /\ UNCHANGED <<timeVars, modeVars, rttVars>>
      /\ SleepNoLonger
  BY DEF FlushNow
<1>2. PICK f \in 0..Ahead, b \in 0..setBack :
        /\ current = Cut(updatedAt + (Start + f - b))
        /\ Wait <= INTERVAL_MAX + b
        /\ FlushDone(f, b, updatedAt + Wait)
  BY FlushNowDone
<1>3. updated /\ FlushTypes
  BY FlushNowDone
<1>4. TypeOK /\ clock \in Int
  BY ClockFacts DEF TimerInv
<1>5. TypeOK'
  <2>1. /\ current' \in Serial /\ updated' \in BOOLEAN /\ ts_flush' \in Serial
        /\ updatedAt' \in -1..now
    BY <1>1, <1>4 DEF TypeOK
  <2>2. appFlushes' \in 0..MaxAppFlushes
    <3>1. appFlushes \in 0..MaxAppFlushes /\ MaxAppFlushes \in Nat
      BY <1>4, BoundAssumption DEF TypeOK
    <3> QED
      BY ONLY <1>1, <3>1
  <2>3. named' \in Nat
    <3>1. \A s \in DOMAIN snd_buf' : snd_buf'[s] \in Segment
      BY <1>2 DEF FlushDone, SegmentOK
    <3>2. interval' \in Nat
      <4>1. interval' = interval /\ interval \in 1..INTERVAL_MAX
        BY <1>1, <1>4, ClockFacts DEF modeVars
      <4> QED
        BY <4>1
    <3> QED
      BY <1>1, <1>4, <2>1, <3>1, <3>2, SleepKeeps
  <2> QED
    BY <1>1, <1>2, <1>3, <1>4, <2>1, <2>2, <2>3, FlushTypeOK
<1>6. Scheduled' /\ Ahead' = Ahead /\ setBack' = setBack /\ Wait' = Wait
  BY <1>1, <1>3, <1>5, ScheduleKept DEF FlushTypes
<1>7. TimersKept' /\ SegmentsKept'
  <2>1. /\ f \in 0..Ahead' /\ b \in 0..setBack' /\ updated'
        /\ current' = Cut(updatedAt' + (Start + f - b))
        /\ Wait' <= INTERVAL_MAX + b
        /\ FlushDone(f, b, updatedAt' + Wait')
    BY <1>1, <1>2, <1>3, <1>6
  <2> QED
    BY <2>1, TimersAfterFlush
<1> QED
  BY <1>5, <1>6, <1>7 DEF TimerInv


\* A flush by ikcp_update.
LEMMA UpdateDone ==
  ASSUME TimerInv, Update, Replanned
  PROVE  /\ FlushDone(Ahead, setBack, now + Wait')
         /\ FlushTypes
<1>1. /\ TypeOK /\ now \in Nat /\ interval \in 1..INTERVAL_MAX
      /\ Ahead \in Nat /\ setBack \in Nat /\ Ahead + setBack <= Swing
      /\ clock \in Serial /\ clock = Cut(now + (Start + Ahead - setBack))
      /\ current' = clock /\ updatedAt' = now
  BY ClockFacts DEF TimerInv, TypeOK, Update
<1>2. PICK c \in Nat : Flush(c)
  BY DEF Replanned
<1>3. PICK flush \in Nat : flush = now + Wait' /\ flush <= now + INTERVAL_MAX
  <2>1. Wait' \in 1..interval
    BY DEF Replanned
  <2>2. PICK w \in Nat, im \in Nat : w = Wait' /\ im = INTERVAL_MAX /\ w <= im
    <3>1. PICK iv \in 1..INTERVAL_MAX : iv = interval
      BY <1>1
    <3>2. Wait' \in Nat /\ INTERVAL_MAX \in Nat /\ Wait' <= INTERVAL_MAX
      BY ONLY <2>1, <3>1, Constants
    <3> QED
      BY ONLY <3>2
  <2>3. PICK n \in Nat : n = now
    BY <1>1
  <2>4. w <= im
    BY <2>2
  <2>5. n + w \in Nat /\ n + w <= n + im
    BY ONLY <2>4, n \in Nat, w \in Nat, im \in Nat
  <2> QED
    BY <2>2, <2>3, <2>5
<1>4. FlushReady(Ahead, setBack, flush)
  BY <1>3, UpdateReady
<1>5. PICK at \in 0..now, f \in Nat, b \in Nat, cur \in Serial :
        /\ at = updatedAt' /\ cur = current' /\ f = Ahead /\ b = setBack
        /\ cur = Cut(at + (Start + f - b)) /\ f + b <= Swing
        /\ flush <= at + b + INTERVAL_MAX
  <2>1. now \in 0..now /\ flush <= now + setBack + INTERVAL_MAX
    BY ONLY <1>1, <1>3, Constants
  <2> QED
    BY <1>1, <2>1
<1>6. FlushDone(f, b, flush) /\ FlushTypes
  BY <1>1, <1>2, <1>4, <1>5, FlushKeeps
<1> QED
  BY <1>3, <1>5, <1>6

LEMMA UpdateStep ==
  ASSUME TimerInv, Update
  PROVE  TimerInv'
<1>1. /\ current' = clock /\ updatedAt' = now /\ updated' = TRUE
      /\ UNCHANGED <<appFlushes, timeVars, modeVars, rttVars>>
      /\ SleepAnew
  BY DEF Update
<1>2. /\ now' = now /\ skew' = skew /\ jumps' = jumps /\ setAt' = setAt /\ setBack' = setBack
      /\ Ahead' = Ahead /\ clock' = clock /\ SetDelay' = SetDelay /\ interval' = interval
  BY <1>1 DEF timeVars, modeVars, Ahead, clock, SetDelay
<1>3. /\ TypeOK /\ now \in Nat /\ setAt \in 0..now /\ flushedAt \in 0..now
      /\ clock \in Serial /\ clock \in Int /\ clock = Cut(now + (Start + Ahead - setBack))
      /\ interval \in 1..INTERVAL_MAX /\ interval \in Nat
      /\ Ahead \in Nat /\ setBack \in Nat /\ SetDelay \in Nat
  <2>1. TypeOK
    BY DEF TimerInv
  <2>2. SetDelay \in Nat
    BY Constants DEF SetDelay
  <2> QED
    BY <2>1, <2>2, ClockFacts DEF TypeOK
<1>4. (Replanned \/ PlanKept) /\ ts_flush' \in Serial
  BY <1>3, UpdatePlans
<1>5. Wait' \in 1..JUMP
  <2>1. CASE Replanned
    <3>1. Wait' \in 1..interval
      BY <2>1 DEF Replanned
    <3> QED
      BY ONLY <1>3, <3>1, Constants
  <2>2. CASE PlanKept
    BY <2>2, PlanMoves
  <2> QED
    BY <1>4, <2>1, <2>2
<1>6. PICK w \in 1..JUMP : w = Wait'
  BY <1>5
<1>7. \A s \in DOMAIN snd_buf' : snd_buf'[s] \in Segment
  <2>1. CASE Replanned
    BY <2>1, UpdateDone DEF FlushDone, SegmentOK
  <2>2. CASE PlanKept
    BY <1>3, <2>2 DEF PlanKept, sndVars, TypeOK
  <2> QED
    BY <1>4, <2>1, <2>2
<1>8. named' \in Nat /\ named' <= now + interval /\ named' <= now + w
  <2>1. Diff(ts_flush', clock) = w
    BY <1>1, <1>6 DEF Wait
  <2> QED
    BY <1>1, <1>2, <1>3, <1>4, <1>7, <2>1, CheckType DEF SleepAnew
<1>9. TypeOK'
  <2>1. updatedAt' \in -1..now /\ appFlushes' \in 0..MaxAppFlushes /\ updated' \in BOOLEAN
    BY <1>1, <1>3 DEF TypeOK
  <2>2. CASE Replanned
    BY <1>1, <1>3, <1>4, <1>8, <2>1, <2>2, UpdateDone, FlushTypeOK
  <2>3. CASE PlanKept
    <3>1. UNCHANGED <<sndVars, probeVars, state, flushedAt>>
      BY <2>3 DEF PlanKept
    <3>2. /\ now' \in 0..MaxNow /\ skew' \in Int /\ jumps' \in 0..MaxJumps
          /\ {setAt', flushedAt', quietAt'} \subseteq 0..now'
          /\ setBack' \in Nat /\ Ahead' \in Nat
      BY <1>2, <1>3, <3>1 DEF TypeOK, probeVars
    <3>3. /\ interval' \in INTERVAL_MIN..INTERVAL_MAX /\ nodelay' \in 0..2
          /\ fastresend' \in Nat /\ rx_minrto' \in {RTO_NDL, RTO_MIN}
          /\ rx_srtt' \in Nat /\ rx_rttval' \in Nat
          /\ rx_rto' \in imin(RTO_NDL, RTO_MIN)..RTO_MAX
      BY <1>1, <1>3 DEF TypeOK, modeVars, rttVars
    <3>4. /\ snd_queue' \in Nat /\ snd_nxt' \in Nat /\ snd_una' \in 0..snd_nxt'
          /\ DOMAIN snd_buf' \subseteq snd_una' .. snd_nxt' - 1
          /\ wire' \subseteq [sn : Nat, ts : Serial, at : 0..now']
          /\ rmt_wnd' \in Nat /\ ts_probe' \in Serial
          /\ probe_wait' \in {0} \cup PROBE_INIT .. PROBE_LIMIT /\ state' \in BOOLEAN
      BY <1>2, <1>3, <3>1 DEF TypeOK, sndVars, probeVars
    <3>5. updatedAt' \in -1..now' /\ current' \in Serial
      BY <1>1, <1>2, <1>3, <2>1
    <3> QED
      BY ONLY <1>4, <1>7, <1>8, <2>1, <3>2, <3>3, <3>4, <3>5 DEF TypeOK
  <2> QED
    BY <1>4, <2>2, <2>3
<1>10. Scheduled'
  <2>1. now <= imax(named' + Lateness, now + 1)
    BY ONLY <1>3, <1>8, Constants DEF imax
  <2>2. named' <= now + imin(w, INTERVAL_MAX)
    BY ONLY <1>3, <1>8, w \in 1..JUMP, Constants DEF imin
  <2>3. clock = Cut(clock + (now - now))
    <3>1. clock + (now - now) = clock
      BY ONLY <1>3
    <3> QED
      BY <1>3, <3>1, CutType
  <2>4. now + w <= imax(flushedAt', setAt) + INTERVAL_MAX + SetDelay
    <3>1. CASE Replanned
      <4>1. flushedAt' = now /\ w \in 1..interval
        BY <1>6, <3>1, UpdateDone DEF FlushTypes, Replanned
      <4> QED
        BY ONLY <1>3, <4>1, Constants DEF imax
    <3>2. CASE PlanKept
      <4>1. flushedAt' = flushedAt /\ updated
        BY <3>2 DEF PlanKept
      <4>2. PICK x \in Int : x = imax(flushedAt, setAt) /\ setAt <= x
        BY <1>3 DEF imax
      <4>3. CASE now + Wait' = updatedAt + Wait
        <5>1. updatedAt + Wait <= x + INTERVAL_MAX + SetDelay
          BY <4>1, <4>2 DEF TimerInv, Scheduled
        <5> QED
          BY <1>6, <4>1, <4>2, <4>3, <5>1
      <4>4. CASE jumps > 0 /\ now <= setAt + INTERVAL_MAX + Lateness
        <5>1. SetDelay = Lateness + JUMP
          BY <4>4 DEF SetDelay
        <5>2. now + w <= x + INTERVAL_MAX + SetDelay
          BY ONLY <1>3, <4>2, <4>4, <5>1, w \in 1..JUMP, Constants
        <5> QED
          BY <4>1, <4>2, <5>2
      <4> QED
        BY <3>2, <4>3, <4>4, PlanMoves
    <3> QED
      BY <1>4, <3>1, <3>2
  <2>5. now >= 0 /\ w \in 1..JUMP
    BY <1>3
  <2>6. clock' = Cut(current' + (now' - updatedAt'))
    BY <1>1, <1>2, <2>3
  <2>7. /\ now' <= imax(named' + Lateness, updatedAt' + 1)
        /\ updated' /\ updatedAt' >= 0 /\ Wait' \in 1..JUMP
        /\ named' <= updatedAt' + imin(Wait', INTERVAL_MAX)
        /\ updatedAt' + Wait' <= imax(flushedAt', setAt') + INTERVAL_MAX + SetDelay'
    BY <1>1, <1>2, <1>6, <2>1, <2>2, <2>4, <2>5
  <2> QED
    BY ONLY <2>6, <2>7 DEF Scheduled
<1>11. TimersKept' /\ SegmentsKept'
  <2>1. /\ Ahead \in 0..Ahead' /\ setBack \in 0..setBack' /\ updated'
        /\ current' = Cut(updatedAt' + (Start + Ahead - setBack))
    BY <1>1, <1>2, <1>3
  <2>2. CASE Replanned
    <3>1. FlushDone(Ahead, setBack, updatedAt' + Wait')
      BY <1>1, <2>2, UpdateDone
    <3>2. Wait' <= INTERVAL_MAX + setBack
      <4>1. Wait' \in 1..interval
        BY <2>2 DEF Replanned
      <4> QED
        BY ONLY <1>3, <4>1, Constants
    <3> QED
      BY <2>1, <3>1, <3>2, TimersAfterFlush
  <2>3. CASE PlanKept
    <3>1. /\ updated /\ UNCHANGED <<sndVars, probeVars>>
      BY <2>3 DEF PlanKept
    <3>2. PICK f \in 0..Ahead, b \in 0..setBack :
            /\ current = Cut(updatedAt + (Start + f - b))
            /\ Wait <= INTERVAL_MAX + b
            /\ \A s \in DOMAIN snd_buf : Timed(snd_buf[s].resendts, snd_buf[s].due, f, b)
            /\ probe_wait # 0 =>
                 \E due \in 0 .. quietAt + PROBE_LIMIT : Timed(ts_probe, due, f, b)
      BY <3>1 DEF TimerInv, TimersKept
    <3>3. now + w = updatedAt + Wait + (f - Ahead) + (setBack - b)
      BY <1>6, <2>3, <3>2, PlanMoves
    <3>4. PICK ahead \in Nat, back \in Nat, old \in Nat, im \in Nat :
            /\ ahead = Ahead /\ back = setBack /\ old = Wait /\ im = INTERVAL_MAX
            /\ f \in 0..ahead /\ b \in 0..back /\ updatedAt \in 0..now
      <4>1. Wait \in 1..JUMP /\ updatedAt \in 0..now
        BY <3>1, Asleep
      <4>2. Wait \in Nat /\ INTERVAL_MAX \in Nat
        BY ONLY <4>1, Constants
      <4> QED
        BY ONLY <1>3, <4>1, <4>2, f \in 0..Ahead, b \in 0..setBack
    <3>5. w <= im + back
      BY ONLY <1>3, <3>2, <3>3, <3>4, w \in 1..JUMP, Constants
    <3>6. ASSUME NEW ts, NEW due \in Nat, Timed(ts, due, f, b)
          PROVE  Shows(ts, due, Ahead, setBack) /\ now + w <= due + setBack + INTERVAL_MAX
      <4>1. Shows(ts, due, f, b) /\ updatedAt + old <= due + b + im
        BY <3>4, <3>6 DEF Timed
      <4>2. Shows(ts, due, Ahead, setBack)
        BY <1>3, <4>1, ShowsMore
      <4>3. now + w <= due + back + im
        BY ONLY <1>3, <3>3, <3>4, <4>1, w \in 1..JUMP, due \in Nat, Constants
      <4> QED
        BY <3>4, <4>2, <4>3
    <3>7. snd_buf' = snd_buf /\ ts_probe' = ts_probe /\ probe_wait' = probe_wait
          /\ quietAt' = quietAt
      BY <3>1 DEF sndVars, probeVars
    <3>8. ASSUME NEW s \in DOMAIN snd_buf'
          PROVE  Timed(snd_buf[s].resendts, snd_buf[s].due, Ahead, setBack)'
      <4>1. s \in DOMAIN snd_buf /\ snd_buf[s].due \in Nat
        <5>1. s \in DOMAIN snd_buf
          BY <3>7
        <5>2. snd_buf[s] \in Segment
          BY <1>3, <5>1 DEF TypeOK
        <5> QED
          BY <5>1, <5>2 DEF Segment
      <4>2. /\ Shows(snd_buf[s].resendts, snd_buf[s].due, Ahead, setBack)
            /\ now + w <= snd_buf[s].due + setBack + INTERVAL_MAX
        BY <3>2, <3>6, <4>1
      <4> QED
        BY <1>1, <1>2, <1>6, <3>7, <4>2 DEF Timed, Shows
    <3>9. probe_wait' # 0 =>
            \E due \in 0 .. quietAt' + PROBE_LIMIT :
              Timed(ts_probe, due, Ahead, setBack)'
      <4>1. ASSUME probe_wait # 0
            PROVE  \E due \in 0 .. quietAt + PROBE_LIMIT :
                     /\ Shows(ts_probe, due, Ahead, setBack)
                     /\ now + w <= due + setBack + INTERVAL_MAX
        <5>1. PICK due \in 0 .. quietAt + PROBE_LIMIT : Timed(ts_probe, due, f, b)
          BY <3>2, <4>1
        <5>2. due \in Nat
          <6>1. quietAt \in 0..now
            BY <1>3 DEF TypeOK
          <6> QED
            BY ONLY <1>3, <6>1, due \in 0 .. quietAt + PROBE_LIMIT, Constants
        <5> QED
          BY <3>6, <5>1, <5>2
      <4> QED
        BY <1>1, <1>2, <1>6, <3>7, <4>1 DEF Timed, Shows
    <3>10. TimersKept'
      <4>1. /\ Wait' <= INTERVAL_MAX + setBack
            /\ \A s \in DOMAIN snd_buf' :
                 Timed(snd_buf[s].resendts, snd_buf[s].due, Ahead, setBack)'
        BY <1>6, <3>4, <3>5, <3>8
      <4>2. PICK ff \in 0..Ahead', bb \in 0..setBack' :
              ff = Ahead /\ bb = setBack /\ ff = Ahead' /\ bb = setBack'
        BY <1>2, <2>1
      <4>3. /\ current' = Cut(updatedAt' + (Start + ff - bb))
            /\ Wait' <= INTERVAL_MAX + bb
            /\ \A s \in DOMAIN snd_buf' : Timed(snd_buf[s].resendts, snd_buf[s].due, ff, bb)'
            /\ probe_wait' # 0 =>
                 \E due \in 0 .. quietAt' + PROBE_LIMIT : Timed(ts_probe, due, ff, bb)'
        BY ONLY <2>1, <3>9, <4>1, <4>2
      <4> QED
        BY ONLY <2>1, <4>3 DEF TimersKept
    <3>11. SegmentsKept'
      <4>1. ASSUME NEW s \in DOMAIN snd_buf
            PROVE  snd_buf[s].due <= now + Longest
        <5>1. snd_buf[s] \in Segment
          BY <1>3 DEF TypeOK
        <5>2. PICK due \in Nat, long \in Nat : due = snd_buf[s].due /\ long = Longest
          BY <5>1, Constants DEF Segment, Longest
        <5>3. due <= updatedAt + long
          BY <5>2 DEF TimerInv, SegmentsKept
        <5>4. due <= now + long
          BY ONLY <1>3, <3>4, <5>3, due \in Nat, long \in Nat
        <5> QED
          BY <5>2, <5>4
      <4> QED
        BY <1>1, <3>7, <4>1 DEF TimerInv, SegmentsKept, Longest
    <3> QED
      BY <3>10, <3>11
  <2> QED
    BY <1>4, <2>2, <2>3
<1>12. Ahead' + setBack' <= Swing
  BY <1>2 DEF TimerInv
<1> QED
  BY <1>9, <1>10, <1>11, <1>12 DEF TimerInv

LEMMA TimerInvStep == TimerInv /\ [Next]_vars => TimerInv'
<1> SUFFICES ASSUME TimerInv, [Next]_vars PROVE TimerInv'
  OBVIOUS
<1>1. CASE Tick
  BY <1>1, TickStep
<1>2. CASE \E by \in Jumps : SetClock(by)
  BY <1>2, SetClockStep
<1>3. CASE Update
  BY <1>3, UpdateStep
<1>4. CASE FlushNow
  BY <1>4, FlushNowStep
<1>5. CASE Send
  BY <1>5, SendStep
<1>6. CASE \E m \in Modes : NoDelay(m)
  BY <1>6, NoDelayStep
<1>7. CASE Arrive
  BY <1>7, ArriveStep
<1>8. CASE UNCHANGED vars
  <2>1. /\ UNCHANGED <<now, skew, jumps, setAt, setBack>>
        /\ UNCHANGED <<interval, nodelay, fastresend, rx_minrto>>
        /\ UNCHANGED <<rx_srtt, rx_rttval, rx_rto>>
        /\ UNCHANGED <<snd_queue, snd_buf, snd_una, snd_nxt, wire>>
        /\ UNCHANGED <<rmt_wnd, ts_probe, probe_wait, quietAt>>
        /\ UNCHANGED <<current, updated, ts_flush, updatedAt, flushedAt, appFlushes>>
        /\ UNCHANGED <<state, named>>
    BY <1>8 DEF vars, timeVars, modeVars, rttVars, sndVars, probeVars, scheduleVars
  <2>2. Ahead' = Ahead /\ Wait' = Wait /\ clock' = clock /\ SetDelay' = SetDelay
        /\ Longest' = Longest
    BY <2>1 DEF Ahead, Wait, clock, SetDelay, Longest
  <2>3. TypeOK'
    BY <2>1, <2>2 DEF TimerInv, TypeOK
  <2>4. Scheduled'
    BY <2>1, <2>2 DEF TimerInv, Scheduled
  <2>5. TimersKept'
    BY <2>1, <2>2 DEF TimerInv, TimersKept, Timed, Shows
  <2>6. SegmentsKept'
    BY <2>1, <2>2 DEF TimerInv, SegmentsKept
  <2> QED
    BY <2>1, <2>2, <2>3, <2>4, <2>5, <2>6 DEF TimerInv
<1> QED
  BY <1>1, <1>2, <1>3, <1>4, <1>5, <1>6, <1>7, <1>8 DEF Next


\* The clock side's inductive invariant holds in every state.
THEOREM Invariant == Spec => []TimerInv
BY TimerInvInit, TimerInvStep, PTL DEF Spec

-----------------------------------------------------------------------------
(* What follows from it *)

\* The fields keep their types: the RTO stays between its bounds, the probe
\* timer below its limit.
THEOREM TypeCorrect == Spec => []TypeOK
<1>1. TimerInv => TypeOK
  BY DEF TimerInv
<1> QED
  BY <1>1, Invariant, PTL

LEMMA FlushedFromInv == TimerInv => FlushedInTime
<1> SUFFICES ASSUME TimerInv PROVE FlushedInTime
  OBVIOUS
<1>1. /\ now \in Nat /\ flushedAt \in 0..now /\ setAt \in 0..now /\ updatedAt \in -1..now
      /\ updated \in BOOLEAN /\ now <= imax(named + Lateness, updatedAt + 1)
  BY DEF TimerInv, TypeOK, Scheduled
<1>2. SetDelay \in Nat
  BY Constants DEF SetDelay
<1>3. PICK x \in Nat : x = imax(flushedAt, setAt)
  BY <1>1 DEF imax
<1>4. CASE ~updated
  <2>1. named = 0 /\ updatedAt = -1
    BY <1>4 DEF TimerInv, Scheduled
  <2>2. now <= Lateness
    BY ONLY <1>1, <2>1, Constants DEF imax
  <2>3. now <= x + INTERVAL_MAX + Lateness + SetDelay
    BY ONLY <1>1, <1>2, <2>2, x \in Nat, Constants
  <2> QED
    BY <1>3, <2>3 DEF FlushedInTime
<1>5. CASE updated
  <2>1. /\ Wait \in 1..JUMP /\ now <= updatedAt + Wait + Lateness
    BY <1>5, Asleep
  <2>2. updatedAt + Wait <= x + INTERVAL_MAX + SetDelay
    BY <1>3, <1>5 DEF TimerInv, Scheduled
  <2>3. now <= x + INTERVAL_MAX + Lateness + SetDelay
    BY ONLY <1>1, <1>2, <2>1, <2>2, x \in Nat, Constants
  <2> QED
    BY <1>3, <2>3 DEF FlushedInTime
<1> QED
  BY <1>1, <1>4, <1>5

\* ikcp_update flushes again within one interval of the last flush, by an
\* application that sleeps as ikcp_check says, whatever the interval becomes; a
\* clock that is set delays it by JUMP at most.
THEOREM FlushesInTime == Spec => []FlushedInTime
BY FlushedFromInv, Invariant, PTL

LEMMA ResentFromInv == TimerInv => ResentInTime /\ ProbedInTime
<1> SUFFICES ASSUME TimerInv PROVE ResentInTime /\ ProbedInTime
  OBVIOUS
<1>1. TypeOK /\ now \in Nat /\ setBack \in Nat /\ quietAt \in 0..now
  BY DEF TimerInv, TypeOK
<1>2. CASE ~updated
  BY <1>2 DEF TimerInv, TimersKept, ResentInTime, ProbedInTime
<1>3. CASE updated
  <2>1. PICK f \in 0..Ahead, b \in 0..setBack :
          /\ \A s \in DOMAIN snd_buf : Timed(snd_buf[s].resendts, snd_buf[s].due, f, b)
          /\ probe_wait # 0 =>
               \E due \in 0 .. quietAt + PROBE_LIMIT : Timed(ts_probe, due, f, b)
    BY <1>3 DEF TimerInv, TimersKept
  <2>2. PICK w \in 1..JUMP : w = Wait /\ now <= updatedAt + w + Lateness
    BY <1>3, Asleep
  <2>3. updatedAt \in 0..now
    BY <1>3, Asleep
  <2>4. ASSUME NEW ts, NEW due \in Nat, Timed(ts, due, f, b)
        PROVE  now <= due + setBack + INTERVAL_MAX + Lateness
    <3>1. updatedAt + w <= due + b + INTERVAL_MAX
      BY <2>2, <2>4 DEF Timed
    <3> QED
      BY ONLY <1>1, <2>2, <2>3, <3>1, b \in 0..setBack, due \in Nat, w \in 1..JUMP, Constants
  <2>5. ASSUME NEW s \in DOMAIN snd_buf
        PROVE  now <= snd_buf[s].due + setBack + INTERVAL_MAX + Lateness
    <3>1. snd_buf[s].due \in Nat
      <4>1. snd_buf[s] \in Segment
        BY <1>1 DEF TypeOK
      <4> QED
        BY <4>1 DEF Segment
    <3> QED
      BY <2>1, <2>4, <3>1
  <2>6. ASSUME probe_wait # 0
        PROVE  now <= quietAt + setBack + PROBE_LIMIT + INTERVAL_MAX + Lateness
    <3>1. PICK due \in 0 .. quietAt + PROBE_LIMIT : Timed(ts_probe, due, f, b)
      BY <2>1, <2>6
    <3>2. due \in Nat /\ due <= quietAt + PROBE_LIMIT
      BY ONLY <1>1, due \in 0 .. quietAt + PROBE_LIMIT, Constants
    <3>3. now <= due + setBack + INTERVAL_MAX + Lateness
      BY <2>4, <3>1, <3>2
    <3> QED
      BY ONLY <1>1, <3>2, <3>3, Constants
  <2> QED
    BY <2>5, <2>6 DEF ResentInTime, ProbedInTime
<1> QED
  BY <1>1, <1>2, <1>3 DEF TypeOK

\* A segment whose timer has run out is sent again within one interval, by the
\* flush that ikcp_check wakes the application up for, through changes of mode,
\* backoff and wraparound of the clock; a clock set back delays it by as much.
THEOREM ResendsInTime == Spec => []ResentInTime
BY ResentFromInv, Invariant, PTL

\* A closed remote window is probed at least every IKCP_PROBE_LIMIT and one
\* interval.
THEOREM ProbesInTime == Spec => []ProbedInTime
BY ResentFromInv, Invariant, PTL

LEMMA ResentStep ==
  ASSUME TimerInv, [Next]_vars, NEW s \in DOMAIN snd_buf, Resent(s)
  PROVE  SkipsEnough(s) \/ now >= snd_buf[s].due - Ahead
<1>1. /\ TypeOK /\ now \in Nat /\ Ahead \in Nat /\ snd_buf[s] \in Segment
      /\ updatedAt \in -1..now
  BY DEF TimerInv, TypeOK
<1>2. snd_buf[s].due \in Nat /\ snd_buf[s].xmit \in Nat
  BY <1>1 DEF Segment
<1>3. snd_buf' # snd_buf
  BY <1>2 DEF Resent
<1>4. CASE Update
  <2>1. Replanned
    BY <1>1, <1>3, <1>4, UpdatePlans DEF PlanKept, sndVars
  <2>2. SkipsEnough(s) \/ snd_buf[s].due <= now + Ahead
    BY <1>4, <2>1, UpdateDone DEF FlushDone, Update
  <2> QED
    BY <1>1, <1>2, <2>2
<1>5. CASE FlushNow
  <2>1. PICK f \in 0..Ahead, b \in 0..setBack : FlushDone(f, b, updatedAt + Wait)
    BY <1>5, FlushNowDone
  <2>2. updatedAt' = updatedAt
    BY <1>5 DEF FlushNow
  <2>3. SkipsEnough(s) \/ snd_buf[s].due <= updatedAt + f
    BY <2>1, <2>2 DEF FlushDone
  <2>4. PICK due \in Nat : due = snd_buf[s].due
    BY <1>2
  <2>5. due <= updatedAt + f => now >= due - Ahead
    BY ONLY <1>1, f \in 0..Ahead, due \in Nat
  <2> QED
    BY <2>3, <2>4, <2>5
<1>6. CASE Arrive
  <2>1. PICK wnd \in Nat, una \in Nat, acks \in Seq(wire) :
          Len(acks) \in 0..2 /\ Input(acks, una, wnd)
    BY <1>1, <1>6, ArriveInput
  <2>2. snd_buf'[s].xmit = snd_buf[s].xmit
    BY <1>1, <2>1, InputKeepsSegments DEF Resent
  <2> QED
    BY <1>2, <2>2 DEF Resent
<1> QED
  BY <1>3, <1>4, <1>5, <1>6
     DEF Next, Tick, SetClock, Send, NoDelay, vars, sndVars

\* No segment is sent again before its timer has run out, but for what the clock
\* was set forward, unless fastresend ACKs have passed it: not by wraparound, and
\* not because current stands still between two updates.
THEOREM ResendsForAReason == Spec => ResentForAReason
<1> DEFINE Reason == \A s \in DOMAIN snd_buf :
             Resent(s) => SkipsEnough(s) \/ now >= snd_buf[s].due - Ahead
<1>1. TimerInv /\ [Next]_vars => [Reason]_vars
  BY ResentStep
<1>2. Spec => [][Reason]_vars
  BY <1>1, Invariant, PTL DEF Spec
<1> QED
  BY <1>2 DEF ResentForAReason


-----------------------------------------------------------------------------
(* A network without loss and of constant delay d *)

\* What the application may do: it calls ikcp_update in time and leaves the
\* interval and fast resend alone; nobody sets the clock.
Steady(d) ==
  /\ Delays = {d} /\ Late = FALSE /\ d <= RTO_DEF
  /\ Lateness = 0 /\ Jumps = {}
  /\ \A m \in Modes : m.interval < 0 /\ m.resend = 0

\* The inductive invariant there.
SteadyInv == TimerInv /\ Ahead = 0 /\ setBack = 0 /\ fastresend = 0 /\ Punctual

\* A sample that is too short by no more than one interval keeps the estimate so.
LEMMA SamplePunctual ==
  ASSUME TypeOK, NEW d \in Nat, d <= RTO_MAX, NEW est, EstimateOK(est),
         est.srtt = 0 \/ est.srtt + interval >= d, NEW rtt \in Nat, rtt + interval >= d
  PROVE  /\ UpdateAck(est, rtt).rto >= d
         /\ UpdateAck(est, rtt).srtt = 0 \/ UpdateAck(est, rtt).srtt + interval >= d
<1>1. PICK srtt \in Nat, rttval \in Nat, iv \in Nat, low \in Nat, high \in Nat :
        /\ srtt = est.srtt /\ rttval = est.rttval /\ iv = interval
        /\ low = rx_minrto /\ high = RTO_MAX
  <2>1. interval \in Nat /\ rx_minrto \in Nat
    BY ClockFacts, Constants DEF TypeOK
  <2> QED
    BY <2>1, Constants DEF EstimateOK
<1>2. PICK delta \in Nat : delta = IF rtt >= srtt THEN rtt - srtt ELSE srtt - rtt
  <2>1. IF rtt >= srtt THEN rtt - srtt \in Nat ELSE srtt - rtt \in Nat
    BY ONLY rtt \in Nat, srtt \in Nat
  <2> QED
    BY ONLY <2>1
<1>3. PICK var \in Nat : var = IF srtt = 0 THEN rtt \div 2 ELSE (3 * rttval + delta) \div 4
  <2>1. rtt \div 2 \in Nat /\ (3 * rttval + delta) \div 4 \in Nat
    BY ONLY rtt \in Nat, rttval \in Nat, delta \in Nat
  <2> QED
    BY ONLY <2>1
<1>4. PICK mean \in Nat : /\ mean = IF srtt = 0 THEN rtt ELSE imax(1, (7 * srtt + rtt) \div 8)
                          /\ mean + iv >= d
  <2>1. CASE srtt = 0
    BY <1>1, <2>1
  <2>2. CASE srtt # 0
    <3>1. PICK q \in Nat : q = (7 * srtt + rtt) \div 8 /\ 8 * q + 7 >= 7 * srtt + rtt
      BY ONLY rtt \in Nat, srtt \in Nat
    <3>2. srtt + iv >= d /\ rtt + iv >= d
      BY <1>1, <2>2
    <3>3. q + iv >= d
      BY ONLY <3>1, <3>2, q \in Nat, iv \in Nat, d \in Nat, rtt \in Nat, srtt \in Nat
    <3>4. imax(1, q) \in Nat /\ imax(1, q) + iv >= d
      BY ONLY <3>3, q \in Nat, iv \in Nat, d \in Nat DEF imax
    <3> QED
      BY <2>2, <3>1, <3>4
  <2> QED
    BY <2>1, <2>2
<1>5. PICK rto \in Nat : rto = mean + imax(iv, 4 * var) /\ rto >= d
  <2>1. PICK v \in Nat : v = imax(iv, 4 * var) /\ v >= iv
    BY ONLY iv \in Nat, var \in Nat DEF imax
  <2>2. mean + iv >= d
    BY <1>4
  <2>3. mean + v \in Nat /\ mean + v >= d
    BY ONLY <2>1, <2>2, v \in Nat, iv \in Nat, mean \in Nat, d \in Nat
  <2> QED
    BY ONLY <2>1, <2>3
<1>6. UpdateAck(est, rtt) = [srtt |-> mean, rttval |-> var,
                             rto |-> imin(imax(low, rto), high)]
  BY ONLY <1>1, <1>2, <1>3, <1>4, <1>5 DEF UpdateAck
<1>7. imin(imax(low, rto), high) >= d
  BY ONLY <1>1, <1>5, low \in Nat, high \in Nat, rto \in Nat, d \in Nat, d <= RTO_MAX
     DEF imin, imax
<1> QED
  BY <1>1, <1>4, <1>6, <1>7

\* What a flush makes of a segment runs out no earlier than the RTO allows.
LEMMA FlushedLater ==
  ASSUME TypeOK, NEW at \in 0..now, at = updatedAt', NEW f \in Nat, NEW b \in Nat,
         f + b <= Swing,
         NEW cur, cur = current', cur = Cut(at + (Start + f - b)),
         NEW d \in Nat, d <= rx_rto,
         NEW seg,
         seg = Unsent \/ (d <= seg.rto /\ \E old \in Nat : SegmentOK(seg, at, f, b, old))
  PROVE  \/ Flushed(seg) = seg /\ seg # Unsent
         \/ Flushed(seg).rto >= d /\ Flushed(seg).due >= at + d
<1>1. /\ now \in Nat /\ now <= MaxNow /\ at \in Nat /\ nodelay \in 0..2
      /\ rx_rto \in 1..RTO_MAX
  <2>1. now \in 0..MaxNow /\ nodelay \in 0..2 /\ rx_rto \in imin(RTO_NDL, RTO_MIN) .. RTO_MAX
    BY DEF TypeOK
  <2>2. PICK lo \in Nat \ {0} : lo = imin(RTO_NDL, RTO_MIN)
    BY Constants DEF imin
  <2>3. rx_rto \in lo .. RTO_MAX
    BY <2>1, <2>2
  <2>4. rx_rto \in 1..RTO_MAX
    BY ONLY <2>3, lo \in Nat \ {0}, Constants
  <2> QED
    BY <2>1, <2>4, Constants
<1>2. ASSUME NEW rto \in Nat, NEW delay \in Nat, NEW fastack, d <= rto, d <= delay
      PROVE  /\ Sent(seg, rto, delay, fastack).rto >= d
             /\ Sent(seg, rto, delay, fastack).due >= at + d
  <2>1. /\ Sent(seg, rto, delay, fastack).rto = rto
        /\ Sent(seg, rto, delay, fastack).due = at + delay
    BY DEF Sent
  <2>2. at + delay >= at + d
    BY ONLY <1>1, <1>2, d \in Nat, delay \in Nat
  <2> QED
    BY <1>2, <2>1, <2>2
<1>3. CASE seg = Unsent
  <2>1. seg.xmit = 0 /\ seg.rto = 0
    BY <1>3 DEF Unsent
  <2>2. FirstDelay \in Nat /\ rx_rto <= FirstDelay
    BY <1>1, <2>1, DelayTypes, Constants
  <2>3. Flushed(seg) = Sent(seg, rx_rto, FirstDelay, 0)
    BY <2>1 DEF Flushed
  <2>4. PICK rto \in Nat, delay \in Nat : rto = rx_rto /\ delay = FirstDelay /\ d <= rto /\ d <= delay
    <3>1. PICK rto \in Nat : rto = rx_rto /\ d <= rto
      BY <1>1
    <3>2. PICK delay \in Nat : delay = FirstDelay /\ rto <= delay
      BY <2>2, <3>1
    <3>3. d <= rto /\ d <= delay
      BY ONLY <3>1, <3>2, d \in Nat, rto \in Nat, delay \in Nat
    <3> QED
      BY <3>1, <3>2, <3>3
  <2> QED
    BY <1>2, <2>3, <2>4
<1>4. CASE d <= seg.rto /\ \E old \in Nat : SegmentOK(seg, at, f, b, old)
  <2>1. /\ seg \in Segment /\ seg.rto <= seg.due /\ seg.due <= at + Longest
        /\ Shows(seg.resendts, seg.due, f, b)
    BY <1>4 DEF SegmentOK
  <2>2. seg.xmit \in Nat \ {0} /\ seg.rto \in Nat /\ seg.due \in Nat
    BY <2>1, HalfRangeAssumption DEF Segment, Serial
  <2>3. seg # Unsent
    BY <2>2 DEF Unsent
  <2>4. CASE Flushed(seg) = seg
    BY <2>3, <2>4
  <2>5. CASE /\ TimedOut(seg)
             /\ Flushed(seg) = Sent(seg, BackedOff(seg), BackedOff(seg), seg.fastack)
    <3>1. seg.due <= at + f
      <4>1. Diff(Cut(at + (Start + f - b)), seg.resendts) >= 0
        BY <2>5 DEF TimedOut
      <4> QED
        BY <1>1, <2>1, <2>2, <4>1, DuePassed
    <3>2. PICK rto \in Nat : rto = seg.rto /\ d <= rto /\ rto <= MaxNow + Swing
      BY <1>1, <1>4, <2>1, <2>2, <3>1, Constants
    <3>3. BackedOff(seg) \in Serial /\ rto <= BackedOff(seg)
      BY <1>1, <3>2, DelayTypes
    <3>4. PICK delay \in Nat : delay = BackedOff(seg)
      BY <3>3, HalfRangeAssumption DEF Serial
    <3>5. d <= delay
      <4>1. d <= rto /\ rto <= delay
        BY <3>2, <3>3, <3>4
      <4> QED
        BY ONLY <4>1, d \in Nat, rto \in Nat, delay \in Nat
    <3> QED
      BY <1>2, <2>5, <3>4, <3>5
  <2>6. CASE Flushed(seg) = Sent(seg, seg.rto, seg.rto, 0)
    BY <1>2, <1>4, <2>2, <2>6
  <2> QED
    BY <2>2, <2>4, <2>5, <2>6, FlushedCases
<1> QED
  BY <1>3, <1>4


\* The flush of ikcp_update: what is in snd_buf is what was there, or runs out
\* no earlier than its acknowledgement can arrive; what is on the wire was there
\* or is sent now.
LEMMA FlushPunctual ==
  ASSUME TimerInv, Update, Replanned, NEW d \in Nat, d <= rx_rto,
         \A s \in DOMAIN snd_buf : d <= snd_buf[s].rto
  PROVE  /\ \A s \in DOMAIN snd_buf' :
              \/ s \in DOMAIN snd_buf /\ snd_buf'[s] = snd_buf[s]
              \/ snd_buf'[s].rto >= d /\ snd_buf'[s].due >= now + d
         /\ \A w \in wire' : \/ w \in wire
                             \/ /\ w.ts = clock /\ w.at = now
                                /\ w.sn \in DOMAIN snd_buf' => snd_buf'[w.sn].due >= now + d
<1>1. /\ TypeOK /\ now \in 0..now /\ Ahead \in Nat /\ setBack \in Nat /\ Ahead + setBack <= Swing
      /\ clock = Cut(now + (Start + Ahead - setBack)) /\ current' = clock /\ updatedAt' = now
      /\ interval \in 1..INTERVAL_MAX /\ clock \in Serial
  <2>1. TypeOK /\ now \in 0..MaxNow /\ Ahead + setBack <= Swing /\ current' = clock /\ updatedAt' = now
    BY DEF TimerInv, TypeOK, Update
  <2>2. now \in 0..now
    BY ONLY <2>1, Constants
  <2> QED
    BY <2>1, <2>2, ClockFacts DEF TypeOK
<1>2. PICK f \in Nat, b \in Nat, at \in 0..now, cur \in Serial :
        /\ f = Ahead /\ b = setBack /\ at = now /\ cur = current'
        /\ cur = Cut(at + (Start + f - b)) /\ at = updatedAt' /\ f + b <= Swing
  BY <1>1
<1>3. PICK c \in Nat : Flush(c)
  BY DEF Replanned
<1>4. FlushReady(Ahead, setBack, now)
  <2>1. now \in Nat /\ now <= now + INTERVAL_MAX
    BY ONLY <1>1, Constants
  <2> QED
    BY <2>1, UpdateReady
<1>5. PICK n : n = imax(0, imin(snd_queue, snd_una + imin(c, rmt_wnd) - snd_nxt))
  OBVIOUS
<1>6. PICK buf : buf = [s \in DOMAIN snd_buf \cup snd_nxt .. snd_nxt + n - 1 |->
                          IF s \in DOMAIN snd_buf THEN snd_buf[s] ELSE Unsent]
  OBVIOUS
<1>7. PICK out : out = {s \in DOMAIN buf : Flushed(buf[s]).xmit > buf[s].xmit}
  OBVIOUS
<1>8. /\ snd_buf' = [s \in DOMAIN buf |-> Flushed(buf[s])]
      /\ wire' = wire \cup {[sn |-> s, ts |-> current', at |-> now] : s \in out}
  BY <1>5, <1>6, <1>7, <1>3 DEF Flush
<1>9. ASSUME NEW s \in DOMAIN buf
      PROVE  \/ /\ s \in DOMAIN snd_buf /\ snd_buf'[s] = snd_buf[s] /\ buf[s] = snd_buf[s]
                /\ snd_buf'[s] = buf[s]
             \/ snd_buf'[s].rto >= d /\ snd_buf'[s].due >= now + d
  <2>1. PICK seg : seg = buf[s] /\ snd_buf'[s] = Flushed(seg)
    BY <1>8
  <2>2. CASE s \in DOMAIN snd_buf
    <3>1. seg = snd_buf[s]
      BY <1>6, <2>1, <2>2
    <3>2. d <= seg.rto /\ \E old \in Nat : SegmentOK(seg, at, f, b, old)
      BY <1>2, <1>4, <2>2, <3>1 DEF FlushReady
    <3>3. \/ Flushed(seg) = seg /\ seg # Unsent
          \/ Flushed(seg).rto >= d /\ Flushed(seg).due >= at + d
      BY <1>1, <1>2, <3>2, FlushedLater
    <3> QED
      BY <1>2, <2>1, <2>2, <3>1, <3>3
  <2>3. CASE s \notin DOMAIN snd_buf
    <3>1. seg = Unsent
      BY <1>6, <2>1, <2>3
    <3>2. \/ Flushed(seg) = seg /\ seg # Unsent
          \/ Flushed(seg).rto >= d /\ Flushed(seg).due >= at + d
      BY <1>1, <1>2, <3>1, FlushedLater
    <3> QED
      BY <1>2, <2>1, <3>1, <3>2
  <2> QED
    BY <2>2, <2>3
<1>10. DOMAIN snd_buf' = DOMAIN buf
  BY <1>8
<1>11. ASSUME NEW w \in wire', w \notin wire
       PROVE  /\ w.ts = clock /\ w.at = now
              /\ w.sn \in DOMAIN snd_buf' => snd_buf'[w.sn].due >= now + d
  <2>1. PICK s \in out : w = [sn |-> s, ts |-> current', at |-> now]
    BY <1>8, <1>11
  <2>2. s \in DOMAIN buf /\ snd_buf'[s].xmit > buf[s].xmit
    BY <1>7, <1>8
  <2>3. snd_buf'[s] # buf[s]
    <3>1. ASSUME snd_buf'[s] = buf[s] PROVE FALSE
      <4>1. SegmentOK(snd_buf'[s], updatedAt', Ahead, setBack, now + Wait')
        BY <1>10, <2>2, UpdateDone DEF FlushDone
      <4>2. snd_buf'[s].xmit \in Nat
        BY <4>1 DEF SegmentOK, Segment
      <4> QED
        BY <2>2, <3>1, <4>2
    <3> QED
      BY <3>1
  <2>4. snd_buf'[s].due >= now + d
    BY <1>9, <2>2, <2>3
  <2> QED
    BY <1>1, <2>1, <2>4
<1> QED
  BY <1>9, <1>10, <1>11

\* The acknowledgements that arrive: they answer what was sent d ago, and the
\* clock of the last ikcp_update is at most one interval behind.
LEMMA AnsweredPunctual ==
  ASSUME SteadyInv, appFlushes = 0, NEW d \in Nat, Steady(d), NEW w \in Answered
  PROVE  Diff(current, w.ts) \in Nat /\ Diff(current, w.ts) + interval >= d
<1>1. /\ w \in wire /\ now = w.at + d
  BY DEF Answered, Steady
<1>2. /\ TypeOK /\ now \in 0..MaxNow /\ w.at \in 0..now /\ interval \in Nat
      /\ updated \in BOOLEAN /\ updatedAt \in -1..now /\ interval >= 1
  <2>1. TypeOK /\ interval \in 1..INTERVAL_MAX
    BY ClockFacts DEF SteadyInv, TimerInv
  <2> QED
    BY <1>1, <2>1 DEF TypeOK
<1>3. w.at <= updatedAt /\ w.ts = Cut(w.at + Start)
  BY <1>1 DEF SteadyInv, Punctual, Steady
<1>4. updated
  <2>1. updatedAt >= 0
    BY ONLY <1>2, <1>3
  <2> QED
    BY <2>1 DEF SteadyInv, TimerInv, Scheduled
<1>5. current = Cut(updatedAt + Start)
  <2>1. PICK f \in 0..Ahead, b \in 0..setBack : current = Cut(updatedAt + (Start + f - b))
    BY <1>4 DEF SteadyInv, TimerInv, TimersKept
  <2>2. f = 0 /\ b = 0
    BY DEF SteadyInv
  <2>3. updatedAt + (Start + f - b) = updatedAt + Start
    BY ONLY <1>2, <2>2, Constants
  <2> QED
    BY <2>1, <2>3
<1>6. now <= updatedAt + interval
  <2>1. /\ now <= imax(named + Lateness, updatedAt + 1) /\ named \in Nat /\ Lateness = 0
        /\ named <= updatedAt + interval
    BY <1>2, <1>4 DEF SteadyInv, TimerInv, Scheduled, Punctual, Steady, TypeOK
  <2> QED
    BY ONLY <1>2, <2>1 DEF imax
<1>7. PICK x \in Int, y \in Int : x = updatedAt + Start /\ y = w.at + Start
  BY <1>2, Constants
<1>8. x - y = updatedAt - w.at /\ -H <= x - y /\ x - y < H
  BY ONLY <1>2, <1>3, <1>7, Constants
<1>9. Diff(current, w.ts) = updatedAt - w.at
  BY <1>3, <1>5, <1>7, <1>8, DiffExact
<1>10. updatedAt - w.at \in Nat /\ updatedAt - w.at + interval >= d
  BY ONLY <1>1, <1>2, <1>3, <1>6, d \in Nat
<1> QED
  BY <1>9, <1>10

LEMMA EstimatePunctual ==
  ASSUME SteadyInv, appFlushes = 0, NEW d \in Nat, Steady(d),
         NEW acks \in Seq(wire), Len(acks) \in 0..2,
         \A i \in 1..Len(acks) : acks[i] \in Answered
  PROVE  /\ EstimateAfter(acks).rto >= d
         /\ EstimateAfter(acks).srtt = 0 \/ EstimateAfter(acks).srtt + interval >= d
<1> DEFINE Good(est) == /\ EstimateOK(est) /\ est.rto >= d
                        /\ est.srtt = 0 \/ est.srtt + interval >= d
<1>1. TypeOK /\ d <= RTO_MAX
  <2>1. d <= RTO_DEF
    BY DEF Steady
  <2>2. RTO_DEF \in Nat /\ RTO_MAX \in Nat /\ RTO_DEF <= RTO_MAX
    BY Constants
  <2>3. d <= RTO_MAX
    BY ONLY <2>1, <2>2, d \in Nat
  <2> QED
    BY <2>3 DEF SteadyInv, TimerInv
<1>2. Good(Estimate)
  BY <1>1 DEF SteadyInv, Punctual, Steady, Estimate, EstimateOK, TypeOK
<1>3. ASSUME NEW est, Good(est), NEW w \in Answered
      PROVE  Good(Sample(est, w.ts))
  <2>1. PICK rtt \in Nat : rtt = Diff(current, w.ts) /\ rtt + interval >= d
    BY AnsweredPunctual
  <2>2. Sample(est, w.ts) = UpdateAck(est, rtt)
    BY <2>1 DEF Sample
  <2>3. Good(UpdateAck(est, rtt))
    BY <1>1, <1>3, <2>1, SamplePunctual, UpdateAckType
  <2> QED
    BY <2>2, <2>3
<1> HIDE DEF Good
<1>4. Good(EstimateAfter(acks))
  <2>1. CASE Len(acks) = 0
    BY <1>2, <2>1 DEF EstimateAfter
  <2>2. CASE Len(acks) = 1
    <3>1. EstimateAfter(acks) = Sample(Estimate, acks[1].ts) /\ acks[1] \in Answered
      BY <2>2 DEF EstimateAfter
    <3> QED
      BY <1>2, <1>3, <3>1
  <2>3. CASE Len(acks) = 2
    <3>1. /\ EstimateAfter(acks) = Sample(Sample(Estimate, acks[1].ts), acks[2].ts)
          /\ acks[1] \in Answered /\ acks[2] \in Answered
      BY <2>3 DEF EstimateAfter
    <3>2. Good(Sample(Estimate, acks[1].ts))
      BY <1>2, <1>3, <3>1
    <3> QED
      BY <1>3, <3>1, <3>2
  <2> QED
    BY <2>1, <2>2, <2>3
<1> QED
  BY <1>4 DEF Good


LEMMA SteadyInit ==
  ASSUME NEW d \in Nat, Steady(d), Init
  PROVE  SteadyInv
<1>1. TimerInv
  BY TimerInvInit
<1>2. Ahead = 0 /\ setBack = 0 /\ fastresend = 0
  BY Constants DEF Init, Ahead
<1>3. Punctual
  BY DEF Init, Punctual, Steady
<1> QED
  BY <1>1, <1>2, <1>3 DEF SteadyInv

\* A call that sends nothing: the timers stay, and the application wakes up no
\* later.
LEMMA PunctualKept ==
  ASSUME SteadyInv, NEW d \in Nat, Steady(d), TimerInv',
         UNCHANGED <<updated, updatedAt, interval, appFlushes>>, named' <= named,
         rx_rto' >= d, rx_srtt' = 0 \/ rx_srtt' + interval >= d,
         wire' \subseteq wire, DOMAIN snd_buf' \subseteq DOMAIN snd_buf,
         \A s \in DOMAIN snd_buf' :
           snd_buf'[s].due = snd_buf[s].due /\ snd_buf'[s].rto = snd_buf[s].rto
  PROVE  Punctual'
<1> SUFFICES ASSUME appFlushes = 0 PROVE Punctual'
  BY DEF Punctual
<1>1. updated => named' <= updatedAt + interval
  <2>1. /\ named \in Nat /\ named' \in Nat /\ updatedAt \in Int /\ interval \in Int
        /\ updated => named <= updatedAt + interval
    BY DEF SteadyInv, TimerInv, TypeOK, Punctual
  <2> QED
    BY ONLY <2>1, named' <= named
<1>2. ASSUME NEW s \in DOMAIN snd_buf' PROVE snd_buf'[s].rto >= d
  BY DEF SteadyInv, Punctual, Steady
<1>3. ASSUME NEW c \in wire'
      PROVE  /\ c.at <= updatedAt' /\ c.ts = Cut(c.at + Start)
             /\ c.sn \in DOMAIN snd_buf' => c.at + d <= snd_buf'[c.sn].due
  BY DEF SteadyInv, Punctual, Steady
<1> QED
  BY <1>1, <1>2, <1>3 DEF Punctual, Steady

LEMMA UpdatePunctual ==
  ASSUME SteadyInv, NEW d \in Nat, Steady(d), TimerInv', Update
  PROVE  Punctual'
<1>1. /\ current' = clock /\ updatedAt' = now /\ updated' = TRUE
      /\ UNCHANGED <<appFlushes, timeVars, modeVars, rttVars>>
      /\ SleepAnew
  BY DEF Update
<1> SUFFICES ASSUME appFlushes = 0 PROVE Punctual'
  BY <1>1 DEF Punctual
<1>2. /\ TypeOK /\ TypeOK' /\ now \in Nat /\ clock \in Int /\ interval' = interval
      /\ rx_rto' = rx_rto /\ rx_srtt' = rx_srtt
      /\ clock = Cut(now + (Start + Ahead - setBack)) /\ Ahead = 0 /\ setBack = 0
      /\ interval \in Nat /\ updatedAt \in -1..now
  BY <1>1, ClockFacts DEF SteadyInv, TimerInv, TypeOK, modeVars, rttVars
<1>3. named' <= updatedAt' + interval'
  <2>1. /\ ts_flush' \in Serial /\ interval' \in Nat
        /\ \A s \in DOMAIN snd_buf' : snd_buf'[s] \in Segment
    BY <1>2 DEF TypeOK
  <2> QED
    BY <1>1, <1>2, <2>1, CheckType DEF SleepAnew
<1>4. /\ rx_rto' >= d /\ (rx_srtt' = 0 \/ rx_srtt' + interval' >= d)
      /\ rx_rto >= d /\ \A s \in DOMAIN snd_buf : snd_buf[s].rto >= d
  BY <1>2 DEF SteadyInv, Punctual, Steady
<1>5. ASSUME NEW c \in wire
      PROVE  /\ c.at <= now /\ c.at <= updatedAt' /\ c.ts = Cut(c.at + Start) /\ c.at \in Nat
             /\ c.sn \in DOMAIN snd_buf => c.at + d <= snd_buf[c.sn].due
  <2>1. /\ c.ts = Cut(c.at + Start)
        /\ c.sn \in DOMAIN snd_buf => c.at + d <= snd_buf[c.sn].due
    BY DEF SteadyInv, Punctual, Steady
  <2>2. c.at \in 0..now
    BY <1>2 DEF TypeOK
  <2> QED
    BY <1>1, <1>2, <2>1, <2>2
<1>6. clock = Cut(now + Start)
  <2>1. now + (Start + Ahead - setBack) = now + Start
    BY ONLY <1>2, Constants
  <2> QED
    BY <1>2, <2>1
<1>7. CASE Replanned
  <2>1. d <= rx_rto /\ \A s \in DOMAIN snd_buf : d <= snd_buf[s].rto
    <3>1. rx_rto \in Int
      BY <1>2, Constants, MinMaxFacts DEF TypeOK
    <3>2. ASSUME NEW s \in DOMAIN snd_buf PROVE d <= snd_buf[s].rto
      <4>1. snd_buf[s] \in Segment
        BY <1>2 DEF TypeOK
      <4>2. snd_buf[s].rto \in Int
        BY <4>1, HalfRangeAssumption DEF Segment, Serial
      <4> QED
        BY <1>4, <4>2
    <3> QED
      BY <1>4, <3>1, <3>2
  <2>2. /\ \A s \in DOMAIN snd_buf' :
             \/ s \in DOMAIN snd_buf /\ snd_buf'[s] = snd_buf[s]
             \/ snd_buf'[s].rto >= d /\ snd_buf'[s].due >= now + d
        /\ \A w \in wire' : \/ w \in wire
                            \/ /\ w.ts = clock /\ w.at = now
                               /\ w.sn \in DOMAIN snd_buf' => snd_buf'[w.sn].due >= now + d
    BY <1>7, <2>1, FlushPunctual DEF SteadyInv
  <2>3. ASSUME NEW s \in DOMAIN snd_buf' PROVE snd_buf'[s].rto >= d
    BY <1>4, <2>2
  <2>4. ASSUME NEW c \in wire'
        PROVE  /\ c.at <= updatedAt' /\ c.ts = Cut(c.at + Start)
               /\ c.sn \in DOMAIN snd_buf' => c.at + d <= snd_buf'[c.sn].due
    <3>1. ASSUME c.sn \in DOMAIN snd_buf', snd_buf'[c.sn].due >= now + d, c.at \in Nat,
                 c.at <= now
          PROVE  c.at + d <= snd_buf'[c.sn].due
      <4>1. snd_buf'[c.sn] \in Segment
        BY <1>2, <3>1 DEF TypeOK
      <4>2. PICK due \in Nat, at \in Nat : due = snd_buf'[c.sn].due /\ at = c.at
        BY <3>1, <4>1 DEF Segment
      <4>3. due >= now + d /\ at <= now
        BY <3>1, <4>2
      <4>4. at + d <= due
        BY ONLY <1>2, <4>3, due \in Nat, at \in Nat, d \in Nat
      <4> QED
        BY <4>2, <4>4
    <3>2. CASE c \in wire
      BY <1>5, <2>2, <3>1, <3>2
    <3>3. CASE c \notin wire
      BY <1>1, <1>2, <1>6, <2>2, <3>1, <3>3
    <3> QED
      BY <3>2, <3>3
  <2>5. Delays = {d}
    BY DEF Steady
  <2> QED
    BY ONLY <1>3, <1>4, <2>3, <2>4, <2>5 DEF Punctual
<1>8. CASE PlanKept
  <2>1. snd_buf' = snd_buf /\ wire' = wire /\ Delays = {d}
    BY <1>8 DEF PlanKept, sndVars, Steady
  <2> QED
    BY ONLY <1>3, <1>4, <1>5, <2>1 DEF Punctual
<1> QED
  BY <1>2, <1>7, <1>8, UpdatePlans

LEMMA SteadyStep ==
  ASSUME NEW d \in Nat, Steady(d), SteadyInv, [Next]_vars
  PROVE  SteadyInv'
<1>1. TimerInv'
  BY TimerInvStep DEF SteadyInv
<1>2. appFlushes = 0 => rx_rto >= d /\ (rx_srtt = 0 \/ rx_srtt + interval >= d)
  BY DEF SteadyInv, Punctual, Steady
<1>3. /\ TypeOK /\ named \in Nat /\ interval \in Int /\ appFlushes \in Nat /\ clock \in Int
      /\ named <= named
  <2>1. TypeOK /\ named \in Nat /\ appFlushes \in 0..MaxAppFlushes
    BY DEF SteadyInv, TimerInv, TypeOK
  <2>2. appFlushes \in Nat /\ named <= named
    BY ONLY <2>1
  <2> QED
    BY <2>1, <2>2, ClockFacts
<1>4. CASE Tick
  <2>1. UNCHANGED <<skew, setBack, modeVars, rttVars, sndVars, scheduleVars, named>>
    BY <1>4 DEF Tick
  <2>2. Ahead' = 0 /\ setBack' = 0 /\ fastresend' = 0
    BY <2>1 DEF SteadyInv, Ahead, modeVars
  <2>3. Punctual'
    <3>1. CASE appFlushes = 0
      <4>1. rx_rto' >= d /\ (rx_srtt' = 0 \/ rx_srtt' + interval >= d)
        BY <1>2, <2>1, <3>1 DEF rttVars
      <4> QED
        BY <1>1, <1>3, <2>1, <4>1, PunctualKept DEF modeVars, sndVars, scheduleVars
    <3>2. CASE appFlushes # 0
      BY <2>1, <3>2 DEF Punctual, scheduleVars
    <3> QED
      BY <3>1, <3>2
  <2> QED
    BY <1>1, <2>2, <2>3 DEF SteadyInv
<1>5. CASE \E by \in Jumps : SetClock(by)
  BY <1>5 DEF Steady
<1>6. CASE Update
  <2>1. Ahead' = 0 /\ setBack' = 0 /\ fastresend' = 0
    BY <1>6 DEF SteadyInv, Update, Ahead, timeVars, modeVars
  <2> QED
    BY <1>1, <1>6, <2>1, UpdatePunctual DEF SteadyInv
<1>7. CASE FlushNow
  <2>1. appFlushes' # 0
    BY <1>3, <1>7 DEF FlushNow
  <2>2. Ahead' = 0 /\ setBack' = 0 /\ fastresend' = 0
    BY <1>7 DEF SteadyInv, FlushNow, Ahead, timeVars, modeVars
  <2> QED
    BY <1>1, <2>1, <2>2 DEF SteadyInv, Punctual
<1>8. ASSUME UNCHANGED <<timeVars, interval, fastresend, snd_buf, wire, rttVars, scheduleVars>>,
             SleepNoLonger
      PROVE  SteadyInv'
  <2>1. Ahead' = 0 /\ setBack' = 0 /\ fastresend' = 0
    BY <1>8 DEF SteadyInv, Ahead, timeVars
  <2>2. named' <= named
    <3>1. /\ ts_flush' \in Serial /\ interval' \in Nat
          /\ \A s \in DOMAIN snd_buf' : snd_buf'[s] \in Segment
      <4>1. interval \in Nat
        BY <1>3, ClockFacts
      <4> QED
        BY <1>3, <1>8, <4>1 DEF TypeOK, scheduleVars
    <3> QED
      BY <1>3, <1>8, <3>1, SleepKeeps DEF SteadyInv
  <2>3. CASE appFlushes = 0
    <3>1. rx_rto' >= d /\ (rx_srtt' = 0 \/ rx_srtt' + interval >= d)
      BY <1>2, <1>8, <2>3 DEF rttVars
    <3>2. Punctual'
      BY <1>1, <1>8, <2>2, <3>1, PunctualKept DEF scheduleVars
    <3> QED
      BY <1>1, <2>1, <3>2 DEF SteadyInv
  <2>4. CASE appFlushes # 0
    BY <1>1, <1>8, <2>1, <2>4 DEF SteadyInv, Punctual, scheduleVars
  <2> QED
    BY <2>3, <2>4
<1>9. CASE Send
  BY <1>8, <1>9 DEF Send, modeVars
<1>10. CASE \E m \in Modes : NoDelay(m)
  <2>1. PICK m \in Modes : NoDelay(m) /\ m.interval < 0 /\ m.resend = 0
    BY <1>10 DEF Steady
  <2>2. interval' = interval /\ fastresend' = fastresend
    BY <2>1 DEF NoDelay, SteadyInv
  <2> QED
    BY <1>8, <2>1, <2>2 DEF NoDelay, sndVars
<1>11. CASE Arrive
  <2>1. PICK wnd \in Nat, una \in Nat, acks \in Seq(wire) :
          /\ Len(acks) \in 0..2 /\ Input(acks, una, wnd)
          /\ \A i \in 1..Len(acks) : acks[i] \in Answered
    BY <1>3, <1>11, ArriveInput
  <2>2. /\ UNCHANGED <<timeVars, modeVars, scheduleVars>> /\ SleepNoLonger
        /\ wire' \subseteq wire
        /\ rx_rto' = EstimateAfter(acks).rto /\ rx_srtt' = EstimateAfter(acks).srtt
    BY <2>1 DEF Input
  <2>3. Ahead' = 0 /\ setBack' = 0 /\ fastresend' = 0
    BY <2>2 DEF SteadyInv, Ahead, timeVars, modeVars
  <2>4. /\ DOMAIN snd_buf' \subseteq DOMAIN snd_buf
        /\ \A s \in DOMAIN snd_buf' : /\ snd_buf'[s] \in Segment
                                      /\ snd_buf'[s].due = snd_buf[s].due
                                      /\ snd_buf'[s].rto = snd_buf[s].rto
    BY <1>3, <2>1, InputKeepsSegments
  <2>5. named' <= named
    <3>1. ts_flush' \in Serial /\ interval' \in Nat
      <4>1. interval \in Nat
        BY <1>3, ClockFacts
      <4> QED
        BY <1>3, <2>2, <4>1 DEF TypeOK, scheduleVars, modeVars
    <3> QED
      BY <1>3, <2>2, <2>4, <3>1, SleepKeeps DEF SteadyInv
  <2>6. CASE appFlushes = 0
    <3>1. rx_rto' >= d /\ (rx_srtt' = 0 \/ rx_srtt' + interval >= d)
      BY <2>1, <2>2, <2>6, EstimatePunctual
    <3>2. Punctual'
      BY <1>1, <2>2, <2>4, <2>5, <3>1, PunctualKept DEF scheduleVars, modeVars
    <3> QED
      BY <1>1, <2>3, <3>2 DEF SteadyInv
  <2>7. CASE appFlushes # 0
    BY <1>1, <2>2, <2>3, <2>7 DEF SteadyInv, Punctual, scheduleVars
  <2> QED
    BY <2>6, <2>7
<1>12. CASE UNCHANGED vars
  <2>1. UNCHANGED <<skew, setBack, modeVars, rttVars, sndVars, scheduleVars, named>>
    BY <1>12 DEF vars, timeVars
  <2>2. Ahead' = 0 /\ setBack' = 0 /\ fastresend' = 0
    BY <2>1 DEF SteadyInv, Ahead, modeVars
  <2>3. Punctual'
    <3>1. CASE appFlushes = 0
      <4>1. rx_rto' >= d /\ (rx_srtt' = 0 \/ rx_srtt' + interval >= d)
        BY <1>2, <2>1, <3>1 DEF rttVars
      <4> QED
        BY <1>1, <1>3, <2>1, <4>1, PunctualKept DEF modeVars, sndVars, scheduleVars
    <3>2. CASE appFlushes # 0
      BY <2>1, <3>2 DEF Punctual, scheduleVars
    <3> QED
      BY <3>1, <3>2
  <2> QED
    BY <1>1, <2>2, <2>3 DEF SteadyInv
<1> QED
  BY <1>4, <1>5, <1>6, <1>7, <1>9, <1>10, <1>11, <1>12 DEF Next

\* Over a network that loses nothing and takes a constant time d, at most the
\* initial RTO, the RTO never falls below d and no timer runs out before the
\* acknowledgement can have arrived.
THEOREM SteadyInvariant ==
  ASSUME NEW d \in Nat, Steady(d)
  PROVE  Spec => [](TimerInv /\ Punctual)
<1>1. Init => SteadyInv
  BY SteadyInit
<1>2. SteadyInv /\ [Next]_vars => SteadyInv'
  BY SteadyStep
<1>3. SteadyInv => TimerInv /\ Punctual
  BY DEF SteadyInv
<1> QED
  BY <1>1, <1>2, <1>3, PTL DEF Spec

\* Over such a network no segment is sent again while its acknowledgement is on
\* its way: the interval that ikcp_update_ack adds to the RTO makes up for round
\* trips measured by a clock that stands still between two calls of ikcp_update.
THEOREM NothingSentTwice ==
  ASSUME NEW delay \in Nat, Steady(delay)
  PROVE  Spec => NoSpuriousTimeout
<1> DEFINE Answerable == \A s \in DOMAIN snd_buf : Resent(s) /\ appFlushes = 0 =>
             \A c \in wire : c.sn = s => \E d \in Delays : now >= c.at + d
<1>1. ASSUME SteadyInv, [Next]_vars, NEW s \in DOMAIN snd_buf, Resent(s), appFlushes = 0,
             NEW c \in wire, c.sn = s
      PROVE  \E d \in Delays : now >= c.at + d
  <2>1. now >= snd_buf[s].due
    <3>1. SkipsEnough(s) \/ now >= snd_buf[s].due - Ahead
      BY <1>1, ResentStep DEF SteadyInv
    <3>2. ~SkipsEnough(s)
      BY <1>1 DEF SteadyInv, SkipsEnough
    <3>3. snd_buf[s].due \in Nat
      <4>1. snd_buf[s] \in Segment
        BY <1>1 DEF SteadyInv, TimerInv, TypeOK
      <4> QED
        BY <4>1 DEF Segment
    <3> QED
      BY <1>1, <3>1, <3>2, <3>3 DEF SteadyInv
  <2>2. c.at + delay <= snd_buf[s].due /\ delay \in Delays
    BY <1>1 DEF SteadyInv, Punctual, Steady
  <2>3. c.at \in Nat /\ now \in Nat /\ snd_buf[s].due \in Nat
    <3>1. TypeOK
      BY <1>1 DEF SteadyInv, TimerInv
    <3>2. snd_buf[s] \in Segment /\ c \in [sn : Nat, ts : Serial, at : 0..now] /\ now \in Nat
      BY <1>1, <3>1 DEF TypeOK
    <3> QED
      BY <3>2 DEF Segment
  <2>4. PICK at \in Nat, due \in Nat, n \in Nat : at = c.at /\ due = snd_buf[s].due /\ n = now
    BY <2>3
  <2>5. n >= at + delay
    <3>1. n >= due /\ at + delay <= due
      BY <2>1, <2>2, <2>4
    <3> QED
      BY ONLY <3>1, at \in Nat, due \in Nat, n \in Nat, delay \in Nat
  <2> QED
    BY <2>2, <2>4, <2>5
<1>2. SteadyInv /\ [Next]_vars => [Answerable]_vars
  BY <1>1
<1>3. Init => SteadyInv
  BY SteadyInit
<1>4. SteadyInv /\ [Next]_vars => SteadyInv'
  BY SteadyStep
<1> QED
  BY <1>2, <1>3, <1>4, PTL DEF Spec, NoSpuriousTimeout


=============================================================================
