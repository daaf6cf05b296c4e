------------------------------ MODULE KcpTimer ------------------------------
(***************************************************************************)
(* The clock side of one control block: ikcp_update and its schedule,      *)
(* ikcp_check, the retransmission timers with their backoff, fast resend,  *)
(* the round trip estimator, the window probe timer and dead_link.         *)
(*                                                                         *)
(* The block sends and hears acknowledgements; what it receives itself is  *)
(* in KcpArq, and so is the fate of the data.  The congestion window is a  *)
(* choice of Flush (KcpCwnd).  Clock readings wrap at 2 * H.               *)
(*                                                                         *)
(* The application sleeps until the time ikcp_check names and then calls   *)
(* ikcp_update, at most Lateness late; it asks ikcp_check after each call. *)
(***************************************************************************)
EXTENDS Integers, Sequences, FiniteSets, FiniteSetsExt, KcpSerial

CONSTANTS
  RTO_NDL, RTO_MIN, RTO_DEF, RTO_MAX,   \* IKCP_RTO_...
  INTERVAL,                             \* IKCP_INTERVAL
  INTERVAL_MIN, INTERVAL_MAX,           \* 10 and 5000
  PROBE_INIT, PROBE_LIMIT,              \* IKCP_PROBE_...
  JUMP,             \* 10000: a clock this far from ts_flush has jumped
  DEADLINK,         \* IKCP_DEADLINK
  FASTACK_LIMIT,    \* IKCP_FASTACK_LIMIT
  Modes,            \* what the application passes to ikcp_nodelay
  SndWnd,           \* the send window
  WND_RCV,          \* IKCP_WND_RCV, what the remote window is taken to be at first
  Wnds,             \* windows the remote endpoint advertises
  Start,            \* the clock at the beginning
  Jumps,            \* by how much the clock may be set forward or back
  Delays,           \* how long an acknowledgement may take
  Late,             \* TRUE: an acknowledgement may be lost or take even longer
  Lateness,         \* how late ikcp_update may be called
  MaxMsgs,          \* bound: segments the application sends
  MaxJumps,         \* bound: how often the clock is set
  Swing,            \* bound: how far it is set in all, forwards and back
  MaxAppFlushes,    \* bound: calls of ikcp_flush by the application
  MaxNow            \* bound: how long the runs last

ASSUME TimerAssumption ==
  /\ {RTO_NDL, RTO_MIN, RTO_DEF, RTO_MAX} \subseteq Nat \ {0}
  /\ {INTERVAL_MIN, INTERVAL, INTERVAL_MAX} \subseteq Nat \ {0}
  /\ INTERVAL_MIN <= INTERVAL /\ INTERVAL <= INTERVAL_MAX
  /\ RTO_NDL <= RTO_MAX /\ RTO_MIN <= RTO_DEF /\ RTO_DEF <= RTO_MAX
  /\ PROBE_INIT \in Nat \ {0} /\ PROBE_LIMIT \in Nat /\ PROBE_INIT <= PROBE_LIMIT
  /\ JUMP \in Nat /\ JUMP > INTERVAL_MAX
  /\ DEADLINK \in Nat /\ FASTACK_LIMIT \in Int
  /\ \A m \in Modes : m.nodelay \in 0..2 /\ m.interval \in Int /\ m.resend \in Nat
  /\ WND_RCV \in Nat /\ Wnds \subseteq Nat /\ SndWnd \in Nat
  /\ Start \in Int /\ Jumps \subseteq Int /\ Delays \subseteq Nat /\ Late \in BOOLEAN

ASSUME BoundAssumption ==
  {Lateness, MaxMsgs, MaxJumps, Swing, MaxAppFlushes, MaxNow} \subseteq Nat

\* Half the range of the clock is longer than what the application and the clock
\* do to the schedule, and longer than the backoff of a whole run.
ASSUME RangeAssumption ==
  /\ JUMP + INTERVAL_MAX + Lateness + Swing < H
  /\ 2 * (MaxNow + Swing + RTO_MAX) + Swing <= H

VARIABLES
  now,          \* history: how much time has passed
  skew,         \* what the clock shows besides
  jumps,        \* how often it has been set
  setAt,        \* history: when it was last set
  current,      \* the clock at the last ikcp_update
  updated,
  ts_flush,
  interval,
  nodelay,
  fastresend,
  rx_minrto,
  rx_srtt,
  rx_rttval,
  rx_rto,
  snd_queue,    \* how many segments have no number yet
  snd_buf,      \* sequence number -> segment sent and not acknowledged
  snd_una,
  snd_nxt,
  rmt_wnd,
  ts_probe,
  probe_wait,
  state,        \* TRUE once a segment was sent DEADLINK times: (IUINT32)-1
  wire,         \* copies of segments whose acknowledgement may still arrive
  named,        \* the time at which ikcp_check wants ikcp_update to be called
  updatedAt,    \* history: time of the last ikcp_update
  flushedAt,    \* history: time of the last flush
  appFlushes,   \* how many of the MaxAppFlushes there have been
  quietAt,      \* history: since when there was neither a window nor a probe
  setBack       \* history: by how much the clock was set back in all

timeVars == <<now, skew, jumps, setAt, setBack>>
modeVars == <<interval, nodelay, fastresend, rx_minrto>>
rttVars == <<rx_srtt, rx_rttval, rx_rto>>
sndVars == <<snd_queue, snd_buf, snd_una, snd_nxt, wire>>
probeVars == <<rmt_wnd, ts_probe, probe_wait, quietAt>>
scheduleVars == <<current, updated, ts_flush, updatedAt, flushedAt,
                  appFlushes>>
vars == <<timeVars, modeVars, rttVars, sndVars, probeVars, scheduleVars,
          state, named>>

imax(a, b) == IF a >= b THEN a ELSE b
imin(a, b) == IF a <= b THEN a ELSE b

clock == Cut(now + skew)

Init ==
  /\ now = 0 /\ skew = Start /\ jumps = 0 /\ setAt = 0 /\ setBack = 0
  /\ current = 0 /\ updated = FALSE /\ ts_flush = INTERVAL
  /\ interval = INTERVAL /\ nodelay = 0 /\ fastresend = 0 /\ rx_minrto = RTO_MIN
  /\ rx_srtt = 0 /\ rx_rttval = 0 /\ rx_rto = RTO_DEF
  /\ snd_queue = 0 /\ snd_buf = <<>> /\ snd_una = 0 /\ snd_nxt = 0 /\ wire = {}
  /\ rmt_wnd = WND_RCV /\ ts_probe = 0 /\ probe_wait = 0
  /\ state = FALSE
  /\ named = 0
  /\ updatedAt = -1 /\ flushedAt = 0 /\ appFlushes = 0 /\ quietAt = 0

-----------------------------------------------------------------------------
(* ikcp_check *)

\* Mutant: only the retransmission timers count.
CheckSegmentsOnly(cur, upd, flush, buf, iv) ==
  IF ~upd THEN 0
  ELSE LET tm_packet == {Diff(buf[s].resendts, cur) : s \in DOMAIN buf}
       IN imax(0, Min({iv * 4} \cup tm_packet))

\* How long ikcp_check lets the application wait.
Check(cur, upd, flush, buf, iv) ==
  LET tm_flush == Diff(flush, cur)
      tm_packet == {Diff(buf[s].resendts, cur) : s \in DOMAIN buf}
  IN IF ~upd \/ tm_flush <= -JUMP \/ tm_flush > JUMP THEN 0
     ELSE imax(0, Min({tm_flush, iv} \cup tm_packet))

CheckNow == now + Check(clock, updated', ts_flush', snd_buf', interval')

\* The application asks ikcp_check after every call: after ikcp_update to know
\* how long to sleep, after any other whether to wake up earlier.
SleepAnew == named' = CheckNow
SleepNoLonger == named' = imin(named, CheckNow)

-----------------------------------------------------------------------------
(* ikcp_flush *)

\* Mutant: the probe is put off again at every flush.
ProbeRestarts ==
  IF rmt_wnd # 0 THEN
    /\ ts_probe' = 0 /\ probe_wait' = 0 /\ quietAt' = now
  ELSE
    /\ ts_probe' = Cut(current' + PROBE_INIT)
    /\ probe_wait' = PROBE_INIT
    /\ quietAt' = IF probe_wait = 0 THEN now ELSE quietAt

\* The window probe timer.
Probe ==
  \/ /\ rmt_wnd # 0
     /\ ts_probe' = 0 /\ probe_wait' = 0 /\ quietAt' = now
  \/ /\ rmt_wnd = 0 /\ probe_wait = 0
     /\ probe_wait' = PROBE_INIT
     /\ ts_probe' = Cut(current' + PROBE_INIT)
     /\ quietAt' = now
  \/ /\ rmt_wnd = 0 /\ probe_wait # 0 /\ Diff(current', ts_probe) >= 0
     /\ probe_wait' = imin(probe_wait + probe_wait \div 2, PROBE_LIMIT)
     /\ ts_probe' = Cut(current' + probe_wait')
     /\ quietAt' = now
  \/ /\ rmt_wnd = 0 /\ probe_wait # 0 /\ Diff(current', ts_probe) < 0
     /\ UNCHANGED <<ts_probe, probe_wait, quietAt>>

\* A segment sent with this RTO, by the clock of the last ikcp_update.  due,
\* when its timer runs out, and skips are history.
Sent(seg, rto, delay, fastack) ==
  [xmit |-> seg.xmit + 1, ts |-> current', rto |-> rto, fastack |-> fastack,
   resendts |-> Cut(current' + delay),
   due |-> updatedAt' + delay, skips |-> IF fastack = 0 THEN 0 ELSE seg.skips]

\* Mutant: clock readings are compared as they are.
TimedOutUnsigned(seg) == current' >= seg.resendts

TimedOut(seg) == Diff(current', seg.resendts) >= 0

\* Mutant: one ACK less is enough.
SkippedAlmost(seg) ==
  /\ fastresend > 0 /\ seg.fastack + 1 >= fastresend
  /\ seg.xmit <= FASTACK_LIMIT \/ FASTACK_LIMIT <= 0

\* A limit of 0 or less is none.
SkippedOften(seg) ==
  /\ fastresend > 0 /\ seg.fastack >= fastresend
  /\ seg.xmit <= FASTACK_LIMIT \/ FASTACK_LIMIT <= 0

\* The RTO of a segment after a timeout: doubled, half more, or a step of
\* half the present RTO.
BackedOff(seg) ==
  Cut(seg.rto + CASE nodelay = 0 -> imax(seg.rto, rx_rto)
                  [] nodelay = 1 -> seg.rto \div 2
                  [] OTHER -> rx_rto \div 2)

FirstDelay == rx_rto + IF nodelay = 0 THEN rx_rto \div 8 ELSE 0

\* What the loop over snd_buf makes of one segment.
Flushed(seg) ==
  CASE seg.xmit = 0 -> Sent(seg, rx_rto, FirstDelay, 0)
    [] seg.xmit > 0 /\ TimedOut(seg) ->
         Sent(seg, BackedOff(seg), BackedOff(seg), seg.fastack)
    [] seg.xmit > 0 /\ ~TimedOut(seg) /\ SkippedOften(seg) ->
         Sent(seg, seg.rto, seg.rto, 0)
    [] OTHER -> seg

\* A segment that has a number and was not sent yet.
Unsent == [xmit |-> 0, ts |-> 0, rto |-> 0, fastack |-> 0, resendts |-> 0,
           due |-> 0, skips |-> 0]

\* ikcp_flush under congestion window c, by the clock in current'.
Flush(c) ==
  LET cwnd == imin(c, rmt_wnd)
      n == imax(0, imin(snd_queue, snd_una + cwnd - snd_nxt))
      buf == [s \in DOMAIN snd_buf \cup snd_nxt .. snd_nxt + n - 1 |->
                IF s \in DOMAIN snd_buf THEN snd_buf[s] ELSE Unsent]
      out == {s \in DOMAIN buf : Flushed(buf[s]).xmit > buf[s].xmit}
  IN /\ Probe
     /\ snd_queue' = snd_queue - n
     /\ snd_nxt' = snd_nxt + n
     /\ snd_buf' = [s \in DOMAIN buf |-> Flushed(buf[s])]
     /\ wire' = wire \cup
          {[sn |-> s, ts |-> current', at |-> now] : s \in out}
     /\ state' = (state \/ \E s \in out : buf[s].xmit + 1 >= DEADLINK)
     /\ flushedAt' = now
     /\ UNCHANGED <<snd_una, rmt_wnd>>

-----------------------------------------------------------------------------
(* The calls of the application *)

\* Mutant: a schedule far from the clock is kept.
ScheduledKeptFor(cur) == IF updated THEN ts_flush ELSE cur

\* ts_flush as ikcp_update finds it: set to the clock on the first call, and
\* when the clock has jumped away from it.
ScheduledFor(cur) ==
  IF ~updated \/ Diff(cur, ts_flush) >= JUMP \/ Diff(cur, ts_flush) < -JUMP
  THEN cur ELSE ts_flush

Update ==
  LET at == ScheduledFor(clock)
      next == Cut(at + interval)
  IN /\ current' = clock /\ updatedAt' = now
     /\ updated' = TRUE
     /\ IF Diff(clock, at) >= 0
        THEN /\ ts_flush' = IF Diff(clock, next) >= 0 THEN Cut(clock + interval)
                            ELSE next
             /\ \E c \in 0..SndWnd : Flush(c)
        ELSE /\ ts_flush' = at
             /\ UNCHANGED <<sndVars, probeVars, state, flushedAt>>
     /\ UNCHANGED <<appFlushes, timeVars, modeVars, rttVars>>
     /\ SleepAnew

\* ikcp_flush called by the application: the clock of the last ikcp_update.
FlushNow ==
  /\ appFlushes < MaxAppFlushes /\ updated
  /\ appFlushes' = appFlushes + 1
  /\ UNCHANGED <<current, updated, ts_flush, updatedAt>>
  /\ \E c \in 0..SndWnd : Flush(c)
  /\ UNCHANGED <<timeVars, modeVars, rttVars>>
  /\ SleepNoLonger

\* ikcp_send of one segment
Send ==
  /\ snd_nxt + snd_queue < MaxMsgs
  /\ snd_queue' = snd_queue + 1
  /\ UNCHANGED <<snd_buf, snd_una, snd_nxt, wire, timeVars, modeVars, rttVars,
                 probeVars, scheduleVars, state>>
  /\ SleepNoLonger

\* Mutant: any interval is taken.
AnyInterval(iv) == iv

Bounded(iv) == imax(INTERVAL_MIN, imin(iv, INTERVAL_MAX))

\* ikcp_nodelay; ikcp_interval is the part of it that sets interval.
NoDelay(m) ==
  /\ nodelay' = m.nodelay
  /\ rx_minrto' = IF m.nodelay > 0 THEN RTO_NDL ELSE RTO_MIN
  /\ interval' = IF m.interval < 0 THEN interval
                 ELSE Bounded(m.interval)
  /\ fastresend' = m.resend
  /\ UNCHANGED <<timeVars, rttVars, sndVars, probeVars, scheduleVars, state>>
  /\ SleepNoLonger

-----------------------------------------------------------------------------
(* ikcp_input *)

Estimate == [srtt |-> rx_srtt, rttval |-> rx_rttval, rto |-> rx_rto]

\* Mutant: the interval has no part in the RTO.
UpdateAckNoInterval(est, rtt) ==
  LET delta == IF rtt >= est.srtt THEN rtt - est.srtt ELSE est.srtt - rtt
      rttval == IF est.srtt = 0 THEN rtt \div 2
                ELSE (3 * est.rttval + delta) \div 4
      srtt == IF est.srtt = 0 THEN rtt
              ELSE imax(1, (7 * est.srtt + rtt) \div 8)
      rto == srtt + 4 * rttval
  IN [srtt |-> srtt, rttval |-> rttval,
      rto |-> imin(imax(rx_minrto, rto), RTO_MAX)]

\* ikcp_update_ack
UpdateAck(est, rtt) ==
  LET delta == IF rtt >= est.srtt THEN rtt - est.srtt ELSE est.srtt - rtt
      rttval == IF est.srtt = 0 THEN rtt \div 2
                ELSE (3 * est.rttval + delta) \div 4
      srtt == IF est.srtt = 0 THEN rtt
              ELSE imax(1, (7 * est.srtt + rtt) \div 8)
      rto == srtt + imax(interval, 4 * rttval)
  IN [srtt |-> srtt, rttval |-> rttval,
      rto |-> imin(imax(rx_minrto, rto), RTO_MAX)]

\* An ACK that echoes ts; one from the future of current is no sample.
Sample(est, ts) ==
  IF Diff(current, ts) >= 0 THEN UpdateAck(est, Diff(current, ts)) ELSE est

EstimateAfter(acks) ==
  CASE Len(acks) = 0 -> Estimate
    [] Len(acks) = 1 -> Sample(Estimate, acks[1].ts)
    [] Len(acks) = 2 -> Sample(Sample(Estimate, acks[1].ts), acks[2].ts)

\* The ACK ikcp_parse_fastack is called with, once for a datagram: the first, or
\* one with a greater number that also answers a later transmission.
MaxAck(acks) ==
  IF Len(acks) = 2 /\ acks[2].sn > acks[1].sn /\ Diff(acks[2].ts, acks[1].ts) > 0
  THEN acks[2] ELSE acks[1]

\* ikcp_parse_fastack (IKCP_FASTACK_CONSERVE is defined): a segment below that
\* ACK and not sent after what it answers was skipped once.
Skipped(acks, una, nxt, s) ==
  /\ acks # <<>>
  /\ una <= MaxAck(acks).sn /\ MaxAck(acks).sn < nxt
  /\ s < MaxAck(acks).sn
  /\ Diff(MaxAck(acks).ts, snd_buf[s].ts) >= 0

\* A datagram with the ACKs of these copies.
Input(acks, una, wnd) ==
  LET acked == {acks[i].sn : i \in DOMAIN acks}
      left == {s \in DOMAIN snd_buf : s >= una /\ s \notin acked}
      low == IF left = {} THEN snd_nxt ELSE Min(left)
      est == EstimateAfter(acks)
      beyond(s) == Cardinality({i \in DOMAIN acks : acks[i].sn > s})
  IN /\ rmt_wnd' = wnd
     /\ snd_una' = low
     /\ snd_buf' = [s \in left |->
          [snd_buf[s] EXCEPT
             !.fastack = IF Skipped(acks, low, snd_nxt, s) THEN @ + 1 ELSE @,
             !.skips = @ + beyond(s)]]
     /\ rx_srtt' = est.srtt /\ rx_rttval' = est.rttval /\ rx_rto' = est.rto
     /\ wire' = wire \ {acks[i] : i \in DOMAIN acks}
     /\ UNCHANGED <<snd_queue, snd_nxt, ts_probe, probe_wait, quietAt, timeVars,
                    modeVars, scheduleVars, state>>
     /\ SleepNoLonger

\* Copies whose acknowledgement may arrive now.
Answered == {c \in wire : \E d \in Delays : now = c.at + d \/ (Late /\ now > c.at + d)}

Arrive ==
  \E wnd \in Wnds, una \in snd_una .. snd_nxt :
    \E acks \in {<<>>} \cup {<<c>> : c \in Answered}
               \cup {<<c, d>> : c \in Answered, d \in Answered} :
      /\ Len(acks) = 2 => acks[1] # acks[2]
      /\ Input(acks, una, wnd)

-----------------------------------------------------------------------------
(* Time *)

\* The application calls ikcp_update in time, unless it has done so already
\* at this instant; without Late, an acknowledgement is on time too.
Tick ==
  /\ now < MaxNow
  /\ now < named + Lateness \/ updatedAt = now
  /\ Late \/ \A c \in wire : \E d \in Delays : now < c.at + d
  /\ now' = now + 1
  /\ UNCHANGED <<skew, jumps, setAt, setBack, modeVars, rttVars, sndVars, probeVars,
                 scheduleVars, state, named>>

\* By how much the clock has been set forward in all.
Ahead == skew - Start + setBack

\* The clock is set.
SetClock(by) ==
  /\ jumps < MaxJumps
  /\ Ahead + setBack + imax(by, -by) <= Swing
  /\ jumps' = jumps + 1
  /\ skew' = skew + by
  /\ setAt' = now
  /\ setBack' = IF by < 0 THEN setBack - by ELSE setBack
  /\ UNCHANGED <<now, modeVars, rttVars, sndVars, probeVars, scheduleVars,
                 state, named>>

Next ==
  \/ Tick
  \/ \E by \in Jumps : SetClock(by)
  \/ Update
  \/ FlushNow
  \/ Send
  \/ \E m \in Modes : NoDelay(m)
  \/ Arrive

Spec == Init /\ [][Next]_vars

-----------------------------------------------------------------------------
(* Properties *)

Segment == [xmit : Nat \ {0}, ts : Serial, rto : Serial, fastack : Nat,
            resendts : Serial, due : Nat, skips : Nat]

\* The types of the fields.  The RTO stays between the least RTO of either
\* mode and IKCP_RTO_MAX, and the probe timer below its limit.
TypeOK ==
  /\ now \in 0..MaxNow /\ skew \in Int /\ jumps \in 0..MaxJumps
  /\ {setAt, flushedAt, quietAt} \subseteq 0..now /\ updatedAt \in -1..now
  /\ setBack \in Nat /\ Ahead \in Nat /\ named \in Nat
  /\ current \in Serial /\ updated \in BOOLEAN /\ ts_flush \in Serial
  /\ interval \in INTERVAL_MIN..INTERVAL_MAX /\ nodelay \in 0..2
  /\ fastresend \in Nat /\ rx_minrto \in {RTO_NDL, RTO_MIN}
  /\ rx_srtt \in Nat /\ rx_rttval \in Nat
  /\ rx_rto \in imin(RTO_NDL, RTO_MIN)..RTO_MAX
  /\ snd_queue \in Nat /\ snd_nxt \in Nat /\ snd_una \in 0..snd_nxt
  /\ DOMAIN snd_buf \subseteq snd_una .. snd_nxt - 1
  /\ \A s \in DOMAIN snd_buf : snd_buf[s] \in Segment
  /\ wire \subseteq [sn : Nat, ts : Serial, at : 0..now]
  /\ rmt_wnd \in Nat /\ ts_probe \in Serial
  /\ probe_wait \in {0} \cup PROBE_INIT .. PROBE_LIMIT
  /\ state \in BOOLEAN /\ appFlushes \in 0..MaxAppFlushes

\* What a clock that is set may add to a schedule: ikcp_update, once it is
\* called, keeps one that is JUMP away.
SetDelay == IF jumps > 0 THEN Lateness + JUMP ELSE 0

\* ikcp_update flushes again within one interval: a clock set back by less than
\* JUMP delays the flush by that much, after the last call that could not know,
\* and after a greater jump ikcp_update forgets its schedule.
FlushedInTime ==
  now <= imax(flushedAt, setAt) + INTERVAL_MAX + Lateness + SetDelay

\* A segment whose retransmission timer has run out is sent again within one
\* interval, by an application that calls ikcp_update only when ikcp_check
\* says: through changes of mode, backoff, wraparound of the clock, and clocks
\* set forward.  A clock set back delays it by as much.
ResentInTime ==
  \A s \in DOMAIN snd_buf :
    now <= snd_buf[s].due + setBack + INTERVAL_MAX + Lateness

\* While the remote window is zero, never longer than IKCP_PROBE_LIMIT and one
\* interval go by without a probe, however the probe timer backs off.
ProbedInTime ==
  rmt_wnd = 0 /\ probe_wait # 0
    => now <= quietAt + setBack + PROBE_LIMIT + INTERVAL_MAX + Lateness

Resent(s) == /\ s \in DOMAIN snd_buf /\ s \in DOMAIN snd_buf'
             /\ snd_buf'[s].xmit > snd_buf[s].xmit

SkipsEnough(s) == fastresend > 0 /\ snd_buf[s].skips >= fastresend

\* A segment is sent again only when its timer has run out or fastresend ACKs
\* have passed it since it was sent first or fast resent: neither the
\* wraparound of the clock nor its staleness between two updates makes a
\* segment look overdue.
ResentForAReason ==
  [][\A s \in DOMAIN snd_buf : Resent(s) =>
       SkipsEnough(s) \/ now >= snd_buf[s].due - Ahead]_vars

\* Over a network that loses nothing and takes a constant time, at most the
\* initial RTO, no segment is sent again while its acknowledgement is on its
\* way: the interval in the RTO makes up for a clock that stands still between
\* two updates, by which the round trip is measured too short.  A segment that
\* the application flushed itself has a timer that started at the last update.
NoSpuriousTimeout ==
  [][\A s \in DOMAIN snd_buf : Resent(s) /\ appFlushes = 0 =>
       \A c \in wire : c.sn = s => \E d \in Delays : now >= c.at + d]_vars

-----------------------------------------------------------------------------
(* The inductive invariant: what makes these properties hold.               *)

\* From the last ikcp_update to the flush it has planned.
Wait == Diff(ts_flush, current)

\* The application wakes up for the planned flush, and the clock is what it was
\* at the last ikcp_update and the time since, unless it has been set since.
Scheduled ==
  /\ now <= imax(named + Lateness, updatedAt + 1)
  /\ ~updated => named = 0 /\ updatedAt = -1
  /\ updated =>
       /\ updatedAt >= 0
       /\ Wait \in 1..JUMP
       /\ named <= updatedAt + imin(Wait, INTERVAL_MAX)
       /\ updatedAt + Wait <= imax(flushedAt, setAt) + INTERVAL_MAX + SetDelay
       /\ \/ clock = Cut(current + (now - updatedAt))
          \/ jumps > 0 /\ updatedAt <= setAt

\* A timer shows the time it is due by a clock set forward by no more than f and
\* back by no more than b.
Shows(ts, due, f, b) ==
  \E g \in 0..f, c \in 0..b : ts = Cut(due + (Start + g - c))

\* The planned flush is in time for such a timer.
Timed(ts, due, f, b) ==
  /\ Shows(ts, due, f, b)
  /\ updatedAt + Wait <= due + b + INTERVAL_MAX

\* f and b: how far the clock had been set when ikcp_update was last called.
TimersKept ==
  IF ~updated THEN DOMAIN snd_buf = {} /\ probe_wait = 0
  ELSE \E f \in 0..Ahead, b \in 0..setBack :
         /\ current = Cut(updatedAt + (Start + f - b))
         /\ Wait <= INTERVAL_MAX + b
         /\ \A s \in DOMAIN snd_buf : Timed(snd_buf[s].resendts, snd_buf[s].due, f, b)
         /\ probe_wait # 0 =>
              \E due \in 0 .. quietAt + PROBE_LIMIT : Timed(ts_probe, due, f, b)

\* More than any RTO: a backoff doubles one that has run out in this run.
Longest == 2 * (MaxNow + Swing + RTO_MAX)

\* No RTO is so long that its end looks past, and no segment was skipped more
\* often than acknowledgements have passed it.
SegmentsKept ==
  \A s \in DOMAIN snd_buf :
    /\ snd_buf[s].rto <= Longest /\ snd_buf[s].rto <= snd_buf[s].due
    /\ snd_buf[s].due <= updatedAt + Longest
    /\ snd_buf[s].fastack <= snd_buf[s].skips

\* FlushedInTime, ResentInTime, ProbedInTime and ResentForAReason hold because
\* every step preserves this.
TimerInv ==
  /\ TypeOK /\ Ahead + setBack <= Swing
  /\ Scheduled
  /\ TimersKept
  /\ SegmentsKept

\* Why NoSpuriousTimeout holds: round trips are measured too short by no more
\* than one interval, which the RTO adds; so no RTO is below the delay of the
\* network, and no timer runs out before the acknowledgement of what was sent.
Punctual ==
  appFlushes = 0 =>
    /\ updated => named <= updatedAt + interval
    /\ \A d \in Delays :
         /\ rx_rto >= d /\ (rx_srtt = 0 \/ rx_srtt + interval >= d)
         /\ \A s \in DOMAIN snd_buf : snd_buf[s].rto >= d
         /\ \A c \in wire :
              /\ c.at <= updatedAt /\ c.ts = Cut(c.at + Start)
              /\ c.sn \in DOMAIN snd_buf => c.at + d <= snd_buf[c.sn].due
=============================================================================
