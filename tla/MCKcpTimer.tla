----------------------------- MODULE MCKcpTimer -----------------------------
(* Values of the constants of KcpTimer that a .cfg file cannot write *)
EXTENDS KcpTimer

Mode(nd, iv, fr) == [nodelay |-> nd, interval |-> iv, resend |-> fr]

NoModes == {}

\* Fast resend after one ACK, RTO half more at a timeout, the slowest interval
\* (5 asks for more than INTERVAL_MAX); and no fast resend, RTO raised by half
\* the present RTO, the least interval.
Fast == Mode(1, 5, 1)
Steps == Mode(2, 0, 0)
FastOrSteps == {Fast, Steps}

NoJumps == {}

\* Back by more and by less than JUMP, and forward.
BackAndForth == {-20, -4, -2, 5}

\* Bound: either the clock is set or the application flushes, and only in a
\* conversation of one segment at most, without fast resend.
OneThingAtATime ==
  \/ jumps + appFlushes = 0
  \/ jumps + appFlushes = 1 /\ snd_queue + snd_nxt <= 1 /\ fastresend = 0

\* Bound: the remote window closes and the application flushes while it has
\* sent two segments at most.
ClosedEarly ==
  \/ rmt_wnd > 0 /\ appFlushes = 0
  \/ snd_queue + snd_nxt <= 2
=============================================================================
