# Verification of KCP and of the C# programs around it

The repository holds KCP, a reliable message transport over datagrams
(`src/kcp/ikcp.c`), and a small C# client and server that use it over UDP
(`src/cs_project/src`). This directory models them in TLA+, checks the models
with TLC and proves theorems about them with TLAPS.

    tlc -config arq_reorder.cfg MCKcpWrap     # any run; the module is in PROJECT.json
    tlapm KcpArqProofs.tla                    # the proofs about KcpArq; the other
                                              # modules named ...Proofs likewise

## The system

| Component | State | Operations | Hard behaviour |
|---|---|---|---|
| KCP ARQ core, `ikcp.c` | `snd_queue`, `snd_buf`, `snd_una`, `snd_nxt`; `rcv_buf`, `rcv_queue`, `rcv_nxt`; `acklist`; `snd_wnd`, `rcv_wnd`, `rmt_wnd`, `cwnd`; `probe`, `probe_wait` | `ikcp_send`, `ikcp_recv`, `ikcp_peeksize`, `ikcp_wndsize`, `ikcp_flush`, `ikcp_input` | loss, copies, reordering; old acknowledgements; full windows; fragments |
| Timers and congestion control, `ikcp.c` | `current`, `ts_flush`, `interval`, `rx_rto`, `rx_srtt`, `rx_rttval`, per segment `rto`, `resendts`, `fastack`, `xmit`; `ssthresh`, `incr`, `ts_probe` | `ikcp_update`, `ikcp_check`, `ikcp_update_ack`, `ikcp_parse_fastack`, `ikcp_nodelay`, `ikcp_interval` | backoff, clock jumps, wraparound |
| Serial arithmetic, `_itimediff` | none | comparison modulo 2^32 | wraparound |
| Packing | `mtu`, `mss`, `buffer`, `stream` | `ikcp_output`, `ikcp_setmtu`, stream branch of `ikcp_send` | MTU changed with segments queued |
| `KCPConnect`, `KCPUtil`, `KCPClientUtil` | table of control blocks by endpoint | `Create`, `Connect`, `Input`, `Send`, `TryReceive`, `Update` | restart of a client, ignored errors, starvation |
| `NetUtil`, `NetClientUtil` | `_pcksToSend`, `_kcpPckReceiveCache` | `_sendBytes`, `OnPckBytes`, the service loops | one cache for all connections |
| `UDPUtil`, `ThreadUtil` | `_pcksReceived` | receive thread, service thread | unsynchronised queue, a loop that ends on an exception |
| `test.cpp`, `test.h` | `LatencySimulator` | `send`, `recv` | the network: loss, overflow, delay |

How they interact. An application calls `ikcp_send` and `ikcp_recv` on its
control block. A service thread calls `ikcp_update`, which calls `ikcp_flush`
when the interval has passed; `ikcp_flush` hands datagrams to the `output`
callback (in the C# program `UDPUtil.SendByets`, in the test
`LatencySimulator::send`). A datagram that arrives is queued by the receive
thread and given to `ikcp_input` by the service thread. Nothing else connects
two control blocks. `ikcp.c` itself has no locks: in the C# program all calls on
control blocks come from the one service thread, so each call is atomic with
respect to the others, and the concurrency that matters in the protocol is that
of two endpoints and a network.

What makes each component correct:

* ARQ core: every message is read once, whole, in order; acknowledged data is
  held by the receiver; buffers stay within the windows; a full window and an
  empty one never block for good; every accepted message is read in the end.
* Timers: a segment not acknowledged is sent again after a bounded time;
  `ikcp_check` is never later than the next due event; backoff stays in range.
* Serial arithmetic: it orders numbers less than half the range apart.
* Packing: no datagram is longer than the MTU, nor than the buffer it is put
  together in; the bytes of a stream keep their order.
* Congestion window: it never closes, its two units agree, it grows back after losses.
* Encoding: what is read is what was written; another conversation takes nothing.
* Session and net layer: one control block per endpoint, packets reassembled
  from chunks of one sender, no packet dropped without notice.

## Modules

| Module | What it is |
|---|---|
| `KcpArq` | two control blocks and the network; one action per call |
| `MsgChannel` | the abstract channel of messages that `KcpArq` implements |
| `KcpLoops` | the loops of `ikcp_input`, `ikcp_recv`, `ikcp_flush` one turn at a time, compared with the closed forms of `KcpArq` |
| `KcpSerial` | the 32-bit numbers: `_itimediff` with the width scaled down |
| `KcpWrap` | `KcpArq`, with every comparison of sequence numbers made on numbers cut to their width |
| `KcpRestart` | `KcpArq`, when one endpoint's program is started again on the same port |
| `KcpTimer` | the clock of one control block: update, check, timeouts, backoff, fast resend, RTO, probe timer |
| `KcpCwnd` | the congestion window of one control block |
| `KcpPack` | bytes through `ikcp_send`, `ikcp_flush` and `ikcp_recv`: segments, datagrams, stream mode, MTU |
| `KcpWire` | headers as bytes, and a datagram taken apart again |
| `Chunks` | how the C# program cuts a text or file into packets |
| `Service` | clients and server of the C# program: queues, threads, table of connections, reassembly |
| `KcpArqProofs`, `KcpCodeProofs`, `KcpTimerProofs`, `KcpCwndProofs`, `KcpPackProofs`, `FormatsProofs`, `ServiceProofs` | the theorems; `KcpCodeProofs` is about `KcpLoops` and `KcpWrap`, `FormatsProofs` about `KcpWire` and `Chunks` |
| `KcpSerialProofs` | lemmas about `Cut` and `Diff` that two of them use |
| `MC...` | values of the constants for TLC; `MCFormats` also enumerates the arguments of `Chunks` and `KcpWire` |

How they fit together. `KcpWrap` and `KcpRestart` extend `KcpArq`, `KcpWrap` and
`KcpTimer` use `KcpSerial`. The other modules lean on each other by what they
promise: `KcpArq` leaves to `Flush` which segments are due and the congestion
window, `KcpTimer` and `KcpCwnd` say when they are and that the window stays open;
`KcpPack` takes from `KcpArq` that segments arrive in order, each once;
`Service` takes from `MsgChannel` that packets do, and from `Chunks` that
`ikcp_send` refuses none.

### KcpArq and the code

The variables have the names of the fields of `ikcpcb` and are functions of the
endpoint. `stream` and `delivered` are history variables: what `ikcp_send` has
queued, and what `ikcp_recv` has returned. `net` is the set of datagrams in
flight; a set has no order, so reordering is built in.

| Action | Code |
|---|---|
| `Send(p, count)` | `ikcp_send` of a message of `count` fragments, message mode |
| `Recv(p)`, `Peek(p)` | `ikcp_recv`, with a negative length for `Peek`; both run the move loop and the "fast recover" test |
| `WndSize(p, s, r)` | `ikcp_wndsize`; 0 leaves a window as it is |
| `Flush(p, c, resend, due)` | `ikcp_flush`: acknowledgements, probe, numbering under congestion window `c`, retransmission of `resend`, one `Transmit` for the datagrams it outputs |
| `Input(p, d)` | `ikcp_input` of a whole datagram: `InputAcks`, then `InputPushes`, and the ask for the window |
| `Deliver`, `DeliverCopy`, `Lose` | the network, as in `LatencySimulator`, and UDP's right to copy |

What is abstracted, and why it is safe to:

* Time. Whether a segment is due by timeout or by fast resend, whether the
  probe is due, and `cwnd` are choices of `Flush`. Every schedule of the real
  timers is one of the choices, so the safety properties hold whatever the timers
  do. The liveness runs use `TimeoutFlush`, the flush after all timers ran out.
* Payload. A segment is its message number and `frg`. Its length is one
  fragment; `ikcp_peeksize >= 0` needs no lengths.
* Datagrams. All segments of a flush carry the same `una` and `wnd`
  (`ikcp.c:957`, `1044`, `1093`), so a datagram has one of each, a set of
  acknowledged numbers and a map of PUSHes. `Coalesce` picks how they are packed:
  all in one datagram, or one datagram for control and one per PUSH. `KcpPack` has the
  rule by which `ikcp_flush` packs.
* `acklist` is a set: a number acknowledged twice has the effect of one, and the
  order does not matter (`InputIsTheLoop` checks every order).
* Sequence numbers do not wrap, `IKCP_ASK_SEND` is set and cleared within one
  flush, and datagrams come from the other endpoint only, so the errors -1, -2
  and -3 of `ikcp_input` do not occur (`KcpWrap` and `KcpWire` drop the first and
  the last of these limits). `updated` is 1: a flush before the first
  `ikcp_update` does nothing. Allocation does not fail (`KcpPack` lets it).
* `WireWnd` is the number of values of the 16-bit `wnd` field. It is 65536 in
  every run but `arq_wide_window`, where a field of three values and a window of
  three stand for 65536 and 65536.

The loops of the code are given in closed form in `KcpArq` (`Frontier` is where
the move loop stops, `RcvNxtAt` is the `rcv_nxt` a PUSH meets inside its
datagram). That keeps the module free of recursion and open to proof.
`KcpLoops` writes the loops out, each as a function of the turns it has taken
(`MoveTurn`, `MergeTurn`, `UnaTurn`, `NumberTurn`, one segment of a datagram); `arq_loops`
checks on every step of the model that the two agree, and `KcpCodeProofs` proves it.

### KcpSerial and KcpWrap

`Cut` is what a 32-bit field keeps, `Diff` is `_itimediff`, `H` is 2^31. `KcpWrap` runs
the conversation of `KcpArq` from an idle state after `Origin` segments, so that the
numbers wrap within a few. `WrapSafe` says of every datagram in flight that each
comparison the code would make on it comes out on cut numbers as on the numbers of
`KcpArq`: `ikcp_parse_una`, `ikcp_parse_ack`, the greatest ACK of the datagram
(`ikcp.c:810`), the window test of `ikcp_input`, the search of `ikcp_parse_data` and the
move loop behind it. It says the same of the tests that need no datagram: the window test of
`ikcp_flush`, the move loop of `ikcp_recv`, and whether `snd_una` has moved (`ikcp.c:882`). Datagrams older than `H - 2W` segments are excluded (`Fresh`): nothing in
the code can tell those from new ones.

### KcpRestart

`Restart` replaces the control block of `A` by a new one and leaves `B` and the
network as they are: that is what happens when the program of a client is started
again and gets the same port (`UDPUtil.Init` tries the port it is told first).

### KcpTimer

Fields have the names of `ikcpcb`; `now` is real time, `clock` what the
application passes to `ikcp_update`, and wraps at `2H`; `setAt`, `setBack`, `updatedAt`,
`flushedAt`, `appFlushes`, `quietAt` and `due`, `skips` of a segment are history.

| Action | Code |
|---|---|
| `Update` | `ikcp_update`: schedule, then `Flush` under any congestion window |
| `FlushNow` | `ikcp_flush` called by the application, by the clock of the last update |
| `Send` | `ikcp_send` of one segment |
| `NoDelay(m)` | `ikcp_nodelay`, and with it `ikcp_interval` |
| `Arrive` | `ikcp_input` of a datagram with up to two ACKs, any `una`, any window |
| `Tick`, `SetClock` | time passes; the clock is set |

The application is the one the comment of `ikcp_check` describes: it sleeps until
the time that `ikcp_check` names (`named`), asks again after every call, and calls
`ikcp_update` at most `Lateness` late. A network with `Late` may answer at any time
or never; without, after one of `Delays` exactly. Details that matter:
`IKCP_FASTACK_CONSERVE` is defined (`ikcp.c:20`), so that a later ACK of a datagram
replaces the first only if it is both greater and later, and does not count against
segments sent after what it answers; a `fastlimit` of 0 or less is no limit; a timeout does not reset `fastack`; `state` (dead
link) is set and never read; the products of the estimator do not overflow. A
segment's RTO would wrap after some 23 timeouts in normal mode, 24 days, which
the bounds do not reach.

### KcpCwnd

One action for what `ikcp_input` does to the window and one for what `ikcp_flush`
does, both with the arithmetic of the code on its real constants; the network
chooses what is acknowledged, lost or skipped. With fast resend off no segment
is ever fast resent (`fastack` does not reach 0xffffffff), so `change => FastResend > 0`.
The 32-bit products do not overflow: an MTU stays below 64 KiB, what a UDP datagram
can carry.

### KcpPack

A segment is a stretch of the bytes accepted; `accepted`, `sends`, `reads`, `mtus`
are history; `out` holds the datagrams of the step, if it is a flush; `buffer` is the size of
the field of that name. `stream` is chosen
at `Init`, as an application sets the field before it sends. `Send` is the whole of
`ikcp_send` (fill up the last segment in stream mode, count, refuse, cut), `SendFails` the same with an allocation that fails behind `k`
fragments, `Flush` one pass of `ikcp_flush` with its calls of `ikcp_output`, `Recv` is
`ikcp_peeksize` and the merge of `ikcp_recv`. A call that is refused without any
change is left out.

`ikcp_setmtu` allocates a buffer of three datagrams of the new MTU (`BufferFor`), and
`ikcp_flush` puts a segment cut for an older MTU into it without asking whether it fits.
`Flush` is the flush in which every datagram fits (`InBuffer`), `FlushOverruns` the one in
which one does not: it sets `overrun`, and since what a write behind the end of the buffer
leads to is undefined, no action follows it. Nothing is claimed of the time after it.

### KcpWire

A byte has `Byte` values. `EncodeSeg` and `DecodeSeg` follow `ikcp_encode_seg` and the
head of the loop of `ikcp_input`; `Taken` is that loop, with its returns. The states of
`MCFormats` are datagrams written segment by segment. Between two endpoints that are
both `ikcp.c`, -2 and -3 do not occur.

### Chunks and Service

`Chunks` computes the sizes that `_sendBytes` produces, single precision included
(`Mantissa` bits; `Nearest` rounds as IEEE 754 does). `Service` is the program around it:

| Action | Code |
|---|---|
| `Type(c)` | console thread of a client: `SendText`, `SendFile` |
| `Again(c)` | the user of an `Endless` client goes on typing when all is handled: the counts start over, so that the run stays finite |
| `ClientTick(c)` | its service thread, one packet per tick |
| `Receive(c)` | receive thread of the server, `TickReceiveMsg` |
| `ServerTick` | service thread of the server: `HandleReceiveMsg` with its loop over the datagrams, `TryReceive`, `OnPckBytes` |
| `ThreadEnds(t)` | an exception reaches `ThreadUtil` |

`handled` is history: what the handlers got, under the key of the client that the server
logs it for. `OnPckBytes` calls itself with the chunks it has put together and goes by
their first byte. That is the type of the input only if the first chunk is in its place;
otherwise it is a byte of the user's, and `TypesOf` lets it be any: a whole packet, one more
chunk, a type nobody handles, or nothing at all, on which the service thread ends. This
happens only when the cache mixes two clients.

## Runs

| Run | Constants | States | Shows |
|---|---|---|---|
| `arq_reorder` | windows 2, 2 messages one way or 1 each way (`OneEachWay`), 2 datagrams in flight per direction, 1 fault, `H` 5 | about 271,000 | `NoAckedLoss`, `InOrderOnce`, `UnaMonotone`, `WrapSafe` |
| `arq_fragments` | `WND_RCV` 3, 2 messages of 2 fragments and attempts at 4, a datagram per segment, 1 fault | about 12,000 | `TypeOK`, `FullQueueIsReadable`, `MessagesKept`, `ImplementsChannel`, `EventuallyDelivered` |
| `arq_loops` | receive window changed between 2 and 3 at any time, 3 messages, 1 fault, up to a second read, or a read and a fault (`OneReadOrFault`) | about 89,000 | `IInv`, `ReceiverBounded`, `InputIsTheLoop`, `CallsAreTheLoops` |
| `arq_wide_window` | 16-bit field overflow, no fault | | violates `EventuallyDelivered` |
| `restart_same_port` | 1 message, 1 restart | | violates `AckedIsTaken` |
| `timer_resend` | 2 segments, two modes at any time, `fastresend` 1 or off, late by 1, 8 ticks; with 1 segment, the clock set by -20, -4, -2 or 5 (`JUMP` 3), or a flush by the application (`OneThingAtATime`) | about 327,000 | `TypeOK`, `FlushedInTime`, `ResentInTime`, `TimerInv`, `ResentForAReason` |
| `timer_steady` | 6 segments, delay of 5, 24 ticks; with 2 segments, windows 0 and 2 and a flush by the application (`ClosedEarly`) | about 349,000 | `NoSpuriousTimeout`, `Punctual`, `ProbedInTime` |
| `cwnd` | the code's constants, windows 5 and 8, MTU 50 or 1400 set twice, 2 losses | about 10,000 | `TypeOK`, `CwndAgreesWithIncr`, `NeverCloses`, `GrowsToWindow` |
| `pack` | both modes, 3 calls of 0, 1, 4 or 9 bytes, 11 in all, `OVERHEAD` 1, MTU 10, and 4 or 2 as well (`MaxMtus`), 1 failed allocation | about 129,000 | `PackInv`, `TypeOK`, `BytesInOrder`, `ReadsAreSends`, `StreamFillsSegments`, `BufferHolds`, `OutputFitsMtu`, `PackedFull` |
| `formats` | `Mantissa` 8, `FRG_MAX` 7, mss 1 to 4, files up to 400 bytes; bytes of 5 values, 2 segments a datagram, payloads of 0, 1, 6 bytes | about 19,000 | `ChunksFitSend`, `ChunksCoverFile`, `DatagramReadsBack`, `OthersRefuse` |
| `service_chat` | 2 clients, one with 2 files of 2 chunks and a text, one with 2 texts, again and again (`Endless`); either thread may end | about 30,000 | `TypeOK`, `HandledAsTyped`, `EventuallyHandled` |
| `service_files` | 2 clients, a file of 2 chunks each | | violates `HandledAsTyped` |

The bounds. Windows of 2 or 3 are the least at which a window can hold a gap
and a segment behind it, be full, and be shrunk below what is in flight; two or
three messages overrun them, so that flow control and the probe come in. `MaxNet = 2`
lets an old datagram stay behind a newer one in the same direction; at `MaxNet = 1`
a flush finds the network full and its datagrams are lost, so even the
runs without `MaxFaults` have unlimited loss. `MaxFaults` bounds what happens to a
datagram that is already in flight, to a copy or a loss. A datagram may stay in
flight for any number of steps. In `arq_loops` the one fault lets the receiver
acknowledge a segment behind a gap, so that the sender learns the larger window and a
segment arrives beyond the smaller one. `OneReadOrFault`, `OneEachWay`, `OneThingAtATime`
and `ClosedEarly` are state constraints that keep their runs within minutes; no run with
a liveness property has one. Data flows both ways in `arq_reorder` only; liveness is
checked for data one way. `FullQueueIsReadable` needs a message size the
guard refuses (4 with `WND_RCV = 3`) among `Counts`.

In the timer runs a tick stands for a long stretch of milliseconds and the
constants are scaled down in their order: `RTO_NDL` < `RTO_MIN` < `RTO_DEF` < `RTO_MAX`,
intervals below `JUMP`, `JUMP` below `H`. `Start` is 250 of 256, so the clock wraps in
the first ticks. Each run ends at `MaxNow`, after several intervals, two or three
timeouts in a row, and (in `timer_steady`) a probe timer at its limit. `Swing` bounds how
far the clock is set in all. Half the range, 128, is longer than the clock and the backoff
can go within a run (`RangeAssumption`).
In `arq_reorder` `H` is 5, the least with `2W < H` for windows of 2, and `Origin` 9, so
that the second segment has number 0 again. In `pack` a segment of 9 bytes fills the MTU
of 10. Lowered to 4, the MTU is exceeded by its datagram of 10 bytes while the buffer, 15,
holds it; lowered to 2, the buffer is 9 and one byte short. The MTU of 4 has an
mss of 3, at which messages have one, two or three fragments, the last of which are
refused, and at which 9 bytes behind a segment of one byte are a short count; at 10 several
short segments share a datagram. In
`formats` the lengths go past 2^8, from where a mantissa of 8 bits rounds lengths as
one of 24 does from 2^24. Its datagrams
take 0 and the greatest value of each field, and a window wider than the field. Its files
end with a chunk and one byte before and behind the end of one.

`CHECK_DEADLOCK` stays on in the runs of `KcpArq`, `KcpWrap` and `KcpRestart`: a control block can
always flush. It is off in the others, where a bound (`MaxNow`, `MaxSends`,
`MaxSegs`, `MaxLen`) or the end of the threads ends the run.

Fairness (`FairSpec`). The service loops of both programs call `ikcp_update`
for ever (`NetUtil.cs:13`, `NetClientUtil.cs:15`), so every timer runs out in the
end: weak fairness of `TimeoutFlush`. The network delivers what it neither loses
nor overtakes for ever: weak fairness of `Deliver`. The application reads when
something is readable, as the server loop does: weak fairness of `Recv`. Nothing is
assumed of `Send`, `WndSize`, `Peek` or of the faults. The fairness is enough because
loss is finite under it: at `MaxNet = 1` one flush can be lost to a full
network, but the network empties by fairness of `Deliver`.

`KcpCwnd`'s `FairSpec`: a flush without loss and an acknowledgement happen again and
again while they can (weak fairness of `Smooth` and `Acked`); the losses are
finite. `Service`'s: the threads that live keep ticking, and what `ikcp_send` took
arrives. Fairness does not give every connection its turn: `TryReceive` always begins with
the one added first, and a client that keeps a packet waiting there starves those
behind it for good. `EventuallyHandled` says so and no more: only a client that never stops, and
has connected earlier, excuses what is not handled (`Crowded`). In `service_chat` `c2`
never stops; without the excuse TLC finds `c1` waiting for ever. The other excuses are that the
service thread has ended, and that the receive thread has before it had the input; what it
has queued must be handled also after its end (`Arrived`). The timer properties are bounds on time and need no fairness: `Tick` cannot
pass the moment at which the application has promised to call `ikcp_update`.

How the timer properties are to be read. `ResentInTime` and `ProbedInTime` grant a
clock that is set back its whole step, since the timers are points on that clock.
`FlushedInTime` grants it less than `JUMP`, and `Lateness`, once (`SetDelay`): the last call that
could not know of the step may be late already, the schedule is then up to `JUMP` away,
and from `JUMP` on `ikcp_update` forgets it.
`ResentForAReason` grants a clock set forward its step. A timer starts at the clock of
the last `ikcp_update`, also when the application calls `ikcp_flush` itself.
`NoSpuriousTimeout` needs an application in time (`Lateness` 0) that leaves flushing to
`ikcp_update`, and a delay of no more than the initial RTO: with a flush by the
application the clock may be an interval old, and TLC then finds a segment that is sent
twice although its acknowledgement is on time.

## Findings

* `arq_wide_window`: `ikcp_wndsize` takes any positive window
  (`ikcp.c:1285`), and `README.en.md:133` says that it sets the maximum window, but
  the window travels in 16 bits. A receive window of 65536 is advertised as 0 as
  soon as the application has read everything. From then on the sender numbers
  nothing, and each probe is answered with 0: the conversation stops without any
  fault of the network. Windows above 65536 are advertised modulo 65536.
* `service_files`: the server has one receive cache for all clients
  (`NetUtil.cs:82`), so two clients that send files at the same time get theirs mixed,
  and the log line "receive file from" names one of them.
* `restart_same_port`: `KCPConnect.cs:94` relies on the endpoint to tell conversations
  apart. A client started again on its port meets the server's old control block: its
  segments are acknowledged as old ones and dropped.

Seen while modelling, without a run of their own:

* `ikcp.h:387` and `README.en.md:133` give 32 as the default receive window; the code
  has 128 (`ikcp.c:36`) and raises every smaller window to 128 (`ikcp.c:1286`), as the
  fragment limit of `ikcp_send` requires.
* `README.en.md:124` promises a retransmission after two ACKs that pass a segment, and
  `README.en.md:39` counts every later ACK. `ikcp_input` counts one skip per datagram
  (`ikcp.c:878`), and `ikcp_flush` puts the ACKs of an interval into as few datagrams as
  it can, so that the retransmission often waits for the next datagram or the timeout.
* An overdue segment makes `ikcp_check` name the present (`ikcp.c:1217`), while
  `ikcp_update` flushes only when `ts_flush` has come: an application that follows the
  comment of `ikcp_check` calls `ikcp_update` in a loop until then.
* `README.en.md:51` promises the concession rules of TCP; one acknowledgement in
  congestion avoidance can raise the window from 2 to 4, because `cwnd` is rounded up
  from an `incr` of a little more than 3 segments (`ikcp.c:893`).
* After `ikcp_setmtu` has lowered the MTU (`README.en.md:137`: "will affect the maximum
  transmission unit"), segments that wait keep the length they were cut to. One of up to
  (new MTU + 24) * 3 bytes, header included, goes out in a datagram of its old size: the case
  that `OutputFitsMtu` excepts. A longer one, as when 1400 is lowered to 442 or less,
  is written behind the end of `buffer` (`ikcp.c:1103` to `1109`), which `ikcp_setmtu` has
  replaced by one for the new MTU (`ikcp.c:1235`): `FlushOverruns`. `BufferHolds` says that
  nothing else leads there.
* When an allocation fails in the middle of a message and `assert` is compiled out,
  `ikcp_send` returns an error but leaves the first fragments queued (`ikcp.c:525`), and
  the receiver merges them with the next message: `ReadsAreSends` ends with the first
  failure, `BytesInOrder` does not.

## Proofs

The theorems hold for every value of the constants that meets the named
assumptions of the module, which TLC evaluates in every run:

* `KcpArq`: `PeerAssumption`, `WindowAssumption`, `BoundAssumption` (two different
  endpoints; windows positive; sizes of messages positive).
* `KcpWrap`: besides, windows of at most `W` with `2W < H`.
* `KcpTimer`: `TimerAssumption` (constants positive and in the order they have in the
  code, intervals below `JUMP`), `BoundAssumption` (bounds are numbers),
  `RangeAssumption` (half the range of the clock is longer than the run, how far its clock
  is set and the longest RTO, twice over). With `H` = 2^31 ms that is a run of some 12 days.
  The bound is real: a segment that is never acknowledged doubles its RTO until the
  32-bit sum wraps, and a theorem without the bound would be false.
* `KcpPack`: `PackAssumption` (sizes and the least MTU positive, the least MTU above the
  header and not above the default, lengths and bounds numbers).
* `KcpCwnd`: an MTU of 50 and of 16 above the header at least.
* `Chunks`: 6 <= `FRG_MAX` <= `WND_RCV`. `KcpWire`: commands that fit a byte. `MCFormats`:
  `FormatsAssumption` (fields of the widths they have on the wire, a payload shorter than
  half their range).
* `Service`: `ServiceAssumption` (each input makes at least one packet). `Invariant` and
  `HandledWhole` have the hypothesis `OneChunker` besides: one client at most sends in
  chunks. Without it they are false, as `service_files` shows.

| Theorem of `KcpArqProofs` | States |
|---|---|
| `TypeCorrect` | `Spec => []TypeOK` |
| `Invariant` | `Spec => []IInv` |
| `AckedDataIsSafe` | `Spec => []NoAckedLoss` |
| `ReadsInOrderOnce` | `Spec => []InOrderOnce` |
| `FullQueueReadable` | `Spec => []FullQueueIsReadable` |
| `UnaNeverGoesBack` | `Spec => UnaMonotone` |
| `ReceiverStaysBounded` | `Spec => ReceiverBounded` |
| `MessagesStayWhole` | `Spec => []MessagesKept` |
| `Implements` | `Spec => ImplementsChannel`, the refinement of `MsgChannel` |

| Theorem of `KcpCodeProofs` | States |
|---|---|
| `InputRunsTheLoops`, `CallsRunTheLoops` | `Spec => InputIsTheLoop`, `Spec => CallsAreTheLoops`, with the `Spec` of `KcpArq` |
| `ComparisonsAreRight` | `Spec => []WrapSafe`, with the `Spec` of `KcpArq` from the idle state of `KcpWrap` |

| Theorem of `KcpTimerProofs` | States |
|---|---|
| `Invariant`, `TypeCorrect` | `Spec => []TimerInv`, `Spec => []TypeOK` |
| `FlushesInTime`, `ResendsInTime`, `ProbesInTime` | `Spec => []FlushedInTime`, `Spec => []ResentInTime`, `Spec => []ProbedInTime` |
| `ResendsForAReason` | `Spec => ResentForAReason` |
| `SteadyInvariant` | `Steady(d)` implies `Spec => [](TimerInv /\ Punctual)` |
| `NothingSentTwice` | `Steady(delay)` implies `Spec => NoSpuriousTimeout` |

| Theorem of `KcpPackProofs` | States |
|---|---|
| `Invariant`, `TypeCorrect` | `Spec => []PackInv`, `Spec => []TypeOK` |
| `BytesComeInOrder`, `ReadsAreMessages`, `StreamFills` | `Spec => []BytesInOrder`, `Spec => []ReadsAreSends`, `Spec => []StreamFillsSegments` |
| `DatagramsFit`, `DatagramsAreFull` | `Spec => OutputFitsMtu`, `Spec => PackedFull` |
| `BufferIsHeld` | `Spec => []BufferHolds` |

| Theorem | States |
|---|---|
| `KcpCwndProofs!TypeCorrect`, `WindowsAgree`, `WindowStaysOpen` | `Spec => []TypeOK`, `Spec => []CwndAgreesWithIncr`, `Spec => NeverCloses` |
| `FormatsProofs!HeaderReadsBack` | decoding an encoded header anywhere in a datagram gives the header, its window cut |
| `FormatsProofs!ReadBack`, `OthersTakeNothing` | `Spec => []DatagramReadsBack`, `Spec => []OthersRefuse`: datagrams of any number of segments |
| `FormatsProofs!PacketsFit`, `ChunksAlwaysFit` | no packet of `_sendBytes` is refused by `ikcp_send`, for every mss and length; `Spec => []ChunksFitSend` |
| `FormatsProofs!PacketsCover`, `ChunksAlwaysCover` | the packets of `_sendBytes` hold the whole text or file and none is empty, for every mss and every length that single precision can count; `Spec => []ChunksCoverFile` |
| `ServiceProofs!TypeCorrect` | `Spec => []TypeOK` |
| `ServiceProofs!Invariant`, `HandledWhole` | `OneChunker` implies `Spec => []IInv`, `Spec => []HandledAsTyped` |

### KcpArq

None of the properties is inductive alone: whether an
acknowledgement may remove a segment depends on what the datagram that carries it
could say when it was written, any number of steps ago. `IInv` therefore says what is
true of everything in flight. For each direction, `Direction(p)`: `snd_buf`,
`rcv_buf` and the receive queue agree with `stream` at their numbers, `rcv_nxt` is at
most the sender's `snd_nxt`, what is on `acklist` is held, and what is numbered and no
longer in `snd_buf` is held. For each datagram, `Truthful(d)`: its segments are the
sender's, its acknowledgements and its `una` are of data its sender holds. `Queued(p)`
ties `snd_queue` to the end of the stream, `Fits(p)` bounds `frg` by the least window.

The proof of the step splits by action. `Progress` names what no step undoes
(numbered segments, held data, `rcv_nxt`), so that a datagram in flight stays truthful
without a look at it (`TruthfulStays`). The one lemma with content on the receive
side, `MoveKeepsDirection`, serves `ikcp_recv`, peeking and `ikcp_input`, since all
three end in the move loop; `AcknowledgedIsTaken` is the fact that makes
`ikcp_ack_push` before `ikcp_parse_data` sound; `AcksKeepDirection` is the send side.

`ReceiverStaysBounded` needs `TypeOK` only. Its lemma with content is `RcvNxtAtBound`:
the `rcv_nxt` that a PUSH meets inside its datagram is not beyond the one the datagram
leaves, so that a PUSH taken inside the window is inside it at the end as well.

### KcpArq implements MsgChannel

`IInv` says that segments arrive in order; the channel speaks of messages. What joins
them is `MessagesKept`. Of the stream: the segments of a message count down in `frg` to
0, their message numbers never fall and rise only behind a 0 (`CountsDown`, `Numbers`). Of
the reader: what lies before the head of the queue ends with a whole message, and as
many messages have been delivered, each as it was sent (`ReadWhole`).
`frg` alone thus tells where `ikcp_recv` has to cut. Under the refinement mapping the
messages of the stream (`Messages`, a set of `Places` mapped to their contents) are what
the channel has accepted. A successful `Send` adds one to them and a `Recv` one to
what was read; every other step, of either endpoint and of the network, changes neither and
is a stutter. Both initial states are empty.

### KcpLoops

Two loops that start alike and go on alike are the same (`TurnsAlike`): to know what a
loop leaves it is enough to know it of one turn. For each loop a lemma says where it
stands after `n` turns, as a value of the closed form (`MoveTurns`, `MergeLoopMakes`,
`PushTurns`, `AckTurns`, `NumberTurns`), and that the turns it is given suffice.

* The move loop stands at the lesser of `n` further and the frontier. `PushTurns` needs
  that moving twice, with a segment stored in between, is moving once (`MovedTwice`),
  and that `RcvNxtAt` looks only at the PUSHes before it (`ParsedBefore`). That an
  ascending order of a set lists each element once comes from counting (`OrderFacts`).
* The loop of `ikcp_parse_una` takes off the least segment while it is below `una`. No
  closed form of its turns is needed: what is left keeps all from `una` on
  (`UnaTurnLeaves`), and if something below were left, every turn would have taken one.
* ACKs in any order: each takes its own number off if it is in flight, which does
  not depend on the order.

The loops look at the head of a list where `KcpArq` looks up a number. They agree because
`rcv_buf` holds nothing that `rcv_nxt` has passed (`Tidy`). `LoopInv` is `IInv` and `Tidy`;
without it `MoveTurn` would stop at an old segment for good.

### KcpWrap

`ComparisonsAreRight` adds to `IInv` that windows stay at most `W`, that at most `W`
segments are in flight and that `rcv_buf` lies within `W` of `rcv_nxt` (`WInv`). Any two
numbers that the code compares are then less than `H` apart (`Distances`, `Compared`), and
`DiffExact` of `KcpSerialProofs` says that `_itimediff` is exact there. The lemma to look at is
`FlushSteady`: a send window that shrinks does not take numbers back, but it numbers no more
either.

### KcpTimer

The properties bound real time, and the code knows only a clock that wraps, stands
still between two updates and may be set. `TimerInv` relates the two:

* `Scheduled`: the flush that `ikcp_update` has planned lies 1 to `JUMP` ahead of the clock it
  saw (`Wait`), the application wakes up for it, and the clock is what it was and the time
  since, unless it was set. This gives `FlushedInTime`.
* `TimersKept`: there are an `f` and a `b`, how far the clock had been set forward and back at
  the last update, such that `current` shows that time and each timer shows the time it is
  due by a clock set by at most as much (`Shows`), and the planned flush comes at most an interval
  after each timer (`Timed`). The witnesses are needed: timers set before and after a step of
  the clock are wrong by different amounts, and no equation holds for all.
  This gives `ResentInTime`, `ProbedInTime` and `ResentForAReason`.
* `SegmentsKept`: no RTO is longer than `Longest`, since a backoff at most doubles one that
  has run out within the run, so that no timer is half the range away, and
  `fastack` counts no skip that the history has not.

`FlushedOK`, `ProbeKeeps` and `TimersAfterFlush` show that a flush leaves every timer in
order: those that it starts anew are ahead of the clock, those that it leaves alone have not run
out, hence the next flush is in time for them. `DiffExact`, `DiffInverse` and
`CutAdd` take the step from times to readings of the clock.

`NothingSentTwice` is about what makes KCP's estimator sound although it measures with a
stale clock. Round trips come out short by at most one interval (the
acknowledgement arrives at most one interval after the last update); the estimate `srtt`
is then at least `d - interval` and `ikcp_update_ack` adds the interval, so that the RTO
is never below `d` (`Punctual`). `Steady(d)` states under which circumstances this holds: one delay
`d`, no more than the initial RTO, no loss, an application in time, a clock that is not
set, and changes of mode that leave the interval and fast resend off (a larger
interval lets a sample measured under it meet an RTO computed with a smaller one). Those
are the circumstances of `timer_steady`, for any number of segments, windows, modes of
backoff and length of the run.

### KcpPack

`BytesInOrder` speaks of sums over all that was read and all that waits; no step can be
checked against a sum. `PackInv` says the same locally: `Covers`, that each segment on its
way begins where the one before it ends, the first where the reader is, the last at
`accepted`. A send then adds a stretch at the end (`QueuesCovers`), a flush or an
arrival moves the boundary between two queues and leaves `Pipeline` as it is, and a read
takes a stretch off the front (`TakesCovers`); `CoversBytes` gives the sums back.

`ReadsAreSends` needs to know what the reader will meet: `MessagesQueued`. Each
segment belongs to a message of `sends`, `frg` counts down inside a message and is 0 at
its end, where the next one begins. `RecvTakes` shows that the first 0 of `frg` is where
`ikcp_peeksize` stops, `MessagesLess` that what lies before it is one message whole and
what lies behind begins with the next. `MessagesQueued` ends with the first failed
allocation, `Covers` does not.

`UnitsKept` bounds a segment by the greatest MTU there has been: `Extend` may fill up to
the mss of today a segment that was cut for another. `DatagramsFit` and
`DatagramsAreFull` are facts about one flush: `PackedWell` is what each `Put` preserves
along the list of items (`PutKeeps`). A datagram is thus within the MTU or a single segment
of at most the greatest MTU; since `PackInv` keeps `buffer` at what `BufferFor` allocates,
both fit it as long as that MTU does (`FlushOverrunsStep`), which is `BufferIsHeld`.

Sums and packings are folds over sequences. The library's induction over them cannot be
used by the installed provers, so `FoldExists` and `FoldChain` are proved by the least
counterexample (`Least`): a fold is the last of a chain of values, each made of the one
before it. All facts about `Bytes`, `Total` and `Packed` rest on that chain.

### KcpWire and Chunks

`HeaderReadsBack` goes in two steps: a number is its last byte and `Byte` times the
rest, four times over (`FourBytes`); and a field of a concatenation is found behind
the lengths of those before it (`Fields`, `Between`).

`ReadBack` is about a loop whose next position is read from the bytes. `WireInv` gives
the positions: there are offsets `off`, the last one the length of the datagram, between
which the segments lie (`Placed`). At each of them the loop reads one header back and
goes on at the next. `OthersTakeNothing` needs only the first: a segment of another
conversation ends the loop before it has taken anything.

`PacketsFit` does not depend on the number of chunks, hence not on the rounding: each
chunk is cut to `multPckMaxSize`, and one byte more makes at most `FRG_MAX - 1` fragments.
`PacketsCover` does depend on it: a length below 2^`Mantissa` is exact, and a quotient that
lies above a whole number keeps enough bits for its fraction to stay above it when it is
rounded (`NearestOf`), so that the ceiling is that of the true quotient. The floats use powers of two, defined as the number of
subsets; that they are numbers above 0 is all that is needed of them, and the
library has it (`FS_SUBSET`).

### Service

The handler at the server must get the inputs of each client in order, and between the
two there are four queues. `Flow(c)` says that they are one: from `Position(c)`, the packet
that the server is to handle next, the packets of `c` follow one another (`Step`) through
the control block, the datagrams, the channel and the queue of the client, and end at the
last input typed (`End`). The datagrams of all clients are on one queue, hence `ChainFrom`,
which skips those of the others. A chain has a cursor for each packet (`Chain`),
and no length has to be added up: moving a packet to the next queue moves the cursor at
which one chain ends and the next begins. `CacheOf(c)` says that the cache holds the chunks
before `Position(c)`, and this is where `OneChunker` comes in: a second chunking
client would put its own chunks between them. That nothing is left on any of the queues
when a user begins again (`AgainFlows`) is the same chain, begun at its end.

### KcpCwnd

The invariant is `TypeOK /\ CwndAgreesWithIncr`. The step with content is
congestion avoidance: after it `cwnd` is `incr` divided by `mss` rounded up, or `incr` is
still below `(cwnd + 1) * mss` (`AvoidanceFacts`).

### Only model-checked

All liveness: `EventuallyDelivered`, `GrowsToWindow`, `EventuallyHandled`. Fairness
and ENABLED are out of this prover's reach. Every invariant and every action property
that a passing run checks is proved.

## What is left

`KcpTimer` against `KcpArq`: that the flush of `KcpTimer`, with the segments it finds due,
is one of the choices of `KcpArq`'s `Flush`. Today this is an argument in words: `Flush`
allows every choice.

Not modelled, and why:

* What two threads do to a .NET `Queue` without a lock (`UDPUtil.cs:55`,
  `NetClientUtil.cs:17`): the repository does not say, and a model would be made up.
  On `_pcksReceived` a lost or repeated datagram is one of `KcpArq`'s faults and an
  exception is `ThreadEnds`; on `_pcksToSend` a lost packet is not repaired by anything.
* `ikcp_release`, `ikcp_allocator`, the growth of `acklist` (which aborts when memory
  runs out), logging, argument parsing, the clock and random wrappers: no protocol state.
* Garbage collection of the delegates given to the native control block.
* Files of 2^24 bytes and more: single precision no longer counts bytes there, and
  the tail of a file may be lost; `ChunksCoverFile` excludes them (scaled down, a
  mantissa of 8 bits loses the tail of 264 bytes at an mss of 4).

The hazards that guide the properties, each at its line, are in `PROJECT.json`.
