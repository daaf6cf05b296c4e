------------------------------- MODULE KcpArq -------------------------------
(***************************************************************************)
(* One KCP conversation: two control blocks (ikcpcb), one per endpoint,    *)
(* that exchange datagrams over a network that loses, reorders and         *)
(* duplicates them.  Every call that changes a control block is one        *)
(* action: ikcp_send, ikcp_recv, ikcp_wndsize, ikcp_flush (reached through *)
(* ikcp_update) and ikcp_input.                                            *)
(*                                                                         *)
(* Time is abstracted: which segments are due for retransmission (timeout  *)
(* or fast resend) and whether the window probe is due are choices of      *)
(* Flush, and so is the congestion window.  Sequence numbers do not wrap.  *)
(* A segment's payload is the message it belongs to; its length is one     *)
(* fragment.  The segments of a datagram all carry the una and wnd of the  *)
(* flush that encoded them, so a datagram is a record with one of each.    *)
(***************************************************************************)
EXTENDS Integers, Sequences, FiniteSets, FiniteSetsExt

CONSTANTS
  A, B,        \* the two endpoints of the conversation
  WND_SND,     \* IKCP_WND_SND, the initial send window
  WND_RCV,     \* IKCP_WND_RCV, the initial and least receive window
  WireWnd,     \* how many values the 16-bit wnd field has
  SndWnds,     \* endpoint -> send windows its application may ask for
  RcvWnds,     \* endpoint -> receive windows it may ask for (0: leave as it is)
  Counts,      \* sizes of the messages the application sends, in fragments
  Coalesce,    \* TRUE: what a flush emits fits one MTU; FALSE: full segments
  MaxMsgs,     \* bound: messages each endpoint sends
  MaxFaults,   \* bound: datagrams lost or duplicated in transit
  MaxNet       \* bound: datagrams in flight to one endpoint

Peer == {A, B}
Remote(p) == IF p = A THEN B ELSE A

ASSUME PeerAssumption == A # B

ASSUME WindowAssumption ==
  /\ WND_SND \in Nat \ {0}
  /\ WND_RCV \in Nat \ {0}
  /\ WireWnd \in Nat \ {0}
  /\ SndWnds \in [Peer -> SUBSET Nat]
  /\ RcvWnds \in [Peer -> SUBSET Nat]

ASSUME BoundAssumption ==
  /\ Counts \subseteq Nat \ {0}
  /\ Coalesce \in BOOLEAN
  /\ MaxMsgs \in [Peer -> Nat]
  /\ MaxFaults \in Nat
  /\ MaxNet \in Nat \ {0}

VARIABLES
  stream,      \* history: every segment ikcp_send has queued, in order
  delivered,   \* history: the messages ikcp_recv has returned, in order
  snd_queue,   \* segments without a sequence number yet
  snd_buf,     \* sequence number -> segment sent and not acknowledged
  snd_una,
  snd_nxt,
  snd_wnd,
  rmt_wnd,     \* the window the last datagram to arrive advertised
  probing,     \* probe_wait # 0: the window probe timer is armed
  rcv_nxt,
  rcv_buf,     \* sequence number -> segment received out of order
  rcv_queue,   \* segments the application can read
  rcv_wnd,
  acklist,     \* sequence numbers to acknowledge at the next flush
  probe,       \* the IKCP_ASK_TELL bit (IKCP_ASK_SEND never outlives a flush)
  net,         \* datagrams in flight
  faults       \* how many of the MaxFaults faults have happened

sndVars == <<stream, snd_queue, snd_buf, snd_una, snd_nxt>>
rcvVars == <<delivered, rcv_nxt, rcv_buf, rcv_queue, acklist, probe>>
wndVars == <<snd_wnd, rcv_wnd>>
rmtVars == <<rmt_wnd, probing>>
netVars == <<net, faults>>
vars == <<sndVars, rcvVars, wndVars, rmtVars, netVars>>

Segment == [msg : Nat, frg : Nat]

imin(a, b) == IF a <= b THEN a ELSE b
imax(a, b) == IF a >= b THEN a ELSE b

-----------------------------------------------------------------------------
(* ikcp_create *)

Init ==
  /\ stream = [p \in Peer |-> <<>>]
  /\ delivered = [p \in Peer |-> <<>>]
  /\ snd_queue = [p \in Peer |-> <<>>]
  /\ snd_buf = [p \in Peer |-> <<>>]
  /\ snd_una = [p \in Peer |-> 0]
  /\ snd_nxt = [p \in Peer |-> 0]
  /\ snd_wnd = [p \in Peer |-> WND_SND]
  /\ rmt_wnd = [p \in Peer |-> WND_RCV]
  /\ probing = [p \in Peer |-> FALSE]
  /\ rcv_nxt = [p \in Peer |-> 0]
  /\ rcv_buf = [p \in Peer |-> <<>>]
  /\ rcv_queue = [p \in Peer |-> <<>>]
  /\ rcv_wnd = [p \in Peer |-> WND_RCV]
  /\ acklist = [p \in Peer |-> {}]
  /\ probe = [p \in Peer |-> FALSE]
  /\ net = {}
  /\ faults = 0

-----------------------------------------------------------------------------
(* ikcp_send: a message of count fragments is queued whole, or refused      *)
(* (-2, nothing changes) when it has WND_RCV fragments or more.             *)

MsgsSent(p) == IF stream[p] = <<>> THEN 0 ELSE stream[p][Len(stream[p])].msg

\* Mutant: frg computed as if fragments were counted from zero.
FragmentsFromZero(m, count) ==
  [i \in 1..count |-> [msg |-> m, frg |-> count - i - 1]]

\* Mutant: frg counts up instead of down.
FragmentsCountUp(m, count) == [i \in 1..count |-> [msg |-> m, frg |-> i - 1]]

Fragments(m, count) == [i \in 1..count |-> [msg |-> m, frg |-> count - i]]

\* Mutant: the fragment limit of ikcp_send is gone.
SendAnySize(p, count) ==
  /\ MsgsSent(p) < MaxMsgs[p]
  /\ LET new == Fragments(MsgsSent(p) + 1, count)
     IN /\ stream' = [stream EXCEPT ![p] = @ \o new]
        /\ snd_queue' = [snd_queue EXCEPT ![p] = @ \o new]
  /\ UNCHANGED <<snd_buf, snd_una, snd_nxt, rcvVars, wndVars, rmtVars, netVars>>

Send(p, count) ==
  /\ count < WND_RCV
  /\ MsgsSent(p) < MaxMsgs[p]
  /\ LET new == Fragments(MsgsSent(p) + 1, count)
     IN /\ stream' = [stream EXCEPT ![p] = @ \o new]
        /\ snd_queue' = [snd_queue EXCEPT ![p] = @ \o new]
  /\ UNCHANGED <<snd_buf, snd_una, snd_nxt, rcvVars, wndVars, rmtVars, netVars>>

-----------------------------------------------------------------------------
(* The receive side of the control block *)

\* Mutant: what the application has not read yet is not counted.
WndUnusedIgnoresQueue(p) == rcv_wnd[p]

\* ikcp_wnd_unused: how many more segments rcv_queue may take.
WndUnused(p) == imax(0, rcv_wnd[p] - Len(rcv_queue[p]))

\* rcv_nxt after the loop that moves segments from rcv_buf to rcv_queue: the
\* first number from r on that is missing, or where the queue is full.
Frontier(have, r, room) ==
  Min({n \in r .. r + room : n = r + room \/ n \notin have})

\* ikcp_peeksize >= 0: the head of rcv_queue is a message that is all there.
Readable(p) ==
  /\ rcv_queue[p] # <<>>
  /\ \/ Head(rcv_queue[p]).frg = 0
     \/ Len(rcv_queue[p]) >= Head(rcv_queue[p]).frg + 1

\* Mutant: the merge loop does not stop at the end of the message.
IsMergeAll(queue, k) == k = Len(queue)

\* The merge loop of ikcp_recv takes k segments: up to the first whose frg is 0.
IsMerge(queue, k) ==
  /\ k \in 1..Len(queue)
  /\ \A i \in 1..k-1 : queue[i].frg # 0
  /\ queue[k].frg = 0 \/ k = Len(queue)

\* The move loop: a queue and, behind it, the segments r to n - 1 of a buffer.
MovedTo(queue, buf, r, n) == queue \o [i \in 1 .. n - r |-> buf[r + i - 1]]

\* rcv_queue without its first k segments, with those up to n - 1 moved in.
Refilled(p, k, n) ==
  MovedTo(SubSeq(rcv_queue[p], k + 1, Len(rcv_queue[p])),
          rcv_buf[p], rcv_nxt[p], n)

\* The tail of ikcp_recv once k segments are gone: the move loop, and the
\* "fast recover" that advertises the window of a queue that was full.
Refill(p, k) ==
  LET room == imax(0, rcv_wnd[p] - (Len(rcv_queue[p]) - k))
      n == Frontier(DOMAIN rcv_buf[p], rcv_nxt[p], room)
  IN /\ rcv_nxt' = [rcv_nxt EXCEPT ![p] = n]
     /\ rcv_buf' = [rcv_buf EXCEPT ![p] =
                      [s \in {x \in DOMAIN @ : x >= n} |-> @[s]]]
     /\ rcv_queue' = [rcv_queue EXCEPT ![p] = Refilled(p, k, n)]
     /\ probe' = [probe EXCEPT ![p] =
                    \/ @
                    \/ /\ Len(rcv_queue[p]) >= rcv_wnd[p]
                       /\ Len(rcv_queue'[p]) < rcv_wnd[p]]

Recv(p) ==
  /\ Readable(p)
  /\ \E k \in 1..Len(rcv_queue[p]) :
        /\ IsMerge(rcv_queue[p], k)
        /\ delivered' = [delivered EXCEPT
                           ![p] = Append(@, SubSeq(rcv_queue[p], 1, k))]
        /\ Refill(p, k)
  /\ UNCHANGED <<acklist, sndVars, wndVars, rmtVars, netVars>>

\* ikcp_recv with a negative length peeks: it removes nothing, and still runs
\* the move loop.
Peek(p) ==
  /\ Readable(p)
  /\ Refill(p, 0)
  /\ UNCHANGED <<delivered, acklist, sndVars, wndVars, rmtVars, netVars>>

\* ikcp_wndsize.  Nothing is moved, dropped or advertised here.
WndSize(p, sndwnd, rcvwnd) ==
  /\ snd_wnd' = [snd_wnd EXCEPT ![p] = IF sndwnd > 0 THEN sndwnd ELSE @]
  /\ rcv_wnd' = [rcv_wnd EXCEPT ![p] = IF rcvwnd > 0 THEN imax(rcvwnd, WND_RCV)
                                       ELSE @]
  /\ UNCHANGED <<sndVars, rcvVars, rmtVars, netVars>>

-----------------------------------------------------------------------------
(* ikcp_input: one datagram *)

\* ikcp_shrink_buf
LowestUnacked(unacked, nxt) == IF unacked = {} THEN nxt ELSE Min(unacked)

\* Mutant: una taken for the last number received, not the next one expected.
StillUnackedUnaInclusive(p, d) ==
  LET above == {s \in DOMAIN snd_buf[p] : s > d.una}
      acked == {s \in d.ack : /\ s >= LowestUnacked(above, snd_nxt[p])
                              /\ s < snd_nxt[p]}
  IN above \ acked

\* What ikcp_parse_una, then ikcp_shrink_buf and ikcp_parse_ack for every
\* ACK, leave of snd_buf.
StillUnacked(p, d) ==
  LET above == {s \in DOMAIN snd_buf[p] : s >= d.una}
      acked == {s \in d.ack : /\ s >= LowestUnacked(above, snd_nxt[p])
                              /\ s < snd_nxt[p]}
  IN above \ acked

\* Mutant: every PUSH is measured against the rcv_nxt the datagram found.
RcvNxtAtStart(p, push, s) == rcv_nxt[p]

\* rcv_nxt when the loop reaches PUSH s: it has moved only if an earlier PUSH
\* of the datagram was handed to ikcp_parse_data.
RcvNxtAt(p, push, s) ==
  LET r == rcv_nxt[p]
      earlier == {x \in DOMAIN push : x < s}
  IN IF \E x \in earlier : x >= r /\ x < r + rcv_wnd[p]
     THEN Frontier(DOMAIN rcv_buf[p] \cup earlier, r, WndUnused(p))
     ELSE r

\* Mutant: a PUSH beyond the window, which is dropped, is acknowledged too.
AcknowledgedBeyondWindow(p, push) == DOMAIN push

\* The PUSHes below the end of the window: each is acknowledged ...
Acknowledged(p, push) ==
  {s \in DOMAIN push : s < RcvNxtAt(p, push, s) + rcv_wnd[p]}

\* ... and those not received before go through ikcp_parse_data.
Parsed(p, push) ==
  {s \in DOMAIN push : /\ s >= RcvNxtAt(p, push, s)
                       /\ s < RcvNxtAt(p, push, s) + rcv_wnd[p]}

RcvNxtAfter(p, push) ==
  IF Parsed(p, push) = {} THEN rcv_nxt[p]
  ELSE Frontier(DOMAIN rcv_buf[p] \cup Parsed(p, push), rcv_nxt[p], WndUnused(p))

\* A repeated segment is dropped: the one in rcv_buf stays.
Received(p, push) ==
  [s \in DOMAIN rcv_buf[p] \cup Parsed(p, push) |->
     IF s \in DOMAIN rcv_buf[p] THEN rcv_buf[p][s] ELSE push[s]]

\* Mutant: snd_una is copied from the datagram.
InputAcksCopiesUna(p, d) ==
  LET left == StillUnacked(p, d)
  IN /\ snd_buf' = [snd_buf EXCEPT ![p] = [s \in left |-> @[s]]]
     /\ snd_una' = [snd_una EXCEPT ![p] = d.una]
     /\ rmt_wnd' = [rmt_wnd EXCEPT ![p] = d.wnd]

InputAcks(p, d) ==
  LET left == StillUnacked(p, d)
  IN /\ snd_buf' = [snd_buf EXCEPT ![p] = [s \in left |-> @[s]]]
     /\ snd_una' = [snd_una EXCEPT ![p] = LowestUnacked(left, snd_nxt[p])]
     /\ rmt_wnd' = [rmt_wnd EXCEPT ![p] = d.wnd]

InputPushes(p, push) ==
  LET n == RcvNxtAfter(p, push)
      seg == Received(p, push)
  IN /\ acklist' = [acklist EXCEPT ![p] = @ \cup Acknowledged(p, push)]
     /\ rcv_nxt' = [rcv_nxt EXCEPT ![p] = n]
     /\ rcv_buf' = [rcv_buf EXCEPT ![p] =
                      [s \in {x \in DOMAIN seg : x >= n} |-> seg[s]]]
     /\ rcv_queue' = [rcv_queue EXCEPT ![p] = MovedTo(@, seg, rcv_nxt[p], n)]

Input(p, d) ==
  /\ d.to = p
  /\ InputAcks(p, d)
  /\ InputPushes(p, d.push)
  /\ probe' = [probe EXCEPT ![p] = @ \/ d.ask]
  /\ UNCHANGED <<stream, snd_queue, snd_nxt, delivered, probing, wndVars>>

-----------------------------------------------------------------------------
(* ikcp_flush *)

Datagram(p, ack, ask, tell, push) ==
  [to |-> Remote(p), wnd |-> WndUnused(p) % WireWnd, una |-> rcv_nxt[p],
   ack |-> ack, ask |-> ask, tell |-> tell, push |-> push]

\* The calls of ikcp_output: everything in one datagram when it fits the MTU;
\* with full segments, ACKs and probes share one and each PUSH fills another.
Output(p, ack, ask, tell, push) ==
  LET control == IF ack # {} \/ ask \/ tell
                 THEN {Datagram(p, ack, ask, tell, <<>>)} ELSE {}
      data == {Datagram(p, {}, FALSE, FALSE, [x \in {s} |-> push[s]]) :
                 s \in DOMAIN push}
  IN IF ~Coalesce THEN control \cup data
     ELSE IF control \cup data = {} THEN {}
     ELSE {Datagram(p, ack, ask, tell, push)}

\* The network takes what has room; the rest of the datagrams are lost.
Transmit(p, out) ==
  LET room == MaxNet - Cardinality({d \in net : d.to = Remote(p)})
      new == out \ net
  IN \E sent \in SUBSET new :
        /\ Cardinality(sent) = imax(0, imin(room, Cardinality(new)))
        /\ net' = net \cup sent

\* How many segments move from snd_queue to snd_buf under congestion window c.
Moved(p, c) ==
  LET cwnd == imin(c, imin(snd_wnd[p], rmt_wnd[p]))
  IN imax(0, imin(Len(snd_queue[p]), snd_una[p] + cwnd - snd_nxt[p]))

\* Mutant: the head of snd_queue is numbered again and again.
NumberedHeadOnly(p, n) ==
  [s \in DOMAIN snd_buf[p] \cup snd_nxt[p] .. snd_nxt[p] + n - 1 |->
     IF s \in DOMAIN snd_buf[p] THEN snd_buf[p][s] ELSE Head(snd_queue[p])]

\* snd_buf with the n new segments numbered from snd_nxt on.
Numbered(p, n) ==
  [s \in DOMAIN snd_buf[p] \cup snd_nxt[p] .. snd_nxt[p] + n - 1 |->
     IF s \in DOMAIN snd_buf[p] THEN snd_buf[p][s]
     ELSE snd_queue[p][s - snd_nxt[p] + 1]]

\* Mutant: the window probe timer is never checked.
ProbeNeverDue(p) == FALSE

ProbeMayBeDue(p) == rmt_wnd[p] = 0 /\ probing[p]

\* resend: the segments whose retransmission is due; due: the probe timer fired.
Flush(p, c, resend, due) ==
  LET n == Moved(p, c)
      fresh == snd_nxt[p] .. snd_nxt[p] + n - 1
      buf == Numbered(p, n)
  IN /\ resend \subseteq DOMAIN snd_buf[p]
     /\ due => ProbeMayBeDue(p)
     /\ acklist' = [acklist EXCEPT ![p] = {}]
     /\ probe' = [probe EXCEPT ![p] = FALSE]
     /\ probing' = [probing EXCEPT ![p] = rmt_wnd[p] = 0]
     /\ snd_queue' = [snd_queue EXCEPT ![p] = SubSeq(@, n + 1, Len(@))]
     /\ snd_buf' = [snd_buf EXCEPT ![p] = buf]
     /\ snd_nxt' = [snd_nxt EXCEPT ![p] = @ + n]
     /\ Transmit(p, Output(p, acklist[p], due, probe[p],
                           [s \in resend \cup fresh |-> buf[s]]))
     /\ UNCHANGED <<stream, snd_una, delivered, rcv_nxt, rcv_buf, rcv_queue,
                    rmt_wnd, wndVars, faults>>

-----------------------------------------------------------------------------
(* The network *)

Deliver(p) ==
  \E d \in net : Input(p, d) /\ net' = net \ {d} /\ UNCHANGED faults

DeliverCopy(p) ==
  /\ faults < MaxFaults
  /\ faults' = faults + 1
  /\ \E d \in net : Input(p, d) /\ UNCHANGED net

Lose ==
  /\ faults < MaxFaults
  /\ faults' = faults + 1
  /\ \E d \in net : net' = net \ {d}
  /\ UNCHANGED <<sndVars, rcvVars, wndVars, rmtVars>>

-----------------------------------------------------------------------------

AnyFlush(p) ==
  \E c \in 0..snd_wnd[p], resend \in SUBSET DOMAIN snd_buf[p], due \in BOOLEAN :
     Flush(p, c, resend, due)

Next ==
  \/ \E p \in Peer :
       \/ \E count \in Counts : Send(p, count)
       \/ Recv(p)
       \/ Peek(p)
       \/ \E sndwnd \in SndWnds[p], rcvwnd \in RcvWnds[p] : WndSize(p, sndwnd, rcvwnd)
       \/ AnyFlush(p)
       \/ Deliver(p)
       \/ DeliverCopy(p)
  \/ Lose

Spec == Init /\ [][Next]_vars

\* A flush late enough for every timer to have run out, once the first flush
\* has left the congestion window at 1 or more.
TimeoutFlush(p) ==
  \E c \in 1..snd_wnd[p] : Flush(p, c, DOMAIN snd_buf[p], ProbeMayBeDue(p))

\* The service thread keeps calling ikcp_update, so that every timer runs out
\* in the end, and keeps reading; the network delivers what it neither loses
\* nor keeps, and it loses and duplicates at most MaxFaults datagrams.
Fairness ==
  \A p \in Peer : /\ WF_vars(TimeoutFlush(p))
                  /\ WF_vars(Deliver(p))
                  /\ WF_vars(Recv(p))

FairSpec == Spec /\ Fairness

-----------------------------------------------------------------------------
(* Properties *)

DatagramOK(d) ==
  /\ d.to \in Peer
  /\ d.wnd \in Nat
  /\ d.una \in Nat
  /\ d.ack \subseteq Nat
  /\ d.ask \in BOOLEAN
  /\ d.tell \in BOOLEAN
  /\ DOMAIN d.push \subseteq Nat
  /\ \A s \in DOMAIN d.push : d.push[s] \in Segment

\* A map from sequence numbers to segments, as snd_buf and rcv_buf are.
IsBuffer(f) ==
  /\ DOMAIN f \subseteq Nat
  /\ \A s \in DOMAIN f : f[s] \in Segment

\* The types of the fields of both control blocks and of the network.
TypeOK ==
  /\ stream \in [Peer -> Seq(Segment)]
  /\ delivered \in [Peer -> Seq(Seq(Segment))]
  /\ snd_queue \in [Peer -> Seq(Segment)]
  /\ DOMAIN snd_buf = Peer /\ DOMAIN rcv_buf = Peer
  /\ \A p \in Peer : IsBuffer(snd_buf[p]) /\ IsBuffer(rcv_buf[p])
  /\ snd_una \in [Peer -> Nat]
  /\ snd_nxt \in [Peer -> Nat]
  /\ snd_wnd \in [Peer -> Nat \ {0}]
  /\ rmt_wnd \in [Peer -> Nat]
  /\ probing \in [Peer -> BOOLEAN]
  /\ rcv_nxt \in [Peer -> Nat]
  /\ rcv_queue \in [Peer -> Seq(Segment)]
  /\ rcv_wnd \in [Peer -> Nat \ {0}]
  /\ acklist \in [Peer -> SUBSET Nat]
  /\ probe \in [Peer -> BOOLEAN]
  /\ \A d \in net : DatagramOK(d)
  /\ faults \in 0..MaxFaults

\* The sequence numbers of p that its remote endpoint has taken.
Held(p) ==
  LET q == Remote(p) IN 0 .. rcv_nxt[q] - 1 \cup DOMAIN rcv_buf[q]

\* Every segment p has numbered and no longer keeps has been taken.
InHands(p) ==
  \A s \in 0 .. snd_nxt[p] - 1 : s \notin DOMAIN snd_buf[p] => s \in Held(p)

\* A segment the sender has dropped from snd_buf, because of an ACK or of a
\* una that may be old, reordered or a copy, is in the receiver's hands: no
\* acknowledged data is ever lost (ikcp_parse_una, ikcp_parse_ack against
\* ikcp_ack_push, which runs before the segment is stored).
NoAckedLoss == \A p \in Peer : InHands(p)

\* The receive queue of p's remote endpoint is a stretch of p's stream that
\* ends at rcv_nxt.
InStream(p) ==
  LET q == Remote(p)
      read == rcv_nxt[q] - Len(rcv_queue[q])
  IN /\ 0 <= read /\ rcv_nxt[q] <= Len(stream[p])
     /\ \A i \in 1..Len(rcv_queue[q]) : rcv_queue[q][i] = stream[p][read + i]

\* What the application can read is the sender's stream, each segment once
\* and in order, up to rcv_nxt.
InOrderOnce == \A p \in Peer : InStream(p)

\* A full receive queue starts with a whole message.  Otherwise the reader
\* would wait for fragments that the window never lets in, for good: "must >=
\* max fragment size" at ikcp.c:36 and 1285.
FullQueueIsReadable ==
  \A p \in Peer : Len(rcv_queue[p]) >= rcv_wnd[p] => Readable(p)

\* Where the segments of message m stand in a stream.
Places(str, m) == {i \in 1..Len(str) : str[i].msg = m}

\* Message m: the stretch from its first segment to its last.
MessageIn(str, m) == SubSeq(str, Min(Places(str, m)), Max(Places(str, m)))

\* The messages an endpoint has sent.
Messages(p) == [m \in 1..MsgsSent(p) |-> MessageIn(stream[p], m)]

Channel ==
  INSTANCE MsgChannel WITH
    Sizes <- Counts, Message <- Fragments,
    sent <- [p \in Peer |-> Messages(p)], read <- delivered

\* The conversation implements the channel of messages: each message read is
\* one message sent, whole and in order, through fragmentation, loss,
\* reordering, copies and full windows.
ImplementsChannel == Channel!Spec

\* What p buffers stays as it is or grows within the present window.
GrowsInWindow(p) ==
  /\ Len(rcv_queue'[p]) <= imax(Len(rcv_queue[p]), rcv_wnd[p])
  /\ \A s \in DOMAIN rcv_buf'[p] :
       s \in DOMAIN rcv_buf[p] \/ s < rcv_nxt'[p] + rcv_wnd[p]

\* The receive window is a bound on memory, even just after it was reduced:
\* rcv_queue grows only up to it, and rcv_buf takes no number past it.
ReceiverBounded == [][\A p \in Peer : GrowsInWindow(p)]_vars

\* snd_una never goes back, whatever order the acknowledgements come in: the
\* send window hangs on it.
UnaMonotone == [][\A p \in Peer : snd_una'[p] >= snd_una[p]]_vars

\* Every message ikcp_send accepts is read in the end.
EventuallyDelivered ==
  \A p \in Peer : \A m \in 1..MaxMsgs[p] :
    MsgsSent(p) >= m ~> Len(delivered[Remote(p)]) >= m

-----------------------------------------------------------------------------
(* The inductive invariant: what makes the properties above hold.           *)

\* Segments numbered s of p, wherever they are, are the stream's s-th.
Agrees(p, f) ==
  \A s \in DOMAIN f : s < snd_nxt[p] /\ f[s] = stream[p][s + 1]

\* The stream is what has a number, followed by snd_queue.
Queued(p) ==
  /\ Len(stream[p]) = snd_nxt[p] + Len(snd_queue[p])
  /\ \A i \in 1..Len(snd_queue[p]) : snd_queue[p][i] = stream[p][snd_nxt[p] + i]

\* A message has fewer than WND_RCV fragments, and no window is below WND_RCV.
Fits(p) ==
  /\ \A i \in 1..Len(stream[p]) : stream[p][i].frg + 1 < WND_RCV
  /\ rcv_wnd[p] >= WND_RCV

\* One direction of the conversation: what p has sent, kept and forgotten, and
\* what its remote endpoint has taken, promised to take and queued.
Direction(p) ==
  LET q == Remote(p) IN
    /\ Agrees(p, snd_buf[p])
    /\ snd_una[p] <= snd_nxt[p] /\ \A s \in DOMAIN snd_buf[p] : s >= snd_una[p]
    /\ Agrees(p, rcv_buf[q])
    /\ rcv_nxt[q] <= snd_nxt[p]
    /\ acklist[q] \subseteq Held(p)
    /\ InHands(p)
    /\ InStream(p)

\* A datagram carries segments of its sender's stream, and acknowledges only
\* what its sender holds, however long ago it was sent.
Truthful(d) ==
  /\ Agrees(Remote(d.to), d.push)
  /\ d.ack \subseteq Held(d.to)
  /\ d.una <= rcv_nxt[Remote(d.to)]

\* TypeOK, NoAckedLoss and InOrderOnce hold because every step preserves this:
\* buffers and datagrams in flight only ever hold the sender's own stream, and
\* every acknowledgement on its way, old or new, is of data already taken.
IInv ==
  /\ TypeOK
  /\ \A p \in Peer : Queued(p) /\ Fits(p) /\ Direction(p)
  /\ \A d \in net : Truthful(d)

\* A message starts with the i-th segment of a stream.
StartsAt(str, i) == i = 1 \/ str[i - 1].frg = 0

\* Message boundaries can be told from frg alone: a segment with frg f is
\* followed by the f others of its message, and they by the next message.
CountsDown(str) ==
  \A i \in 1..Len(str) :
    /\ i + str[i].frg <= Len(str)
    /\ \A j \in i .. i + str[i].frg :
         str[j].msg = str[i].msg /\ str[j].frg = i + str[i].frg - j
    /\ i + str[i].frg < Len(str) => str[i + str[i].frg + 1].msg = str[i].msg + 1

\* The messages of a stream are numbered in order, from 1 to n, none missing.
Numbers(str, n) ==
  /\ Len(str) > 0 => str[1].msg = 1
  /\ \A i, j \in 1..Len(str) : i <= j => str[i].msg <= str[j].msg
  /\ \A m \in 1..n : \E i \in 1..Len(str) : str[i].msg = m /\ StartsAt(str, i)
  /\ \A i \in 1..Len(str) : str[i].msg <= n

\* How much of p's stream its remote endpoint has read.
ReadOf(p) == rcv_nxt[Remote(p)] - Len(rcv_queue[Remote(p)])

\* What has been read of p's stream is whole messages, and all of them.
ReadWhole(p) ==
  LET messages == delivered[Remote(p)]
  IN /\ ReadOf(p) = 0 => Len(messages) = 0
     /\ ReadOf(p) > 0 => /\ stream[p][ReadOf(p)].msg = Len(messages)
                         /\ stream[p][ReadOf(p)].frg = 0
     /\ \A m \in 1..Len(messages) : messages[m] = Messages(p)[m]

\* What ImplementsChannel needs besides IInv: ikcp_recv cuts the stream where
\* ikcp_send did.
MessagesKept ==
  \A p \in Peer : /\ CountsDown(stream[p])
                  /\ Numbers(stream[p], MsgsSent(p))
                  /\ ReadWhole(p)
=============================================================================
