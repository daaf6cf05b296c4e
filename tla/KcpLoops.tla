------------------------------ MODULE KcpLoops ------------------------------
(***************************************************************************)
(* The loops of ikcp_input, ikcp_recv and ikcp_flush, one iteration at a   *)
(* time.  KcpArq gives the result of each loop in closed form; here every  *)
(* step of KcpArq is compared with the loops that the code runs.           *)
(*                                                                         *)
(* A loop is a function of how many turns it has taken.  A turn whose      *)
(* condition does not hold changes nothing, and each loop is given more    *)
(* turns than it can take.                                                 *)
(***************************************************************************)
EXTENDS KcpArq, SequencesExt

Ascending(S) ==
  {order \in SetToSeqs(S) :
     \A i, j \in 1..Len(order) : i < j => order[i] < order[j]}

\* A list of segments without the one numbered s, and with it, if it had none.
Without(f, s) == [x \in DOMAIN f \ {s} |-> f[x]]
With(f, s, seg) == [x \in DOMAIN f \cup {s} |-> IF x \in DOMAIN f THEN f[x] ELSE seg]

-----------------------------------------------------------------------------
(* The receive side: rcv has the fields nxt, buf, queue and acks.          *)

Rcv(p) == [nxt |-> rcv_nxt[p], buf |-> rcv_buf[p], queue |-> rcv_queue[p],
           acks |-> acklist[p]]

MoveTurn(rcv, wnd) ==
  IF DOMAIN rcv.buf # {} /\ Min(DOMAIN rcv.buf) = rcv.nxt /\ Len(rcv.queue) < wnd
  THEN [rcv EXCEPT !.nxt = @ + 1,
                   !.buf = Without(@, rcv.nxt),
                   !.queue = Append(@, rcv.buf[rcv.nxt])]
  ELSE rcv

\* The loop that ikcp_parse_data and ikcp_recv share; every turn of it makes
\* rcv_queue longer.
MoveLoop(rcv, wnd) ==
  LET after[i \in 0..wnd] == IF i = 0 THEN rcv ELSE MoveTurn(after[i - 1], wnd)
  IN after[wnd]

ParseData(rcv, wnd, s, seg) ==
  IF s >= rcv.nxt + wnd \/ s < rcv.nxt THEN rcv
  ELSE MoveLoop([rcv EXCEPT !.buf = With(@, s, seg)], wnd)

\* ikcp_input on one PUSH.
PushSegment(rcv, wnd, s, seg) ==
  IF s >= rcv.nxt + wnd THEN rcv
  ELSE LET acked == [rcv EXCEPT !.acks = @ \cup {s}]
       IN IF s >= rcv.nxt THEN ParseData(acked, wnd, s, seg) ELSE acked

PushLoop(p, push, order) ==
  LET after[i \in 0..Len(order)] ==
        IF i = 0 THEN Rcv(p)
        ELSE PushSegment(after[i - 1], rcv_wnd[p], order[i], push[order[i]])
  IN after[Len(order)]

\* The merge loop of ikcp_recv drops the head up to the first frg of 0.
MergeTurn(merge) ==
  IF merge.more /\ merge.queue # <<>>
  THEN [queue |-> Tail(merge.queue), more |-> Head(merge.queue).frg # 0]
  ELSE merge

MergeLoop(queue) ==
  LET after[i \in 0..Len(queue)] ==
        IF i = 0 THEN [queue |-> queue, more |-> TRUE] ELSE MergeTurn(after[i - 1])
  IN after[Len(queue)].queue

RecvLoop(p) == MoveLoop([Rcv(p) EXCEPT !.queue = MergeLoop(@)], rcv_wnd[p])

-----------------------------------------------------------------------------
(* The send side: snd has the fields una, nxt, buf and queue.              *)

Snd(p) == [una |-> snd_una[p], nxt |-> snd_nxt[p], buf |-> snd_buf[p],
           queue |-> snd_queue[p]]

ShrinkBuf(snd) == [snd EXCEPT !.una = LowestUnacked(DOMAIN snd.buf, snd.nxt)]

UnaTurn(buf, una) ==
  IF DOMAIN buf # {} /\ Min(DOMAIN buf) < una THEN Without(buf, Min(DOMAIN buf))
  ELSE buf

\* snd_buf holds numbers below snd_nxt only.
ParseUna(snd, una) ==
  LET after[i \in 0..snd.nxt] ==
        IF i = 0 THEN snd.buf ELSE UnaTurn(after[i - 1], una)
  IN [snd EXCEPT !.buf = after[snd.nxt]]

ParseAck(snd, s) ==
  IF s < snd.una \/ s >= snd.nxt THEN snd ELSE [snd EXCEPT !.buf = Without(@, s)]

\* ikcp_input on one ACK; every segment repeats the una of its flush.
AckSegment(snd, una, s) ==
  ShrinkBuf(ParseAck(ShrinkBuf(ParseUna(snd, una)), s))

AckLoop(p, una, order) ==
  LET after[i \in 0..Len(order)] ==
        IF i = 0 THEN ShrinkBuf(ParseUna(Snd(p), una))
        ELSE AckSegment(after[i - 1], una, order[i])
  IN after[Len(order)]

NumberTurn(snd, cwnd) ==
  IF snd.nxt < snd.una + cwnd /\ snd.queue # <<>>
  THEN [snd EXCEPT !.nxt = @ + 1, !.queue = Tail(@),
                   !.buf = With(@, snd.nxt, Head(snd.queue))]
  ELSE snd

\* The loop of ikcp_flush that numbers segments.
NumberLoop(snd, cwnd) ==
  LET after[i \in 0..Len(snd.queue)] ==
        IF i = 0 THEN snd ELSE NumberTurn(after[i - 1], cwnd)
  IN after[Len(snd.queue)]

-----------------------------------------------------------------------------

\* Whatever a datagram holds, ikcp_input leaves what its loop over the
\* segments leaves: PUSHes in ascending order, each seeing the rcv_nxt that
\* the ones before it moved, and ACKs in any order of the acklist.
InputIsTheLoop ==
  [][\A p \in Peer, d \in net :
       Input(p, d) =>
         /\ \A order \in Ascending(DOMAIN d.push) :
              Rcv(p)' = PushLoop(p, d.push, order)
         /\ \A order \in SetToSeqs(d.ack) : Snd(p)' = AckLoop(p, d.una, order)]_vars

\* ikcp_recv and ikcp_flush leave what their loops leave.
CallsAreTheLoops ==
  [][\A p \in Peer :
       /\ Recv(p) => Rcv(p)' = RecvLoop(p)
       /\ Peek(p) => Rcv(p)' = MoveLoop(Rcv(p), rcv_wnd[p])
       /\ \A c \in 0..snd_wnd[p] :
            \/ Snd(p)' = NumberLoop(Snd(p), imin(c, imin(snd_wnd[p], rmt_wnd[p])))
            \/ \A resend \in SUBSET DOMAIN snd_buf[p], due \in BOOLEAN :
                 ~Flush(p, c, resend, due)]_vars
=============================================================================
