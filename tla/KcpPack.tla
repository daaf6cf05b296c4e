------------------------------- MODULE KcpPack ------------------------------
(***************************************************************************)
(* The bytes of one direction of a conversation: ikcp_send cuts them into  *)
(* segments, in message and in stream mode, ikcp_flush packs segments and  *)
(* control into datagrams of at most one MTU, ikcp_peeksize and ikcp_recv  *)
(* put messages together again, and ikcp_setmtu changes the unit and with  *)
(* it the buffer in which a datagram is put together.                      *)
(*                                                                         *)
(* A segment is a stretch of the bytes ikcp_send has accepted.  Between    *)
(* the flush and the receive queue is what KcpArq promises: the segments   *)
(* arrive in order, each once.  What a write behind the end of the buffer  *)
(* leads to is undefined: nothing happens in the model after one.          *)
(***************************************************************************)
EXTENDS Integers, Sequences, FiniteSets, SequencesExt, FiniteSetsExt

CONSTANTS
  OVERHEAD,    \* IKCP_OVERHEAD
  MTU_DEF,     \* IKCP_MTU_DEF
  MTU_MIN,     \* 50
  WND_RCV,     \* IKCP_WND_RCV
  Streams,     \* values of the stream flag
  Lens,        \* lengths the application passes to ikcp_send
  Buffers,     \* sizes of the buffers it passes to ikcp_recv
  Mtus,        \* MTUs it passes to ikcp_setmtu
  MaxBytes,    \* bound: bytes sent
  MaxSends,    \* bound: calls of ikcp_send
  MaxAcks,     \* bound: acknowledgements in one flush
  MaxMtus,     \* bound: different MTUs in a conversation
  MaxFailures  \* bound: allocations that fail

ASSUME PackAssumption ==
  /\ {OVERHEAD, MTU_DEF, MTU_MIN, WND_RCV} \subseteq Nat \ {0}
  /\ OVERHEAD < MTU_MIN /\ MTU_MIN <= MTU_DEF
  /\ Streams \subseteq BOOLEAN
  /\ Lens \cup Buffers \cup Mtus \subseteq Nat
  /\ {MaxBytes, MaxSends, MaxAcks, MaxMtus, MaxFailures} \subseteq Nat

VARIABLES
  stream,      \* the stream flag of the block
  mtu,
  mtus,        \* history: the MTUs there have been
  buffer,      \* the size of the buffer
  overrun,     \* whether ikcp_flush has written behind its end
  snd_queue,
  snd_buf,     \* segments sent and not acknowledged, in order
  rcv_queue,   \* the remote endpoint's
  accepted,    \* history: how many bytes ikcp_send has queued
  sends,       \* history: the messages it has reported as sent
  failures,    \* how many of the MaxFailures there have been
  reads,       \* history: what ikcp_recv has returned
  out          \* the datagrams of this step, if it is a flush, as lists of lengths

sndVars == <<snd_queue, accepted, sends, failures>>
unitVars == <<stream, mtu, mtus, buffer, overrun>>
vars == <<unitVars, sndVars, snd_buf, rcv_queue, reads, out>>

mss == mtu - OVERHEAD

imin(a, b) == IF a <= b THEN a ELSE b

\* Mutant: the buffer has room for a datagram of one MTU.
BufferForOne(m) == m

\* The buffer that ikcp_create and ikcp_setmtu allocate for an MTU of m.
BufferFor(m) == (m + OVERHEAD) * 3

Init ==
  /\ stream \in Streams /\ mtu = MTU_DEF /\ mtus = {MTU_DEF}
  /\ buffer = BufferFor(MTU_DEF) /\ overrun = FALSE
  /\ snd_queue = <<>> /\ snd_buf = <<>> /\ rcv_queue = <<>>
  /\ accepted = 0 /\ sends = <<>> /\ failures = 0 /\ reads = <<>> /\ out = <<>>

-----------------------------------------------------------------------------
(* ikcp_send *)

Total(lengths) == FoldLeft(+, 0, lengths)

\* How many bytes segments, or reads, make.
Bytes(segs) == Total([i \in DOMAIN segs |-> segs[i].len])

\* Mutant: the first segment is looked at, not the last.
ExtendByHead(len) ==
  IF stream /\ snd_queue # <<>> /\ Head(snd_queue).len < mss
  THEN imin(len, mss - Last(snd_queue).len) ELSE 0

\* How many of len bytes go into the last segment of snd_queue.
Extend(len) ==
  IF stream /\ snd_queue # <<>> /\ Last(snd_queue).len < mss
  THEN imin(len, mss - Last(snd_queue).len) ELSE 0

Extended(ext) ==
  IF ext = 0 THEN snd_queue
  ELSE [snd_queue EXCEPT ![Len(snd_queue)].len = @ + ext]

\* How many segments len bytes make; the code counts none as one later.
Count(len) == IF len <= mss THEN 1 ELSE (len + mss - 1) \div mss

\* Mutant: fragments are counted down to one.
CutToOne(from, len) ==
  [i \in 1..Count(len) |->
     [from |-> from + (i - 1) * mss, len |-> imin(mss, len - (i - 1) * mss),
      frg |-> IF stream THEN 0 ELSE Count(len) - i + 1]]

\* The fragments of len bytes from there on.
Cut(from, len) ==
  [i \in 1..Count(len) |->
     [from |-> from + (i - 1) * mss, len |-> imin(mss, len - (i - 1) * mss),
      frg |-> IF stream THEN 0 ELSE Count(len) - i]]

\* Mutant: what does not fit into the last segment is always a new one.
RestForgetsCapacity(len, ext) == len

Rest(len, ext) == len - ext

\* ikcp_send: the last segment filled up (stream mode), then the rest, if any,
\* cut into fragments, unless they are too many: then what was appended is all
\* that is accepted, or the message is refused with -2.
Send(len) ==
  /\ ~overrun
  /\ Len(sends) < MaxSends /\ accepted + len <= MaxBytes
  /\ LET ext == Extend(len)
         rest == Rest(len, ext)
         whole == ~(stream /\ rest = 0) /\ Count(rest) < WND_RCV
         n == IF whole THEN len ELSE ext
     IN /\ whole \/ ext > 0
        /\ snd_queue' = Extended(ext) \o
             (IF whole THEN Cut(accepted + ext, rest) ELSE <<>>)
        /\ accepted' = accepted + n
        /\ sends' = Append(sends, [from |-> accepted, len |-> n])
  /\ out' = <<>>
  /\ UNCHANGED <<unitVars, snd_buf, rcv_queue, reads, failures>>

\* ikcp_send when the allocation of the fragment behind the first k fails: it
\* returns -2 and leaves what it has queued.
SendFails(len, k) ==
  /\ ~overrun
  /\ failures < MaxFailures /\ accepted + len <= MaxBytes
  /\ failures' = failures + 1
  /\ LET ext == Extend(len)
         rest == Rest(len, ext)
     IN /\ ~(stream /\ rest = 0) /\ Count(rest) < WND_RCV /\ k < Count(rest)
        /\ snd_queue' = Extended(ext) \o SubSeq(Cut(accepted + ext, rest), 1, k)
        /\ accepted' = accepted + ext + k * mss
  /\ out' = <<>>
  /\ UNCHANGED <<unitVars, snd_buf, rcv_queue, reads, sends>>

-----------------------------------------------------------------------------
(* ikcp_flush *)

\* Mutant: only the payload counts against the MTU.
PutPayload(packed, need) ==
  CASE need = 0 -> packed
    [] need > 0 /\ packed # <<>>
         /\ Total(Last(packed)) + need <= mtu + OVERHEAD * Len(Last(packed)) ->
         [packed EXCEPT ![Len(packed)] = Append(@, need)]
    [] OTHER -> Append(packed, <<need>>)

\* Mutant: a new datagram for every item.
PutAlone(packed, need) == IF need = 0 THEN packed ELSE Append(packed, <<need>>)

\* One more item of need bytes: into the datagram begun, or into a new one.
\* Nothing for a segment that is not due.
Put(packed, need) ==
  CASE need = 0 -> packed
    [] need > 0 /\ packed # <<>> /\ Total(Last(packed)) + need <= mtu ->
         [packed EXCEPT ![Len(packed)] = Append(@, need)]
    [] OTHER -> Append(packed, <<need>>)

\* The calls of ikcp_output.
Packed(needs) == FoldLeft(Put, <<>>, needs)

\* snd_buf with n new segments, and the bytes that each of its segments needs
\* in a flush, if it is new or due again, behind the acknowledgements and probes.
SndBufWith(n) == snd_buf \o SubSeq(snd_queue, 1, n)

Needs(control, n, resend) ==
  LET buf == SndBufWith(n)
      due(i) == i \in resend \/ i > Len(snd_buf)
  IN [i \in 1..control |-> OVERHEAD] \o
     [i \in DOMAIN buf |-> IF due(i) THEN OVERHEAD + buf[i].len ELSE 0]

\* Every datagram is put together in the buffer, from its beginning.
InBuffer(datagrams) == \A i \in DOMAIN datagrams : Total(datagrams[i]) <= buffer

\* A flush of so many acknowledgements and probes, of n new segments and of
\* those due again.
Flush(control, n, resend) ==
  /\ ~overrun /\ n <= Len(snd_queue)
  /\ InBuffer(Packed(Needs(control, n, resend)))
  /\ snd_buf' = SndBufWith(n)
  /\ snd_queue' = SubSeq(snd_queue, n + 1, Len(snd_queue))
  /\ out' = Packed(Needs(control, n, resend))
  /\ UNCHANGED <<unitVars, accepted, sends, failures, rcv_queue, reads>>

\* A flush that writes a segment behind the end of the buffer: ikcp_flush looks
\* at mtu only, and does so before it begins a datagram.
FlushOverruns(control, n, resend) ==
  /\ ~overrun /\ n <= Len(snd_queue)
  /\ ~InBuffer(Packed(Needs(control, n, resend)))
  /\ overrun' = TRUE
  /\ out' = <<>>
  /\ UNCHANGED <<stream, mtu, mtus, buffer, sndVars, snd_buf, rcv_queue, reads>>

-----------------------------------------------------------------------------
(* The remote endpoint *)

\* The oldest segments arrive, and their acknowledgements too.
Arrive(k) ==
  /\ ~overrun
  /\ k \in 1..Len(snd_buf) /\ Len(rcv_queue) + k <= WND_RCV
  /\ rcv_queue' = rcv_queue \o SubSeq(snd_buf, 1, k)
  /\ snd_buf' = SubSeq(snd_buf, k + 1, Len(snd_buf))
  /\ out' = <<>>
  /\ UNCHANGED <<unitVars, sndVars, reads>>

\* The first message of rcv_queue: up to the first segment whose frg is 0, or
\* all there is.
First ==
  LET last == SelectInSeq(rcv_queue, LAMBDA seg : seg.frg = 0)
  IN IF last = 0 THEN Len(rcv_queue) ELSE last

\* Mutant: the length of the first segment stands for that of the message.
PeekFirstSegment == IF rcv_queue = <<>> THEN -1 ELSE Head(rcv_queue).len

\* ikcp_peeksize
PeekSize ==
  IF rcv_queue = <<>> \/ Len(rcv_queue) < Head(rcv_queue).frg + 1 THEN -1
  ELSE Bytes(SubSeq(rcv_queue, 1, First))

\* ikcp_recv into a buffer that is long enough; -3 otherwise
Recv(size) ==
  /\ ~overrun
  /\ PeekSize >= 0 /\ PeekSize <= size
  /\ reads' = Append(reads, [from |-> Head(rcv_queue).from,
                             len |-> Bytes(SubSeq(rcv_queue, 1, First)),
                             into |-> size])
  /\ rcv_queue' = SubSeq(rcv_queue, First + 1, Len(rcv_queue))
  /\ out' = <<>>
  /\ UNCHANGED <<unitVars, sndVars, snd_buf>>

\* ikcp_setmtu
SetMtu(m) ==
  /\ ~overrun
  /\ m >= MTU_MIN /\ Cardinality(mtus \cup {m}) <= MaxMtus
  /\ mtu' = m /\ mtus' = mtus \cup {m}
  /\ buffer' = BufferFor(m)
  /\ out' = <<>>
  /\ UNCHANGED <<stream, overrun, sndVars, snd_buf, rcv_queue, reads>>

Next ==
  \/ \E len \in Lens : Send(len)
  \/ \E len \in Lens, k \in 0 .. WND_RCV - 2 : SendFails(len, k)
  \/ \E control \in 0..MaxAcks, n \in 0..Len(snd_queue),
        resend \in SUBSET DOMAIN snd_buf : Flush(control, n, resend)
  \/ \E control \in 0..MaxAcks, n \in 0..Len(snd_queue),
        resend \in SUBSET DOMAIN snd_buf : FlushOverruns(control, n, resend)
  \/ \E k \in 1..Len(snd_buf) : Arrive(k)
  \/ \E size \in Buffers : Recv(size)
  \/ \E m \in Mtus : SetMtu(m)

Spec == Init /\ [][Next]_vars

-----------------------------------------------------------------------------
(* Properties *)

Segment == [from : Nat, len : Nat, frg : 0 .. WND_RCV - 2]

\* The types of the fields: the window could hold one fragment more than any
\* message has.
TypeOK ==
  /\ stream \in Streams /\ mtu \in mtus /\ mtus \subseteq Nat
  /\ buffer \in Nat /\ overrun \in BOOLEAN
  /\ {snd_queue, snd_buf, rcv_queue} \subseteq Seq(Segment)
  /\ accepted \in Nat /\ failures \in Nat
  /\ sends \in Seq([from : Nat, len : Nat])
  /\ reads \in Seq([from : Nat, len : Nat, into : Nat])

\* Every segment on its way, from the application that sends to the one that
\* reads.
Pipeline == rcv_queue \o snd_buf \o snd_queue

\* The bytes on their way are those accepted and not read, in order, without
\* a gap or a repetition: what ikcp_send returns is what it took, also when
\* it took only what fitted into the last segment, and what a failure leaves
\* queued is not taken again.
BytesInOrder ==
  /\ \A i \in DOMAIN Pipeline :
       Pipeline[i].from = Bytes(reads) + Bytes(SubSeq(Pipeline, 1, i - 1))
  /\ Bytes(reads) + Bytes(Pipeline) = accepted

\* In message mode, as long as no allocation has failed, what is read is what
\* ikcp_send reported as sent, message by message, and never longer than the
\* buffer; in stream mode nothing is longer either.
ReadsAreSends ==
  \A i \in DOMAIN reads :
    /\ reads[i].len <= reads[i].into
    /\ ~stream /\ failures = 0 => /\ reads[i].from = sends[i].from
                                  /\ reads[i].len = sends[i].len

\* A datagram is longer than the MTU only if it is a single segment, cut when
\* the MTU was greater, that the buffer still holds.
OutputFitsMtu ==
  [][\A i \in DOMAIN out' :
       \/ Total(out'[i]) <= mtu'
       \/ /\ Len(out'[i]) = 1 /\ Total(out'[i]) <= Max(mtus')
          /\ Total(out'[i]) <= (mtu' + OVERHEAD) * 3]_out

\* ikcp_flush writes behind the end of the buffer, if at all, only after the
\* application has lowered the MTU to less than about a third of what it was:
\* nothing in ikcp_setmtu, ikcp_send or ikcp_flush prevents it then.
BufferHolds == Max(mtus) <= (mtu + OVERHEAD) * 3 => ~overrun

\* No two datagrams of a flush in a row could have been sent as one.
PackedFull ==
  [][\A i \in 1 .. Len(out') - 1 :
       Total(out'[i]) + Head(out'[i + 1]) > mtu']_out

\* Stream mode wastes no header: all segments that wait are full, except the
\* last ("append to previous segment in streaming mode (if possible)"), or at
\* least as long as the least MTU there has been allows.
StreamFillsSegments ==
  stream => \A i \in 1 .. Len(snd_queue) - 1 :
              snd_queue[i].len >= Min(mtus) - OVERHEAD

-----------------------------------------------------------------------------
(* The inductive invariant: what makes these properties hold.               *)

\* No segment that may be sent is longer than the greatest MTU allows.
UnitsKept ==
  /\ \A m \in mtus : MTU_MIN <= m
  /\ \E low, high \in mtus : \A m \in mtus : low <= m /\ m <= high
  /\ \A i \in DOMAIN snd_queue : OVERHEAD + snd_queue[i].len <= Max(mtus)
  /\ \A i \in DOMAIN snd_buf : OVERHEAD + snd_buf[i].len <= Max(mtus)

\* n segments, one behind the other, are the bytes from a to b.
Covers(segs, n, a, b) ==
  /\ n = 0 => a = b
  /\ n > 0 => segs[1].from = a /\ segs[n].from + segs[n].len = b
  /\ \A i \in 1 .. n - 1 : segs[i + 1].from = segs[i].from + segs[i].len

\* The n segments are messages of those sent, whole, segment i of message
\* msg[i], from the first to the last, cut where ikcp_send cut them: frg counts
\* down to 0 at the end of a message.
Messages(segs, n, msg, sent, first, last) ==
  /\ msg[1] = first /\ segs[1].from = sent[first].from
  /\ msg[n] = last /\ segs[n].frg = 0
  /\ \A i \in 1..n : segs[i].frg = 0 =>
       segs[i].from + segs[i].len = sent[msg[i]].from + sent[msg[i]].len
  /\ \A i \in 1 .. n - 1 :
       IF segs[i].frg = 0
       THEN msg[i + 1] = msg[i] + 1 /\ segs[i + 1].from = sent[msg[i + 1]].from
       ELSE msg[i + 1] = msg[i] /\ segs[i + 1].frg = segs[i].frg - 1

WholeMessages(segs, n, sent, first, last) ==
  IF n = 0 THEN first = last + 1
  ELSE \E msg \in [1..n -> 1..last] : Messages(segs, n, msg, sent, first, last)

\* In message mode the segments on their way are the messages sent and not read.
MessagesQueued ==
  WholeMessages(Pipeline, Len(Pipeline), sends, Len(reads) + 1, Len(sends))

\* The invariants of this module hold because every step preserves this.
PackInv ==
  /\ TypeOK
  /\ UnitsKept
  /\ buffer = BufferFor(mtu)
  /\ BufferHolds
  /\ Covers(Pipeline, Len(Pipeline), Bytes(reads), accepted)
  /\ ~stream /\ failures = 0 => MessagesQueued
  /\ StreamFillsSegments
  /\ ReadsAreSends
=============================================================================
